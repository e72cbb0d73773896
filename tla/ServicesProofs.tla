---------------------------- MODULE ServicesProofs ----------------------------
(***************************************************************************)
(* The modules that share no state, for every value of their constants:    *)
(* the providers of a configuration, which any number of windows edit; the *)
(* daemons of a state directory and the invocations that replace them; the *)
(* output and input of a terminal; the providers of a host; the skill that *)
(* the workers of several daemons move and install; and the two adapters.  *)
(* Each part has the inductive invariant of its module; the theorems about *)
(* a behaviour of any of them come last.                                   *)
(***************************************************************************)
EXTENDS MCServices, Integers, Sequences, TLAPS

-----------------------------------------------------------------------------
(* Providers.  Each operation that is allowed on a sound configuration makes a
   sound one, and whoever is inside the lock has read what the file still says. *)

\* The configurations the file can hold.
Configs ==
  [records : UNION {[S -> Records] : S \in SUBSET Ids},
   bound   : UNION {[T -> Ids] : T \in SUBSET Targets}]

Good(c) == c \in Configs /\ Sound(c)

\* Only the window that holds the lock is inside, and its copy is current.
Serial ==
  \A w \in Windows : op[w] # Idle => lock = w /\ copy[w] = file

IInv ==
  /\ op \in [Windows -> Asked \cup {Idle}] /\ copy \in [Windows -> Configs]
  /\ ops \in Nat
  /\ Serial
  /\ file = intended /\ Good(file)

\* Both parts of a configuration are functions over what they name.
LEMMA ConfigParts ==
  ASSUME NEW c \in Configs
  PROVE  /\ DOMAIN c.records \subseteq Ids /\ DOMAIN c.bound \subseteq Targets
         /\ c.records \in [DOMAIN c.records -> Records]
         /\ c.bound \in [DOMAIN c.bound -> Ids]
         /\ c = [records |-> c.records, bound |-> c.bound]
BY DEF Configs

\* Two functions of the right kind make a configuration.
LEMMA PartsMake ==
  ASSUME NEW S \in SUBSET Ids, NEW f \in [S -> Records],
         NEW T \in SUBSET Targets, NEW g \in [T -> Ids]
  PROVE  [records |-> f, bound |-> g] \in Configs
BY DEF Configs

\* Saving a record keeps credentials with their addresses and every binding to
\* a protocol its Agent takes.
LEMMA SaveIsSound ==
  ASSUME NEW c, Good(c), NEW o \in Asked, o.kind = "save", Saves(c, o), NEW r \in Nat
  PROVE  Good(Saved(c, o, r))
<1> DEFINE credential == IF ~o.auth THEN None ELSE IF o.typed THEN o.url ELSE c.records[o.id].credential
           new == [url |-> o.url, protocol |-> o.protocol, credential |-> credential, revision |-> r]
           f == Set(c.records, o.id, new)
<1>1. o.id \in Ids /\ o.url \in Urls /\ o.protocol \in Protocols /\ o.auth \in BOOLEAN /\ o.typed \in BOOLEAN
  BY DEF Asked
<1>2. c \in Configs /\ Sound(c) BY DEF Good
<1>3. DOMAIN c.records \subseteq Ids /\ c.records \in [DOMAIN c.records -> Records]
      /\ DOMAIN c.bound \subseteq Targets /\ c.bound \in [DOMAIN c.bound -> Ids]
      /\ c = [records |-> c.records, bound |-> c.bound]
  BY <1>2, ConfigParts
<1>4. Saved(c, o, r) = [records |-> f, bound |-> c.bound]
  BY <1>3 DEF Saved
<1>5. credential \in {None, o.url}
  <2>1. CASE ~o.auth BY <2>1
  <2>2. CASE o.auth /\ o.typed BY <2>2
  <2>3. CASE o.auth /\ ~o.typed
    <3>1. o.id \in DOMAIN c.records BY <2>3 DEF Saves
    <3>2. c.records[o.id].url = o.url BY <2>3, <3>1 DEF Saves, Keeps, KeepsSame
    <3>3. c.records[o.id].credential \in {None, c.records[o.id].url} BY <1>2, <3>1 DEF Sound
    <3>4. QED BY <2>3, <3>2, <3>3
  <2>4. QED BY <1>1, <2>1, <2>2, <2>3
<1>6. new \in Records BY <1>1, <1>5 DEF Records
<1>7. /\ DOMAIN f = DOMAIN c.records \cup {o.id} /\ f[o.id] = new
      /\ \A i \in DOMAIN c.records : i # o.id => f[i] = c.records[i]
      /\ f \in [DOMAIN c.records \cup {o.id} -> Records]
  BY <1>1, <1>3, <1>6 DEF Set
<1>8. [records |-> f, bound |-> c.bound] \in Configs
  BY <1>1, <1>3, <1>7, PartsMake
<1>9. \A p \in DOMAIN f : f[p].credential \in {None, f[p].url}
  BY <1>2, <1>5, <1>7 DEF Sound
<1>10. \A t \in DOMAIN c.bound : c.bound[t] \in DOMAIN f /\ f[c.bound[t]].protocol \in Speaks[t]
  <2> TAKE t \in DOMAIN c.bound
  <2>1. c.bound[t] \in DOMAIN c.records /\ c.records[c.bound[t]].protocol \in Speaks[t]
    BY <1>2 DEF Sound
  <2>2. CASE c.bound[t] # o.id BY <2>1, <2>2, <1>7
  <2>3. CASE c.bound[t] = o.id
    <3>1. BoundTo(c, o.id) # {} BY <2>3 DEF BoundTo
    <3>2. c.records[o.id].protocol = o.protocol
      BY <2>1, <2>3, <3>1 DEF Saves, ProtocolOk, ProtocolKept
    <3>3. QED BY <2>1, <2>3, <3>2, <1>7
  <2>4. QED BY <2>2, <2>3
<1>11. QED BY <1>4, <1>8, <1>9, <1>10 DEF Good, Sound

\* Removing bindings, by whatever choice, changes nothing else.
LEMMA UnbindIsSound ==
  ASSUME NEW c, Good(c), NEW gone
  PROVE  Good([c EXCEPT !.bound = Without(@, gone)])
<1> DEFINE g == Without(c.bound, gone)
<1>1. c \in Configs /\ Sound(c) BY DEF Good
<1>2. DOMAIN c.records \subseteq Ids /\ c.records \in [DOMAIN c.records -> Records]
      /\ DOMAIN c.bound \subseteq Targets /\ c.bound \in [DOMAIN c.bound -> Ids]
      /\ c = [records |-> c.records, bound |-> c.bound]
  BY <1>1, ConfigParts
<1>3. DOMAIN g = DOMAIN c.bound \ gone /\ g \in [DOMAIN c.bound \ gone -> Ids]
      /\ \A t \in DOMAIN g : g[t] = c.bound[t]
  BY <1>2 DEF Without, Restrict
<1>4. [c EXCEPT !.bound = Without(@, gone)] = [records |-> c.records, bound |-> g] BY <1>2
<1>5. [records |-> c.records, bound |-> g] \in Configs BY <1>2, <1>3, PartsMake
<1>6. Sound([records |-> c.records, bound |-> g]) BY <1>1, <1>3 DEF Sound
<1>7. QED BY <1>4, <1>5, <1>6 DEF Good

\* Deleting a provider takes the bindings to it along.
LEMMA DeleteIsSound ==
  ASSUME NEW c, Good(c), NEW o
  PROVE  Good(Deleted(c, o))
<1> DEFINE f == Without(c.records, {o.id})
           g == Without(c.bound, BoundTo(c, o.id))
<1>1. c \in Configs /\ Sound(c) BY DEF Good
<1>2. DOMAIN c.records \subseteq Ids /\ c.records \in [DOMAIN c.records -> Records]
      /\ DOMAIN c.bound \subseteq Targets /\ c.bound \in [DOMAIN c.bound -> Ids]
  BY <1>1, ConfigParts
<1>3. DOMAIN f = DOMAIN c.records \ {o.id} /\ f \in [DOMAIN c.records \ {o.id} -> Records]
      /\ \A p \in DOMAIN f : f[p] = c.records[p]
  BY <1>2 DEF Without, Restrict
<1>4. DOMAIN g = DOMAIN c.bound \ BoundTo(c, o.id) /\ g \in [DOMAIN c.bound \ BoundTo(c, o.id) -> Ids]
      /\ \A t \in DOMAIN g : g[t] = c.bound[t]
  BY <1>2 DEF Without, Restrict
<1>5. [records |-> f, bound |-> g] \in Configs BY <1>2, <1>3, <1>4, PartsMake
<1>6. \A p \in DOMAIN f : f[p].credential \in {None, f[p].url} BY <1>1, <1>3 DEF Sound
<1>7. \A t \in DOMAIN g : g[t] \in DOMAIN f /\ f[g[t]].protocol \in Speaks[t]
  BY <1>1, <1>3, <1>4 DEF Sound, BoundTo
<1>8. QED BY <1>5, <1>6, <1>7 DEF Good, Sound, Deleted

\* Binding a target to a provider whose protocol its Agent takes.
LEMMA BindIsSound ==
  ASSUME NEW c, Good(c), NEW o \in Asked, o.kind = "bind", Binds(c, o)
  PROVE  Good([c EXCEPT !.bound = Set(@, o.target, o.id)])
<1> DEFINE g == Set(c.bound, o.target, o.id)
<1>1. c \in Configs /\ Sound(c) BY DEF Good
<1>2. o.target \in Targets /\ o.id \in Ids BY DEF Asked
<1>3. DOMAIN c.records \subseteq Ids /\ c.records \in [DOMAIN c.records -> Records]
      /\ DOMAIN c.bound \subseteq Targets /\ c.bound \in [DOMAIN c.bound -> Ids]
      /\ c = [records |-> c.records, bound |-> c.bound]
  BY <1>1, ConfigParts
<1>4. DOMAIN g = DOMAIN c.bound \cup {o.target} /\ g \in [DOMAIN c.bound \cup {o.target} -> Ids]
      /\ g[o.target] = o.id /\ \A t \in DOMAIN c.bound : t # o.target => g[t] = c.bound[t]
  BY <1>2, <1>3 DEF Set
<1>5. [c EXCEPT !.bound = Set(@, o.target, o.id)] = [records |-> c.records, bound |-> g] BY <1>3
<1>6. [records |-> c.records, bound |-> g] \in Configs BY <1>2, <1>3, <1>4, PartsMake
<1>7. Sound([records |-> c.records, bound |-> g]) BY <1>1, <1>4 DEF Sound, Binds
<1>8. QED BY <1>5, <1>6, <1>7 DEF Good

\* Every operation that is allowed makes a sound configuration of a sound one.
LEMMA AppliedIsSound ==
  ASSUME NEW c, Good(c), NEW o \in Asked, Allowed(c, o), NEW r \in Nat
  PROVE  Good(Applied(c, o, r))
<1>1. o.kind \in {"save", "bind", "unbind", "forget", "delete"} BY DEF Asked
<1>2. CASE o.kind = "save"
  <2>1. Saves(c, o) BY <1>2 DEF Allowed
  <2>2. Good(Saved(c, o, r)) BY <1>2, <2>1, SaveIsSound
  <2>3. QED BY <1>2, <2>2 DEF Applied
<1>3. CASE o.kind = "bind"
  <2>1. Binds(c, o) BY <1>3 DEF Allowed
  <2>2. Good([c EXCEPT !.bound = Set(@, o.target, o.id)]) BY <1>3, <2>1, BindIsSound
  <2>3. QED BY <1>3, <2>2 DEF Applied
<1>4. CASE o.kind = "unbind"
  <2>1. Good([c EXCEPT !.bound = Without(@, {o.target})]) BY UnbindIsSound
  <2>2. QED BY <1>4, <2>1 DEF Applied
<1>5. CASE o.kind = "forget"
  <2>1. Applied(c, o, r) = [c EXCEPT !.bound = Without(@, {t \in DOMAIN c.bound : t[1] = o.host})]
    BY <1>5 DEF Applied
  <2>2. Good([c EXCEPT !.bound = Without(@, {t \in DOMAIN c.bound : t[1] = o.host})]) BY UnbindIsSound
  <2>3. QED BY <2>1, <2>2
<1>6. CASE o.kind = "delete"
  <2>1. Good(Deleted(c, o)) BY DeleteIsSound
  <2>2. QED BY <1>6, <2>1 DEF Applied
<1>7. QED BY <1>1, <1>2, <1>3, <1>4, <1>5, <1>6

\* Nobody has configured anything, or an older App left one provider behind.
LEMMA LegacyIsGood == ASSUME NEW c \in Legacy PROVE Good(c)
<1>1. CASE c = Empty
  <2> DEFINE f == [p \in {} |-> None]
             g == [t \in {} |-> None]
  <2>1. DOMAIN f = {} /\ f \in [{} -> Records] /\ DOMAIN g = {} /\ g \in [{} -> Ids] OBVIOUS
  <2>2. [records |-> f, bound |-> g] \in Configs BY <2>1, PartsMake
  <2>3. QED BY <1>1, <2>1, <2>2 DEF Good, Sound, Empty
<1>2. CASE c # Empty
  <2>1. PICK i \in Ids, u \in Urls, q \in Protocols : c = LeftBehind(i, u, q)
    BY <1>2 DEF Legacy
  <2> DEFINE n == [url |-> u, protocol |-> q, credential |-> u, revision |-> 0]
             f == [p \in {i} |-> n]
             g == [t \in {} |-> None]
  <2>2. n \in Records BY DEF Records
  <2>3. DOMAIN f = {i} /\ f \in [{i} -> Records] /\ f[i] = n BY <2>2
  <2>4. DOMAIN g = {} /\ g \in [{} -> Ids] OBVIOUS
  <2>5. [records |-> f, bound |-> g] \in Configs BY <2>3, <2>4, PartsMake
  <2>6. QED BY <2>1, <2>3, <2>4, <2>5 DEF Good, Sound, LeftBehind
<1>3. QED BY <1>1, <1>2

\* The initial states.
LEMMA InitIsSound == Init => IInv
<1> SUFFICES ASSUME Init PROVE IInv OBVIOUS
<1>1. Good(file) /\ file = intended BY LegacyIsGood DEF Init
<1>2. Good(Empty) BY LegacyIsGood DEF Legacy
<1>3. Empty \in Configs BY <1>2 DEF Good
<1>4. QED BY <1>1, <1>3 DEF Init, IInv, Serial

\* Every step: a change is applied to what the file says, or nothing changes.
LEMMA StepIsSound == IInv /\ [Next]_vars => IInv'
<1> SUFFICES ASSUME IInv, [Next]_vars PROVE IInv' OBVIOUS
<1> USE DEF IInv
<1>1. ASSUME NEW w \in Windows, NEW o \in Asked, Enter(w, o) PROVE IInv'
  <2>1. \A v \in Windows : op[v] = Idle
    BY <1>1, ProviderAssumption DEF Enter, MayEnter, LockFree, Serial
  <2>2. Serial' BY <1>1, <2>1 DEF Enter, Serial
  <2>3. file \in Configs BY DEF Good
  <2>4. op' \in [Windows -> Asked \cup {Idle}] /\ copy' \in [Windows -> Configs]
    BY <1>1, <2>3 DEF Enter
  <2>5. QED BY <1>1, <2>2, <2>4 DEF Enter
<1>2. ASSUME NEW w \in Windows, op[w] # Idle, Leaves(w)
      PROVE  /\ op' \in [Windows -> Asked \cup {Idle}] /\ copy' \in [Windows -> Configs]
             /\ \A v \in Windows : op'[v] = Idle
  <2>1. Empty \in Configs BY LegacyIsGood DEF Legacy, Good
  <2>2. op' \in [Windows -> Asked \cup {Idle}] /\ copy' \in [Windows -> Configs]
    BY <1>2, <2>1 DEF Leaves
  <2>3. \A v \in Windows : v # w => op[v] = Idle BY <1>2 DEF Serial
  <2>4. QED BY <1>2, <2>2, <2>3 DEF Leaves
<1>3. ASSUME NEW w \in Windows, Persist(w) PROVE IInv'
  <2>1. op[w] # Idle /\ Leaves(w) BY <1>3 DEF Persist
  <2>2. copy[w] = file /\ op[w] \in Asked BY <2>1 DEF Serial
  <2>3. ops' \in Nat BY <1>3 DEF Persist
  <2>4. file' = Applied(file, op[w], ops') /\ intended' = Applied(file, op[w], ops')
    BY <1>3, <2>2 DEF Persist
  <2>5. Allowed(file, op[w]) BY <1>3, <2>2 DEF Persist
  <2>6. Good(Applied(file, op[w], ops')) BY <2>2, <2>3, <2>5, AppliedIsSound
  <2>7. Good(file)' BY <2>4, <2>6 DEF Good, Sound, Configs
  <2>8. Serial' BY <1>2, <2>1 DEF Serial
  <2>9. QED BY <1>2, <2>1, <2>3, <2>4, <2>7, <2>8
<1>4. ASSUME NEW w \in Windows, op[w] # Idle, Leaves(w), UNCHANGED <<file, ops, intended>> PROVE IInv'
  <2>1. Serial' BY <1>2, <1>4 DEF Serial
  <2>2. Good(file)' BY <1>4 DEF Good, Sound
  <2>3. QED BY <1>2, <1>4, <2>1, <2>2
<1>5. CASE UNCHANGED vars
  BY <1>5 DEF vars, Serial, Good, Sound
<1>6. QED
  BY <1>1, <1>3, <1>4, <1>5 DEF Next, Refuse, Fail

\* No change to the providers is lost to another made at the same time, no
\* credential is stored with an address it was not typed for, and no Agent is
\* bound to a provider that is gone or that it cannot speak to.
THEOREM ProvidersAreSound == Spec => []ProvidersSound
<1>1. IInv => ProvidersSound BY DEF IInv, Good, ProvidersSound
<1>2. QED BY <1>1, InitIsSound, StepIsSound, PTL DEF Spec

-----------------------------------------------------------------------------
(* LocalUpgrade: the daemons of a state directory. *)

LEMMA InitUpgrade == ASSUME LU!LocalUpgradeAssumption, LU!Init PROVE LU!UpgradeInv
<1>1. (CHOOSE b \in Builds : TRUE) \in Builds BY DEF LU!LocalUpgradeAssumption
<1>2. LU!TypeOK
  BY <1>1 DEF LU!Init, LU!TypeOK, LU!LocalUpgradeAssumption, LU!DaemonPhases, LU!ConnectorSteps
<1>3. QED
  BY <1>2 DEF LU!Init, LU!UpgradeInv, LU!OneReachableDaemon, LU!PeersStarted, LU!OwnBuildOnly, LU!Live,
              LU!Connectors

\* A daemon takes the lock only when it is free, gives it up last, and binds the
\* socket of nobody else: at most one has the database, and it is reached.
LEMMA DaemonsOfUpgrade ==
  ASSUME LU!LocalUpgradeAssumption, LU!UpgradeInv, NEW d \in LU!Daemons,
         LU!TakeLock(d) \/ LU!Listen(d) \/ LU!Work(d) \/ LU!Stop(d) \/ LU!Unlink(d) \/ LU!End(d)
  PROVE  LU!UpgradeInv'
<1> USE DEF LU!UpgradeInv, LU!Enters, LU!TakeLock, LU!Listen, LU!Work, LU!Stop, LU!Unlink, LU!End
<1>1. LU!TypeOK'
  <2> USE DEF LU!TypeOK
  <2>1. d \in 0..MaxDaemons BY DEF LU!Daemons, LU!LocalUpgradeAssumption
  <2>2. x1' \in [LU!Daemons -> LU!DaemonPhases] BY DEF LU!DaemonPhases
  <2>3. x4' \in [LU!Daemons -> BOOLEAN] BY DEF LU!DaemonPhases
  <2>4. x5' \in 0..MaxDaemons BY <2>1, SMT DEF LU!LocalUpgradeAssumption
  <2>5. QED BY <2>2, <2>3, <2>4
<1>2. LU!OneReachableDaemon'
  BY DEF LU!OneReachableDaemon, LU!Live, LU!LockFree, LU!Holds, LU!TypeOK, LU!DaemonPhases
<1>3. LU!PeersStarted' /\ LU!OwnBuildOnly'
  BY DEF LU!PeersStarted, LU!OwnBuildOnly, LU!TypeOK, LU!DaemonPhases, LU!Live
<1>4. QED BY <1>1, <1>2, <1>3

\* An invocation starts a daemon nobody talks to yet, and asks and checks the one
\* its own stream leads to.
LEMMA ConnectorsOfUpgrade ==
  ASSUME LU!LocalUpgradeAssumption, LU!UpgradeInv, NEW c \in LU!Connectors,
         \/ LU!Begin(c) \/ LU!Spawn(c) \/ LU!Connect(c) \/ LU!GiveUp(c)
         \/ /\ c \in Coordinators
            /\ LU!Status(c) \/ LU!AskAgain(c) \/ LU!Prepare(c) \/ LU!Waited(c) \/ LU!Recheck(c) \/ LU!Verify(c)
  PROVE  LU!UpgradeInv'
<1> USE DEF LU!UpgradeInv, LU!Go
<1>1. Coordinators \subseteq LU!Connectors BY DEF LU!Connectors
<1>2. CASE LU!Spawn(c)
  <2>1. PICK d \in LU!Daemons :
          /\ x1[d] = "none" /\ x1' = [x1 EXCEPT ![d] = "spawned"] /\ x2' = [x2 EXCEPT ![d] = BuildOf[c]]
    BY <1>2 DEF LU!Spawn
  <2> USE <1>2, <2>1 DEF LU!Spawn
  <2>2. LU!TypeOK' BY DEF LU!TypeOK, LU!DaemonPhases, LU!LocalUpgradeAssumption
  <2>3. LU!OneReachableDaemon' BY DEF LU!OneReachableDaemon, LU!Live, LU!TypeOK
  <2>4. LU!PeersStarted' /\ LU!OwnBuildOnly'
    BY DEF LU!PeersStarted, LU!OwnBuildOnly, LU!TypeOK, LU!DaemonPhases
  <2>5. QED BY <2>2, <2>3, <2>4
<1>3. CASE LU!Connect(c)
  <2> USE <1>3 DEF LU!Connect, LU!Reach
  <2>1. x5 \in LU!Daemons BY DEF LU!TypeOK, LU!Daemons, LU!LocalUpgradeAssumption
  <2>2. LU!TypeOK' BY DEF LU!TypeOK, LU!ConnectorSteps
  <2>3. LU!OneReachableDaemon' BY DEF LU!OneReachableDaemon, LU!Live
  <2>4. LU!PeersStarted' /\ LU!OwnBuildOnly'
    BY <1>1, <2>1 DEF LU!PeersStarted, LU!OwnBuildOnly, LU!TypeOK, LU!LocalUpgradeAssumption
  <2>5. QED BY <2>2, <2>3, <2>4
<1>4. CASE LU!Status(c)
  <2> USE <1>4 DEF LU!Status, LU!Answers, LU!Current
  <2>1. LU!TypeOK' BY DEF LU!TypeOK, LU!ConnectorSteps, LU!LocalUpgradeAssumption
  <2>2. LU!OneReachableDaemon' BY DEF LU!OneReachableDaemon, LU!Live
  <2>3. LU!PeersStarted' /\ LU!OwnBuildOnly' BY <1>1 DEF LU!PeersStarted, LU!OwnBuildOnly, LU!TypeOK
  <2>4. QED BY <2>1, <2>2, <2>3
<1>5. CASE LU!Prepare(c)
  <2> USE <1>5 DEF LU!Prepare, LU!Reach
  <2>1. LU!TypeOK' BY DEF LU!TypeOK, LU!ConnectorSteps
  <2>2. LU!OneReachableDaemon' BY DEF LU!OneReachableDaemon, LU!Live
  <2>3. LU!PeersStarted' /\ LU!OwnBuildOnly' BY <1>1 DEF LU!PeersStarted, LU!OwnBuildOnly, LU!TypeOK
  <2>4. QED BY <2>1, <2>2, <2>3
<1>6. CASE LU!Begin(c) \/ LU!GiveUp(c)
  <2> USE <1>6 DEF LU!Begin, LU!GiveUp
  <2>1. LU!TypeOK' BY DEF LU!TypeOK, LU!ConnectorSteps, LU!LocalUpgradeAssumption
  <2>2. LU!OneReachableDaemon' BY DEF LU!OneReachableDaemon, LU!Live
  <2>3. LU!PeersStarted' /\ LU!OwnBuildOnly' BY <1>1 DEF LU!PeersStarted, LU!OwnBuildOnly, LU!TypeOK
  <2>4. QED BY <2>1, <2>2, <2>3
<1>7. CASE LU!AskAgain(c) \/ LU!Waited(c) \/ LU!Recheck(c) \/ LU!Verify(c)
  <2> USE <1>7 DEF LU!AskAgain, LU!Waited, LU!Recheck, LU!Verify, LU!VerifiedStream, LU!Current
  <2>1. LU!TypeOK' BY DEF LU!TypeOK, LU!ConnectorSteps, LU!LocalUpgradeAssumption
  <2>2. LU!OneReachableDaemon' BY DEF LU!OneReachableDaemon, LU!Live
  <2>3. LU!PeersStarted' /\ LU!OwnBuildOnly' BY <1>1 DEF LU!PeersStarted, LU!OwnBuildOnly, LU!TypeOK
  <2>4. QED BY <2>1, <2>2, <2>3
<1>8. QED BY <1>2, <1>3, <1>4, <1>5, <1>6, <1>7

LEMMA NextUpgrade ==
  ASSUME LU!LocalUpgradeAssumption, LU!UpgradeInv, LU!Next
  PROVE  LU!UpgradeInv'
<1>1. Coordinators \subseteq LU!Connectors BY DEF LU!Connectors
<1>2. QED BY <1>1, DaemonsOfUpgrade, ConnectorsOfUpgrade DEF LU!Next

LEMMA UpgradeRests ==
  ASSUME LU!UpgradeInv, UNCHANGED LU!vars
  PROVE  LU!UpgradeInv'
BY DEF LU!UpgradeInv, LU!vars, LU!TypeOK, LU!OneReachableDaemon, LU!PeersStarted, LU!OwnBuildOnly, LU!Live

\* Nobody else drains a daemon, and a coordinator only the one whose status it read.
LEMMA DrainsAllowed ==
  ASSUME LU!LocalUpgradeAssumption, LU!UpgradeInv, [LU!Next]_(LU!vars)
  PROVE  LU!DrainStep
<1> USE DEF LU!UpgradeInv, LU!TypeOK, LU!DrainStep
<1>1. CASE \E c \in Coordinators : LU!Prepare(c)
  <2>1. PICK c \in Coordinators : LU!Prepare(c) BY <1>1
  <2>2. /\ x7[c] = x7[c] /\ x6[c] = "prepare" /\ x8[c] = x5 /\ ~x4[x5] /\ x3' = [x3 EXCEPT ![x5] = TRUE]
    BY <2>1 DEF LU!Prepare, LU!Named, LU!Go
  <2>3. x2[x5] # BuildOf[c] BY <2>2 DEF LU!PeersStarted
  <2>4. QED BY <2>2, <2>3
<1>2. CASE UNCHANGED x3 BY <1>2
<1>3. QED
  BY <1>1, <1>2
  DEF LU!Next, LU!vars, LU!TakeLock, LU!Listen, LU!Work, LU!Stop, LU!Unlink, LU!End, LU!Begin, LU!Spawn, LU!Connect,
      LU!GiveUp, LU!Status, LU!AskAgain, LU!Waited, LU!Recheck, LU!Verify

-----------------------------------------------------------------------------
(* Terminals: output by cursors, input in order. *)

LEMMA InitTerminal ==
  ASSUME TE!TerminalAssumption, TE!Init
  PROVE  TE!OutputInv /\ TE!InputInv
<1> USE DEF TE!TerminalAssumption, TE!Init
<1>1. TE!TypeOK
  <2>1. {x1, x3, x7, x10, x16} \subseteq BOOLEAN /\ x2 \in {"running", "closing", "exited"} OBVIOUS
  <2>2. x5 \in 0 .. RingLimit /\ x4 + x6 <= MaxOut /\ x5 <= x4 /\ x13 \in 0 .. x4 OBVIOUS
  <2>3. Len(x8) <= InputQueue /\ x9.input \in 0 .. x11 OBVIOUS
  <2>4. QED BY <2>1, <2>2, <2>3 DEF TE!TypeOK
<1>2. TE!OutputInv BY <1>1 DEF TE!OutputInv, TE!OutputAccounted
<1>3. TE!InputInv BY DEF TE!InputInv, TE!InputsInOrder
<1>4. QED BY <1>2, <1>3

\* The input that waits longest is the next to be typed.
LEMMA InputQueued ==
  ASSUME TE!InputInv, x10, x9.input = 0, x8 # <<>>
  PROVE  /\ Head(x8) = Len(x12) + 1 /\ Head(x8) \in 1 .. x11
         /\ Len(Tail(x8)) = Len(x8) - 1 /\ Tail(x8) \in Seq(Nat)
         /\ \A i \in DOMAIN Tail(x8) : Tail(x8)[i] = Len(x12) + 1 + i
<1> USE DEF TE!InputInv
<1>1. x8 \in Seq(Nat) /\ Len(x8) \in Nat /\ Len(x8) # 0 /\ Len(x12) \in Nat /\ x11 \in Nat OBVIOUS
<1>2. 1 \in DOMAIN x8 /\ Head(x8) = x8[1] BY <1>1
<1>3. \A i \in DOMAIN x8 : x8[i] = Len(x12) + i BY <1>1
<1>4. Tail(x8) \in Seq(Nat) /\ Len(Tail(x8)) = Len(x8) - 1
      /\ \A i \in DOMAIN Tail(x8) : i + 1 \in DOMAIN x8 /\ Tail(x8)[i] = x8[i + 1] /\ i \in Nat
  BY <1>1
<1>5. Len(x12) + Len(x8) = x11 BY <1>1
<1>6. QED BY <1>1, <1>2, <1>3, <1>4, <1>5

\* The cursor passes bytes that were read or reported missing; after the end was
\* told the drain is over and the end stays.
LEMMA OutputKept ==
  ASSUME TE!TerminalAssumption, TE!OutputInv, TE!InputInv, [TE!Next]_(TE!vars)
  PROVE  TE!OutputInv'
<1> USE DEF TE!TerminalAssumption, TE!OutputInv, TE!TypeOK, TE!out, TE!in, TE!reader
<1>1. CASE TE!Read
  <2> DEFINE from == TE!From
             to == IF from + ReadLimit < x4 THEN from + ReadLimit ELSE x4
  <2>1. x13 \in Nat /\ x4 \in Nat /\ from \in Nat /\ to \in Nat /\ x13 <= from /\ from <= to /\ to <= x4
        /\ (x13 < TE!Start \/ from = x13)
    BY DEF TE!From, TE!Start
  <2>2. /\ x13' = to /\ x14' = x14 \cup (from + 1) .. to
        /\ x15' = x15 \cup (IF x13 < TE!Start THEN (x13 + 1) .. from ELSE {})
        /\ x16' = (TE!ExitedAll /\ to = x4)
        /\ UNCHANGED <<x1, x2, x3, x4, x5, x6, x7, x8, x9, x10, x11, x12>>
    BY <1>1 DEF TE!Read, TE!Truncated, TE!TruncatedBefore, TE!Exited
  <2> HIDE DEF from, to
  <2>3. x14' \cup x15' = 1 .. x13' /\ x14' \cap x15' = {}
    <3>1. x14 \cup x15 = 1 .. x13 /\ x14 \cap x15 = {} BY DEF TE!OutputAccounted
    <3>2. x15' = x15 \cup (x13 + 1) .. from
      <4>1. CASE x13 < TE!Start BY <2>2, <4>1
      <4>2. CASE ~(x13 < TE!Start)
        <5>1. from = x13 /\ x15' = x15 BY <2>1, <2>2, <4>2
        <5>2. (x13 + 1) .. from = {} BY <2>1, <5>1
        <5>3. QED BY <5>1, <5>2
      <4>3. QED BY <4>1, <4>2
    <3>3. (x13 + 1) .. from \cup (from + 1) .. to = (x13 + 1) .. to
          /\ 1 .. to = 1 .. x13 \cup (x13 + 1) .. to
      BY ONLY <2>1
    <3>4. x14' \cup x15' = 1 .. to BY ONLY <2>2, <3>1, <3>2, <3>3
    <3>5. \A k \in x14 \cup x15 : k <= x13 BY ONLY <2>1, <3>1
    <3>6. \A k \in (x13 + 1) .. from : x13 < k /\ k <= from BY ONLY <2>1
    <3>7. \A k \in (from + 1) .. to : from < k /\ x13 < k BY ONLY <2>1
    <3>8. \A k \in x14' \cap x15' : FALSE
      <4>1. SUFFICES ASSUME NEW k \in x14', k \in x15' PROVE FALSE OBVIOUS
      <4>2. k \in x14 \/ k \in (from + 1) .. to BY ONLY <2>2, <4>1
      <4>3. k \in x15 \/ k \in (x13 + 1) .. from BY ONLY <3>2, <4>1
      <4>4. k \in 1 .. to BY ONLY <3>4, <4>1
      <4>5. QED BY ONLY <2>1, <3>1, <3>5, <3>6, <3>7, <4>2, <4>3, <4>4
    <3>9. QED BY ONLY <2>2, <3>4, <3>8
  <2>4. TE!OutputAccounted' BY <2>2, <2>3 DEF TE!OutputAccounted
  <2>5. x16' => x7' BY <2>2 DEF TE!ExitedAll
  <2>6. TE!TypeOK'
    <3>1. x16' \in BOOLEAN BY <2>2 DEF TE!ExitedAll
    <3>2. x13' \in 0 .. x4' BY <2>1, <2>2
    <3>3. QED BY <2>2, <3>1, <3>2
  <2>7. QED BY <2>2, <2>4, <2>5, <2>6
<1>2. CASE TE!Drain
  <2>1. PICK n \in 1 .. x6 :
          /\ x6' = x6 - n /\ x4' = x4 + n
          /\ x5' = (IF x5 + n > RingLimit THEN RingLimit ELSE x5 + n)
    BY <1>2 DEF TE!Drain
  <2>2. ~x7 /\ UNCHANGED <<x1, x2, x3, x7, x8, x9, x10, x11, x12, x13, x14, x15, x16>>
    BY <1>2 DEF TE!Drain
  <2>3. ~x16 BY <2>2
  <2>4. TE!OutputAccounted' BY <2>2, <2>3 DEF TE!OutputAccounted
  <2>5. TE!TypeOK' /\ x4' \in Nat /\ x6' \in Nat BY <2>1, <2>2
  <2>6. QED BY <2>2, <2>3, <2>4, <2>5
<1>3. CASE TE!ShellWrites \/ TE!DrainEnds \/ TE!Exits \/ TE!Supervised \/ TE!Close \/ TE!WriteTimesOut
  <2>1. UNCHANGED <<x4, x5, x8, x9, x10, x11, x12, x13, x14, x15, x16>>
    BY <1>3 DEF TE!ShellWrites, TE!DrainEnds, TE!Exits, TE!Supervised, TE!Close, TE!WriteTimesOut
  <2>2. {x1', x3', x7'} \subseteq BOOLEAN /\ x2' \in {"running", "closing", "exited"} /\ (x7 => x7')
    BY <1>3
    DEF TE!ShellWrites, TE!DrainEnds, TE!Exits, TE!Supervised, TE!Close, TE!WriteTimesOut, TE!Stop
  <2>3. x6' \in Nat /\ x4 + x6' <= MaxOut
    <3>1. x6' = x6 \/ (x6' = x6 + 1 /\ x4 + x6 < MaxOut)
      BY <1>3 DEF TE!ShellWrites, TE!DrainEnds, TE!Exits, TE!Supervised, TE!Close, TE!WriteTimesOut
    <3>2. QED BY <3>1, SMT
  <2>4. QED BY <2>1, <2>2, <2>3 DEF TE!OutputAccounted
<1>4. CASE TE!Accept \/ TE!Take \/ TE!WriteHalf \/ TE!WriteAll \/ TE!WriteFails
  <2>1. UNCHANGED <<x1, x3, x4, x5, x6, x7, x13, x14, x15, x16>>
        /\ x2' \in {"running", "closing", "exited"} /\ x10' \in BOOLEAN
    BY <1>4
    DEF TE!Accept, TE!Take, TE!WriteHalf, TE!WriteAll, TE!WriteFails, TE!WriterAfter, TE!WriterEnds, TE!Stop
  <2>2. Len(x8') <= InputQueue /\ x9'.input \in 0 .. x11'
    <3> USE DEF TE!InputInv
    <3>1. CASE TE!Accept
      <4>1. Len(x8) < InputQueue /\ x11' = x11 + 1 /\ x8' = Append(x8, x11 + 1) /\ x9' = x9 BY <3>1 DEF TE!Accept
      <4>2. x8 \in Seq(Nat) /\ x11 \in Nat /\ InputQueue \in Nat /\ x9.input \in 0 .. x11 OBVIOUS
      <4>3. Len(x8') = Len(x8) + 1 /\ Len(x8) \in Nat BY ONLY <4>1, <4>2
      <4>4. QED BY ONLY <4>1, <4>2, <4>3
    <3>2. CASE TE!Take
      <4>1. x10 /\ x9.input = 0 /\ x8 # <<>> /\ x9' = [input |-> Head(x8), half |-> FALSE] /\ x8' = Tail(x8) /\ x11' = x11
        BY <3>2 DEF TE!Take
      <4>2. Head(x8) \in 1 .. x11 /\ Len(Tail(x8)) = Len(x8) - 1 BY <4>1, InputQueued
      <4>3. Len(x8) \in Nat /\ Len(x8) <= InputQueue /\ x11 \in Nat /\ InputQueue \in Nat OBVIOUS
      <4>4. QED BY ONLY <4>1, <4>2, <4>3
    <3>3. CASE TE!WriteHalf
      <4>1. x9' = [x9 EXCEPT !.half = TRUE] /\ UNCHANGED <<x8, x11>> BY <3>3 DEF TE!WriteHalf
      <4>2. x9 \in [input : Nat, half : BOOLEAN] /\ x9.input \in 0 .. x11 /\ Len(x8) <= InputQueue OBVIOUS
      <4>3. QED BY ONLY <4>1, <4>2
    <3>4. CASE TE!WriteAll \/ TE!WriteFails
      <4>1. x9' = [input |-> 0, half |-> FALSE] /\ UNCHANGED <<x8, x11>> BY <3>4 DEF TE!WriteAll, TE!WriteFails
      <4>2. Len(x8) <= InputQueue /\ x11 \in Nat OBVIOUS
      <4>3. QED BY ONLY <4>1, <4>2
    <3>5. QED BY <1>4, <3>1, <3>2, <3>3, <3>4
  <2>3. QED BY <2>1, <2>2 DEF TE!OutputAccounted
<1>5. CASE UNCHANGED TE!vars
  BY <1>5 DEF TE!vars, TE!OutputAccounted
<1>6. QED BY <1>1, <1>2, <1>3, <1>4, <1>5 DEF TE!Next

\* What is accepted goes through the queue to the shell in its order; a writer
\* that stopped in the middle types nothing more.
LEMMA InputKept ==
  ASSUME TE!InputInv, TE!TypeOK, [TE!Next]_(TE!vars)
  PROVE  TE!InputInv'
<1> USE DEF TE!InputInv, TE!out, TE!in, TE!reader
<1>1. CASE TE!Accept
  <2>1. x11' = x11 + 1 /\ x8' = Append(x8, x11 + 1) /\ UNCHANGED <<x9, x10, x12>> /\ x10
    BY <1>1 DEF TE!Accept
  <2>2. x8' \in Seq(Nat) /\ Len(x8') = Len(x8) + 1 /\ x11' \in Nat
        /\ \A i \in DOMAIN x8' : i \in Nat /\ ((i \in DOMAIN x8 /\ x8'[i] = x8[i]) \/ (i = Len(x8) + 1 /\ x8'[i] = x11 + 1))
    BY <2>1
  <2>3. TE!InputsInOrder' BY <2>1 DEF TE!InputsInOrder
  <2> DEFINE first == IF x9.input = 0 THEN Len(x12) + 1 ELSE Len(x12) + 2
  <2>4. /\ x9.input \in {0, Len(x12) + 1} /\ first + Len(x8) = x11 + 1 /\ first \in Nat
        /\ \A i \in DOMAIN x8 : x8[i] = first + i - 1
        /\ \A i \in DOMAIN x12 : x12[i].whole
        /\ Len(x8) \in Nat /\ x11 \in Nat
    BY <2>1
  <2>5. (\A i \in DOMAIN x8' : x8'[i] = first + i - 1) /\ first + Len(x8') = x11' + 1
    <3> HIDE DEF first, TE!InputInv
    <3>1. first + Len(x8) = x11 + 1 BY <2>4
    <3>2. ASSUME NEW i \in DOMAIN x8' PROVE x8'[i] = first + i - 1
      <4>1. CASE i \in DOMAIN x8 /\ x8'[i] = x8[i] BY <2>4, <4>1
      <4>2. CASE i = Len(x8) + 1 /\ x8'[i] = x11 + 1 BY <2>4, <3>1, <4>2
      <4>3. QED BY <2>2, <3>2, <4>1, <4>2
    <3>3. QED BY <2>1, <2>2, <2>4, <3>2
  <2>6. x9' = x9 /\ x12' = x12 /\ x9 \in [input : Nat, half : BOOLEAN] /\ x12 \in Seq([input : Nat, whole : BOOLEAN])
    BY <2>1
  <2>7. QED
    <3>1. (IF x9'.input = 0 THEN Len(x12') + 1 ELSE Len(x12') + 1 + 1) = first BY <2>6
    <3> HIDE DEF first
    <3>2. QED BY <2>2, <2>3, <2>4, <2>5, <2>6, <3>1
<1>2. CASE TE!Take
  <2>1. x10 /\ x9.input = 0 /\ x8 # <<>> /\ x9' = [input |-> Head(x8), half |-> FALSE] /\ x8' = Tail(x8)
        /\ UNCHANGED <<x10, x11, x12>>
    BY <1>2 DEF TE!Take
  <2>2. TE!InputsInOrder' BY <2>1 DEF TE!InputsInOrder
  <2>3. x9'.input = Len(x12) + 1 /\ x9'.input # 0 /\ x9' \in [input : Nat, half : BOOLEAN]
    BY <2>1, InputQueued
  <2>4. QED BY <2>1, <2>2, <2>3, InputQueued
<1>3. CASE TE!WriteHalf
  BY <1>3 DEF TE!WriteHalf, TE!InputsInOrder
<1>4. CASE TE!WriteAll
  <2>1. x10 /\ x9.input = Len(x12) + 1 /\ x9' = [input |-> 0, half |-> FALSE]
        /\ x12' = Append(x12, [input |-> x9.input, whole |-> TRUE]) /\ UNCHANGED <<x8, x10, x11>>
    BY <1>4 DEF TE!WriteAll
  <2>2. x12' \in Seq([input : Nat, whole : BOOLEAN]) /\ Len(x12') = Len(x12) + 1
    BY <2>1
  <2>3. \A i \in DOMAIN x12' : x12'[i].input = i /\ x12'[i].whole
    <3>1. \A i \in DOMAIN x12' : i \in DOMAIN x12 \/ i = Len(x12) + 1 BY <2>1
    <3>2. \A i \in DOMAIN x12 : x12'[i] = x12[i] BY <2>1
    <3>3. x12'[Len(x12) + 1] = [input |-> x9.input, whole |-> TRUE] BY <2>1
    <3>4. QED BY <2>1, <3>1, <3>2, <3>3 DEF TE!InputsInOrder
  <2>4. QED BY <2>1, <2>2, <2>3 DEF TE!InputsInOrder
<1>5. CASE TE!WriteFails
  <2>1. x10 /\ x9.input # 0 /\ x9' = [input |-> 0, half |-> FALSE] /\ ~x10' /\ UNCHANGED <<x8, x11>>
        /\ (x12' = x12 \/ x12' = Append(x12, [input |-> x9.input, whole |-> FALSE]))
    BY <1>5 DEF TE!WriteFails, TE!WriterAfter, TE!WriterEnds
  <2>2. CASE x12' = x12 BY <2>1, <2>2 DEF TE!InputsInOrder
  <2>3. CASE x12' = Append(x12, [input |-> x9.input, whole |-> FALSE])
    <3>1. x9.input = Len(x12) + 1 BY <2>1
    <3>2. x12' \in Seq([input : Nat, whole : BOOLEAN]) /\ Len(x12') = Len(x12) + 1 BY <2>1, <2>3
    <3>3. \A i \in DOMAIN x12' : i \in DOMAIN x12 \/ i = Len(x12) + 1 BY <2>3
    <3>4. \A i \in DOMAIN x12 : x12'[i] = x12[i] BY <2>3
    <3>5. x12'[Len(x12) + 1] = [input |-> x9.input, whole |-> FALSE] BY <2>3
    <3>6. TE!InputsInOrder' BY <2>1, <3>1, <3>2, <3>3, <3>4, <3>5 DEF TE!InputsInOrder
    <3>7. QED BY <2>1, <3>2, <3>6
  <2>4. QED BY <2>1, <2>2, <2>3
<1>6. CASE UNCHANGED TE!in
  BY <1>6 DEF TE!InputsInOrder
<1>7. QED
  BY <1>1, <1>2, <1>3, <1>4, <1>5, <1>6
  DEF TE!Next, TE!vars, TE!ShellWrites, TE!Drain, TE!DrainEnds, TE!Exits, TE!Supervised, TE!Close,
      TE!WriteTimesOut, TE!Read
-----------------------------------------------------------------------------
(* HostProviders: bindings, launches, and what may go. *)

\* Whatever is stored was validated first, and a turn is checked against the
\* provider it is launched with.
LEMMA LaunchesKept ==
  ASSUME HP!LaunchesSound, [HP!Next]_(HP!vars)
  PROVE  HP!LaunchesSound'
<1>1. ASSUME NEW r, NEW b, NEW h, HP!Stores(r, b, h), UNCHANGED x6
      PROVE  HP!LaunchesSound'
  BY <1>1 DEF HP!Stores, HP!Valid, HP!ValidFits, HP!Fits, HP!LaunchesSound
<1>2. CASE \/ \E id \in Ids, q \in Protocols, ms \in (SUBSET Models) \ {{}} : HP!Save(id, q, ms)
           \/ \E id \in Ids : HP!Delete(id)
  BY <1>1, <1>2 DEF HP!Save, HP!Delete
<1>3. CASE \/ \E id \in Ids, a \in Agents : HP!Bind(a, id) \/ \E h \in Hosts : HP!BindHost(h, a, id)
           \/ \E a \in Agents : HP!Unbind(a) \/ \E h \in Hosts : HP!UnbindHost(h, a)
           \/ \E h \in Hosts : HP!ForgetHost(h)
  BY <1>1, <1>3 DEF HP!Bind, HP!BindHost, HP!Unbind, HP!UnbindHost, HP!ForgetHost, HP!Keep
<1>4. CASE \E s \in x5 : HP!Sync(s)
  BY <1>1, <1>4 DEF HP!Sync
<1>5. CASE \/ \E s \in x5 : HP!Drop(s)
           \/ \E a \in Agents, id \in Ids, q \in Protocols, ms \in (SUBSET Models) \ {{}} : HP!Export(a, id, q, ms)
           \/ UNCHANGED HP!vars
  <2>1. UNCHANGED <<x1, x2, x3, x6>> BY <1>5 DEF HP!Drop, HP!Export, HP!vars
  <2>2. QED BY <2>1 DEF HP!LaunchesSound
<1>6. ASSUME NEW a \in Agents, NEW p, NEW m \in Models, HP!Turn(a, p, m)
      PROVE  HP!LaunchesSound'
  <2>1. x6' = [agent |-> a, provider |-> p, model |-> m] /\ UNCHANGED <<x1, x2, x3>>
        /\ (p # HP!Cli => p.protocol \in AgentSpeaks[a] /\ m \in p.models)
    BY <1>6 DEF HP!Turn, HP!Offers, HP!OffersTurn
  <2>2. QED BY <2>1 DEF HP!LaunchesSound
<1>7. CASE \E a \in Agents, m \in Models : HP!OldTurn(a, m)
  BY <1>6, <1>7 DEF HP!OldTurn
<1>8. QED BY <1>2, <1>3, <1>4, <1>5, <1>6, <1>7 DEF HP!Next

\* A provider made on this host goes only when it is deleted.
LEMMA OwnProvidersKept ==
  ASSUME [HP!Next]_(HP!vars)
  PROVE  HP!OwnKept
<1> USE DEF HP!OwnKept
<1>1. ASSUME NEW r, NEW b, NEW h, HP!Stores(r, b, h), DOMAIN x1 \subseteq DOMAIN r
      PROVE  HP!OwnKept
  BY <1>1 DEF HP!Stores
<1>2. ASSUME NEW r, NEW b, NEW h, HP!Stores(HP!Restrict(r, HP!Needed(r, b, h)), b, h),
             \A id \in DOMAIN x1 : ~x1[id].copied =>
               id \in DOMAIN r /\ (~r[id].copied \/ id \in HP!Bound(b, h))
      PROVE  HP!OwnKept
  BY <1>2 DEF HP!Stores, HP!Needed, HP!NeededOwn, HP!Restrict
<1>3. CASE \E id \in Ids, q \in Protocols, ms \in (SUBSET Models) \ {{}} : HP!Save(id, q, ms)
  BY <1>1, <1>3 DEF HP!Save, HP!Set
<1>4. CASE \E id \in Ids : HP!Delete(id)
  <2>1. PICK id \in Ids : HP!Delete(id) BY <1>4
  <2>2. x1' = HP!Restrict(x1, DOMAIN x1 \ {id}) BY <2>1 DEF HP!Delete, HP!Stores, HP!Without
  <2>3. DOMAIN x1' = DOMAIN x1 \ {id} BY <2>2 DEF HP!Restrict
  <2>4. QED BY <2>1, <2>3
<1>5. CASE \E id \in Ids, a \in Agents : HP!Bind(a, id)
  BY <1>2, <1>5, Zenon DEF HP!Bind, HP!Keep
<1>6. CASE \E a \in Agents : HP!Unbind(a)
  BY <1>2, <1>6, Zenon DEF HP!Unbind, HP!Keep
<1>7. CASE \/ \E id \in Ids, a \in Agents, h \in Hosts : HP!BindHost(h, a, id)
           \/ \E a \in Agents, h \in Hosts : HP!UnbindHost(h, a)
           \/ \E h \in Hosts : HP!ForgetHost(h)
  BY <1>1, <1>7 DEF HP!BindHost, HP!UnbindHost, HP!ForgetHost
<1>8. CASE \E s \in x5 : HP!Sync(s)
  <2>1. PICK s \in x5 : HP!Sync(s) BY <1>8
  <2> DEFINE b == HP!Set(x2, s.agent, s.id)
             new == [protocol |-> s.protocol, models |-> s.models, copied |-> TRUE, revision |-> x4 + 1]
             r == HP!Set(x1, s.id, new)
  <2>2. HP!Stores(HP!Restrict(r, HP!Needed(r, b, x3)), b, x3) BY <2>1 DEF HP!Sync
  <2>3. s.id \in HP!Bound(b, x3) BY DEF HP!Bound, HP!Set, HP!Range
  <2>4. ASSUME NEW id \in DOMAIN x1, ~x1[id].copied
        PROVE  id \in DOMAIN r /\ (~r[id].copied \/ id \in HP!Bound(b, x3))
    <3>1. CASE id = s.id BY <2>3, <3>1 DEF HP!Set
    <3>2. CASE id # s.id BY <2>4, <3>2 DEF HP!Set
    <3>3. QED BY <3>1, <3>2
  <2> HIDE DEF b, r
  <2>5. QED BY <1>2, <2>2, <2>4
<1>9. CASE UNCHANGED x1 BY <1>9
<1>10. QED
  BY <1>3, <1>4, <1>5, <1>6, <1>7, <1>8, <1>9
  DEF HP!Next, HP!vars, HP!Drop, HP!Export, HP!Turn, HP!OldTurn
-----------------------------------------------------------------------------
(* Skills: one worker each of several daemons. *)

JobRecords ==
  [daemon : HostDaemons, kind : {"state", "install"}, expected : SK!States \cup {SK!None}, target : SK!States,
   found : SK!States \cup {SK!None}, step : SK!Steps, cancelled : BOOLEAN, disturbed : BOOLEAN,
   mine : Jobs \cup {SK!None}]
StageRecords ==
  [content : {SK!None, "part", "whole"}, marked : BOOLEAN, holder : Jobs \cup {SK!None}]

LEMMA InitSkill == ASSUME SK!Init PROVE SK!SkillInv
<1> USE DEF SK!Init
<1>1. SK!JobsTyped BY DEF SK!JobsTyped, SK!States, SK!None
<1>2. SK!SlotsHeld /\ SK!StagesHeld /\ SK!FoundRight BY DEF SK!SlotsHeld, SK!StagesHeld, SK!FoundRight
<1>3. SK!InstalledWhole BY DEF SK!InstalledWhole, SK!States, SK!None
<1>4. QED BY <1>1, <1>2, <1>3 DEF SK!SkillInv

\* What is left of the jobs or the scratch directories.
LEMMA LessIs ==
  ASSUME NEW f, NEW s
  PROVE  DOMAIN SK!Less(f, s) = DOMAIN f \ s /\ \A j \in DOMAIN f \ s : SK!Less(f, s)[j] = f[j]
BY DEF SK!Less, SK!Restrict

LEMMA LessTyped ==
  ASSUME NEW R, NEW f, f \in [DOMAIN f -> R], NEW s
  PROVE  SK!Less(f, s) \in [DOMAIN SK!Less(f, s) -> R]
BY DEF SK!Less, SK!Restrict

\* A job that has the slot of its daemon is the daemon's only one.
LEMMA OneJobEach ==
  ASSUME SK!SlotsHeld, NEW i \in DOMAIN x4, NEW j \in DOMAIN x4, x4[i].daemon = x4[j].daemon
  PROVE  i = j
BY DEF SK!SlotsHeld

\* A request finds the slot free.
LEMMA SkillStarts ==
  ASSUME SK!SkillAssumption, SK!SkillInv, NEW j \in Jobs, NEW d \in HostDaemons, SK!Change(j, d) \/ SK!Install(j, d)
  PROVE  SK!SkillInv'
<1> USE DEF SK!SkillInv
<1>1. PICK kind \in {"state", "install"}, e \in SK!States \cup {SK!None}, t \in SK!States, f \in SK!States \cup {SK!None} :
        /\ SK!Start(j, d, SK!Request(d, kind, e, t, f))
        /\ kind = "install" => f \in SK!States
  BY DEF SK!Change, SK!Install, SK!States
<1> DEFINE r == SK!Request(d, kind, e, t, f)
<1>2. r \in JobRecords /\ r.daemon = d /\ r.kind = kind /\ r.step = "look" /\ r.found = f
  BY DEF SK!Request, JobRecords, SK!Steps
<1>3. /\ j \notin x5 /\ x3[d] = SK!None /\ x5' = x5 \cup {j} /\ x3' = [x3 EXCEPT ![d] = j]
      /\ DOMAIN x4' = DOMAIN x4 \cup {j} /\ x4'[j] = r /\ (\A i \in DOMAIN x4 : i # j => x4'[i] = x4[i])
      /\ x4' = [i \in DOMAIN x4 \cup {j} |-> IF i = j THEN r ELSE x4[i]]
      /\ UNCHANGED <<x1, x2>>
  BY <1>1 DEF SK!Start, SK!Put
<1> HIDE DEF r
<1>4. j \notin DOMAIN x4 /\ j \notin DOMAIN x2 BY <1>3 DEF SK!JobsTyped
<1>5. SK!JobsTyped' BY <1>2, <1>3 DEF SK!JobsTyped, JobRecords
<1>6. SK!SlotsHeld' BY <1>2, <1>3, <1>4 DEF SK!JobsTyped, SK!SlotsHeld, SK!SkillAssumption
<1>7. SK!StagesHeld' BY <1>2, <1>3, <1>4 DEF SK!StagesHeld
<1>8. SK!FoundRight' BY <1>1, <1>2, <1>3, <1>4 DEF SK!FoundRight, SK!Present
<1>9. SK!InstalledWhole' BY <1>3 DEF SK!InstalledWhole
<1>10. QED BY <1>5, <1>6, <1>7, <1>8, <1>9

\* The caller gives up; the work and its slot stay.
LEMMA SkillTimesOut ==
  ASSUME SK!SkillInv, NEW j \in Jobs, SK!Timeout(j)
  PROVE  SK!SkillInv'
<1> USE DEF SK!SkillInv
<1>1. j \in DOMAIN x4 /\ x4' = [x4 EXCEPT ![j].cancelled = TRUE] /\ UNCHANGED <<x1, x2, x3, x5>>
  BY DEF SK!Timeout, SK!SlotAfterTimeout, SK!SlotKept
<1>2. DOMAIN x4' = DOMAIN x4 /\ (\A i \in DOMAIN x4 : i # j => x4'[i] = x4[i]) /\ x4'[j] = [x4[j] EXCEPT !.cancelled = TRUE]
  BY <1>1
<1>3. x4[j] \in JobRecords BY <1>1 DEF SK!JobsTyped, JobRecords
<1>4. SK!JobsTyped'
  <2>1. x4'[j] \in JobRecords BY <1>2, <1>3 DEF JobRecords
  <2>2. x4' \in [DOMAIN x4' -> JobRecords] BY <1>1, <1>2, <2>1 DEF SK!JobsTyped, JobRecords
  <2>3. QED BY <1>1, <1>2, <2>2 DEF SK!JobsTyped, JobRecords
<1>5. /\ x4'[j].daemon = x4[j].daemon /\ x4'[j].kind = x4[j].kind /\ x4'[j].step = x4[j].step /\ x4'[j].found = x4[j].found
      /\ x4'[j].mine = x4[j].mine /\ x4'[j].disturbed = x4[j].disturbed /\ x4'[j].expected = x4[j].expected
      /\ x4'[j].target = x4[j].target
  BY <1>2, <1>3 DEF JobRecords
<1>6. SK!SlotsHeld' /\ SK!InstalledWhole' BY <1>1, <1>2, <1>5 DEF SK!SlotsHeld, SK!InstalledWhole
<1>7. SK!StagesHeld' BY <1>1, <1>2, <1>5 DEF SK!StagesHeld
<1>8. SK!FoundRight' BY <1>1, <1>2, <1>5 DEF SK!FoundRight, SK!Present
<1>9. QED BY <1>4, <1>6, <1>7, <1>8

\* Nobody cleans up the scratch directory of a job that runs.
LEMMA NobodysStage ==
  ASSUME SK!SkillAssumption, SK!JobsTyped, SK!StagesHeld, NEW i \in DOMAIN x4, NEW j \in DOMAIN x4,
         x4[i].step = "remove"
  PROVE  x4[i].mine # j
<1>1. i \in Jobs /\ j \in Jobs /\ i # SK!None /\ x4[j] \in JobRecords
  BY DEF SK!JobsTyped, SK!SkillAssumption, JobRecords
<1>2. x4[j].step \in SK!Steps /\ x4[j].kind \in {"state", "install"} BY <1>1 DEF JobRecords
<1>3. x4[i].mine \in DOMAIN x2 /\ x2[x4[i].mine].holder = i BY DEF SK!StagesHeld
<1>4. SUFFICES ASSUME x4[i].mine = j PROVE FALSE OBVIOUS
<1>5. CASE x4[j].kind = "state" \/ x4[j].step \in {"look", "again", "recover", "remove"}
  BY <1>3, <1>4, <1>5 DEF SK!StagesHeld
<1>6. CASE x4[j].step = "lease" BY <1>1, <1>3, <1>4, <1>6 DEF SK!StagesHeld
<1>7. CASE x4[j].kind = "install" /\ x4[j].step \in {"copy", "aim", "go"}
  <2>1. x2[j].holder = j BY <1>7 DEF SK!StagesHeld
  <2>2. i = j BY <1>3, <1>4, <2>1
  <2>3. QED BY <1>7, <2>2
<1>8. QED BY <1>2, <1>5, <1>6, <1>7 DEF SK!Steps

\* A job goes on, and the copies stay as they are.
LEMMA OneGoes ==
  ASSUME SK!SkillInv, NEW j \in DOMAIN x4, NEW r \in JobRecords, x4' = [x4 EXCEPT ![j] = r],
         r.daemon = x4[j].daemon, UNCHANGED <<x1, x3, x5>>
  PROVE  /\ DOMAIN x4' = DOMAIN x4 /\ x4'[j] = r /\ \A i \in DOMAIN x4 : i # j => x4'[i] = x4[i]
         /\ SK!SlotsHeld' /\ SK!InstalledWhole'
         /\ x4' \in [DOMAIN x4' -> JobRecords]
         /\ DOMAIN x2' \subseteq x5 /\ x2' \in [DOMAIN x2' -> StageRecords] => SK!JobsTyped'
<1> USE DEF SK!SkillInv
<1>1. x4 \in [DOMAIN x4 -> JobRecords] BY DEF SK!JobsTyped, JobRecords
<1>2. DOMAIN x4' = DOMAIN x4 /\ x4'[j] = r /\ \A i \in DOMAIN x4 : i # j => x4'[i] = x4[i] BY <1>1
<1>3. x4' \in [DOMAIN x4' -> JobRecords] BY <1>1
<1>4. SK!SlotsHeld' BY <1>2 DEF SK!SlotsHeld
<1>5. SK!InstalledWhole' BY DEF SK!InstalledWhole
<1>6. DOMAIN x2' \subseteq x5 /\ x2' \in [DOMAIN x2' -> StageRecords] => SK!JobsTyped'
  BY <1>2, <1>3 DEF SK!JobsTyped, JobRecords, StageRecords
<1>7. QED BY <1>2, <1>3, <1>4, <1>5, <1>6

\* What it has found is right, if it is for that job.
LEMMA FoundStays ==
  ASSUME SK!FoundRight, NEW j \in DOMAIN x4, DOMAIN x4' = DOMAIN x4, UNCHANGED x1,
         \A i \in DOMAIN x4 : i # j => x4'[i] = x4[i],
         /\ x4'[j].kind = "install" /\ x4'[j].step = "look" => x4'[j].found \in SK!States
         /\ x4'[j].kind = "state" /\ x4'[j].step \in {"aim", "go"} =>
              x4'[j].found \in SK!States /\ (~x4'[j].disturbed => x4'[j].found = x4'[j].expected)
         /\ x4'[j].step = "again" /\ ~x4'[j].disturbed => SK!Present \in {{x4'[j].expected}, {x4'[j].target}}
  PROVE  SK!FoundRight'
BY DEF SK!FoundRight, SK!Present

\* A job ends with its scratch directory and its slot.
LEMMA OneEnds ==
  ASSUME SK!SkillAssumption, SK!SkillInv, NEW j \in DOMAIN x4,
         DOMAIN x4' = DOMAIN x4 \ {j},
         x4' \in [DOMAIN x4' -> JobRecords],
         \A i \in DOMAIN x4' : \/ x4'[i] = x4[i]
                               \/ x4'[i] = [x4[i] EXCEPT !.disturbed = TRUE],
         x3' = [d \in HostDaemons |-> IF x3[d] = j THEN SK!None ELSE x3[d]], UNCHANGED x5,
         x2' \in [DOMAIN x2' -> StageRecords], DOMAIN x2' = DOMAIN x2 \ {j},
         \A k \in DOMAIN x2' : x2'[k] = x2[k] \/ x2[k].holder = j,
         x1' \in [SK!States -> {SK!None, "part", "whole"}]
  PROVE  SK!JobsTyped' /\ SK!SlotsHeld' /\ SK!StagesHeld'
<1> USE DEF SK!SkillInv
<1>1. x4 \in [DOMAIN x4 -> JobRecords] /\ DOMAIN x4 \subseteq Jobs BY DEF SK!JobsTyped, JobRecords
<1>2. \A i \in DOMAIN x4' :
        /\ i # j /\ i \in DOMAIN x4 /\ x4'[i].daemon = x4[i].daemon /\ x4'[i].kind = x4[i].kind
        /\ x4'[i].step = x4[i].step /\ x4'[i].mine = x4[i].mine
  BY <1>1 DEF JobRecords
<1>3. SK!JobsTyped' BY DEF SK!JobsTyped, JobRecords, StageRecords
<1>4. SK!SlotsHeld'
  <2>1. \A i \in DOMAIN x4' : x4[i].daemon \in HostDaemons BY <1>1, <1>2 DEF JobRecords
  <2>2. QED BY <1>2, <2>1 DEF SK!SlotsHeld
<1>5. SK!StagesHeld'
  <2>1. ASSUME NEW i \in DOMAIN x4', x4[i].step = "remove" PROVE x4[i].mine # j
    BY <1>2, <2>1, NobodysStage
  <2>2. \A k \in DOMAIN x2' : k \in DOMAIN x2 /\ (x2[k].holder # j => x2'[k] = x2[k]) OBVIOUS
  <2>3. SK!None # j BY <1>1 DEF SK!SkillAssumption
  <2>4. ASSUME NEW i \in DOMAIN x4'
        PROVE  /\ x4'[i].step = "lease" => i \in DOMAIN x2' /\ x2'[i] = x2[i]
               /\ x4'[i].kind = "install" /\ x4'[i].step \in {"copy", "aim", "go"} => i \in DOMAIN x2' /\ x2'[i] = x2[i]
               /\ x4'[i].step = "remove" => x4[i].mine \in DOMAIN x2' /\ x2'[x4[i].mine] = x2[x4[i].mine]
    BY <1>2, <2>1, <2>2, <2>3 DEF SK!StagesHeld
  <2>5. QED BY <1>2, <2>2, <2>4 DEF SK!StagesHeld
<1>6. QED BY <1>3, <1>4, <1>5

\* The comparison with what was displayed, the search and the aim; an
\* installation that looks for a copy, and decides.
LEMMA SkillGoes ==
  ASSUME SK!SkillAssumption, SK!SkillInv, NEW j \in DOMAIN x4, NEW step \in SK!Steps,
         NEW found \in SK!States \cup {SK!None}, SK!Goes(j, step, found),
         \/ /\ x4[j].step = "look" /\ x4[j].kind = "state" /\ step = "again"
            /\ SK!Present \in {{x4[j].expected}, {x4[j].target}}
         \/ /\ x4[j].step = "again" /\ step = "aim" /\ found \in SK!States
            /\ ~x4[j].disturbed => found = x4[j].expected
         \/ x4[j].step = "aim" /\ x4[j].kind = "state" /\ step = "go" /\ found = x4[j].found
         \/ x4[j].step = "look" /\ x4[j].kind = "install" /\ (step = "recover" \/ (step = "look" /\ found \in SK!States))
         \/ x4[j].step = "aim" /\ x4[j].kind = "install" /\ step = "go"
  PROVE  SK!SkillInv'
<1> USE DEF SK!SkillInv
<1> DEFINE r == [x4[j] EXCEPT !.step = step, !.found = found]
<1>1. x4[j] \in JobRecords BY DEF SK!JobsTyped, JobRecords
<1>2. /\ r \in JobRecords /\ r.daemon = x4[j].daemon /\ r.kind = x4[j].kind /\ r.step = step /\ r.found = found
      /\ r.disturbed = x4[j].disturbed /\ r.expected = x4[j].expected /\ r.target = x4[j].target
  BY <1>1 DEF JobRecords
<1>3. x4' = [x4 EXCEPT ![j] = r] /\ UNCHANGED <<x1, x2, x3, x5>> BY DEF SK!Goes
<1> HIDE DEF r
<1>4. /\ DOMAIN x4' = DOMAIN x4 /\ x4'[j] = r /\ (\A i \in DOMAIN x4 : i # j => x4'[i] = x4[i])
      /\ SK!SlotsHeld' /\ SK!InstalledWhole'
      /\ DOMAIN x2' \subseteq x5 /\ x2' \in [DOMAIN x2' -> StageRecords] => SK!JobsTyped'
  BY <1>2, <1>3, OneGoes
<1>5. SK!JobsTyped' BY <1>3, <1>4 DEF SK!JobsTyped, StageRecords
<1>6. SK!StagesHeld' BY <1>2, <1>3, <1>4 DEF SK!StagesHeld
<1>7. SK!FoundRight'
  <2>1. x4[j].step = "aim" /\ x4[j].kind = "state" =>
          x4[j].found \in SK!States /\ (~x4[j].disturbed => x4[j].found = x4[j].expected)
    BY DEF SK!FoundRight
  <2>2. x4[j].step = "again" => x4[j].kind = "state" BY DEF SK!StagesHeld
  <2>3. QED BY <1>2, <1>3, <1>4, <2>1, <2>2, FoundStays
<1>8. QED BY <1>4, <1>5, <1>6, <1>7

LEMMA SkillEnds ==
  ASSUME SK!SkillAssumption, SK!SkillInv, NEW j \in DOMAIN x4, SK!Ends(j) \/ SK!Stop(j)
  PROVE  SK!SkillInv'
<1> USE DEF SK!SkillInv
<1>1. x4' = SK!Less(x4, {j}) /\ x3' = [d \in HostDaemons |-> IF x3[d] = j THEN SK!None ELSE x3[d]]
      /\ UNCHANGED <<x1, x5>>
  BY DEF SK!Ends, SK!Stop
<1>2. x4 \in [DOMAIN x4 -> JobRecords] /\ x2 \in [DOMAIN x2 -> StageRecords]
  BY DEF SK!JobsTyped, JobRecords, StageRecords
<1>3. DOMAIN x4' = DOMAIN x4 \ {j} /\ (\A i \in DOMAIN x4' : x4'[i] = x4[i]) /\ x4' \in [DOMAIN x4' -> JobRecords]
  <2> DEFINE left == SK!Less(x4, {j})
  <2>1. DOMAIN left = DOMAIN x4 \ {j} /\ (\A i \in DOMAIN left : left[i] = x4[i]) /\ left \in [DOMAIN left -> JobRecords]
    BY <1>2, LessIs, LessTyped
  <2>2. x4' = left BY <1>1
  <2> HIDE DEF left
  <2>3. QED BY <2>1, <2>2
<1>4. DOMAIN x2' = DOMAIN x2 \ {j} /\ (\A k \in DOMAIN x2' : x2'[k] = x2[k] \/ x2[k].holder = j)
      /\ x2' \in [DOMAIN x2' -> StageRecords]
  <2>1. CASE SK!Ends(j)
    <3> DEFINE left == SK!Less(x2, {j})
    <3>1. x2' = left BY <2>1 DEF SK!Ends
    <3>2. DOMAIN left = DOMAIN x2 \ {j} /\ (\A k \in DOMAIN left : left[k] = x2[k]) /\ left \in [DOMAIN left -> StageRecords]
      BY <1>2, LessIs, LessTyped
    <3> HIDE DEF left
    <3>3. QED BY <3>1, <3>2
  <2>2. CASE SK!Stop(j)
    <3>1. x2' = [k \in DOMAIN x2 \ {j} |-> IF x2[k].holder = j THEN [x2[k] EXCEPT !.holder = SK!None] ELSE x2[k]]
      BY <2>2 DEF SK!Stop
    <3>2. \A k \in DOMAIN x2 : x2[k] \in StageRecords /\ [x2[k] EXCEPT !.holder = SK!None] \in StageRecords
      BY <1>2 DEF StageRecords
    <3>3. QED BY <3>1, <3>2
  <2>3. QED BY <2>1, <2>2
<1>5. SK!JobsTyped' /\ SK!SlotsHeld' /\ SK!StagesHeld'
  BY <1>1, <1>3, <1>4, OneEnds DEF SK!JobsTyped
<1>6. SK!FoundRight' /\ SK!InstalledWhole' BY <1>1, <1>3 DEF SK!FoundRight, SK!Present, SK!InstalledWhole
<1>7. QED BY <1>5, <1>6

\* Every other job of a daemon that shares the directories has been disturbed.
LEMMA SkillRenames ==
  ASSUME SK!SkillAssumption, SK!SkillInv, NEW j \in DOMAIN x4, SK!Move(j) \/ SK!Place(j)
  PROVE  SK!SkillInv'
<1> USE DEF SK!SkillInv
<1> DEFINE d == x4[j].daemon
           content == IF x4[j].kind = "state" THEN x1[x4[j].found]
                      ELSE IF j \in DOMAIN x2 THEN x2[j].content ELSE SK!None
           rest == IF x4[j].kind = "state" THEN [x1 EXCEPT ![x4[j].found] = SK!None] ELSE x1
           left == SK!Less(x4, {j})
<1>1. x4[j].step = "go" /\ SK!Rename(j, content, rest) /\ SK!Leave(j)
  BY DEF SK!Move, SK!Place, SK!At
<1>2. x4 \in [DOMAIN x4 -> JobRecords] /\ x2 \in [DOMAIN x2 -> StageRecords] /\ x4[j] \in JobRecords
  BY DEF SK!JobsTyped, JobRecords, StageRecords
<1>3. DOMAIN left = DOMAIN x4 \ {j} /\ (\A i \in DOMAIN left : left[i] = x4[i]) /\ left \in [DOMAIN left -> JobRecords]
  BY <1>2, LessIs, LessTyped
<1>4. x3' = [e \in HostDaemons |-> IF x3[e] = j THEN SK!None ELSE x3[e]] /\ x2' = SK!Less(x2, {j}) /\ x5' = x5
  BY <1>1 DEF SK!Leave
<1>5. DOMAIN x2' = DOMAIN x2 \ {j} /\ (\A k \in DOMAIN x2' : x2'[k] = x2[k]) /\ x2' \in [DOMAIN x2' -> StageRecords]
  <2> DEFINE kept == SK!Less(x2, {j})
  <2>1. DOMAIN kept = DOMAIN x2 \ {j} /\ (\A k \in DOMAIN kept : kept[k] = x2[k]) /\ kept \in [DOMAIN kept -> StageRecords]
    BY <1>2, LessIs, LessTyped
  <2>2. x2' = kept BY <1>4
  <2> HIDE DEF kept
  <2>3. QED BY <2>1, <2>2
<1>6. content # "part" /\ rest \in [SK!States -> {SK!None, "whole"}] /\ content \in {SK!None, "whole"}
  <2>1. x1 \in [SK!States -> {SK!None, "whole"}] BY DEF SK!JobsTyped, SK!InstalledWhole
  <2>2. CASE x4[j].kind = "state"
    <3>1. x4[j].found \in SK!States BY <1>1, <2>2 DEF SK!FoundRight
    <3>2. QED BY <2>1, <2>2, <3>1 DEF SK!None
  <2>3. CASE x4[j].kind = "install"
    <3>1. x2[j].content = "whole" /\ j \in DOMAIN x2 BY <1>1, <2>3 DEF SK!StagesHeld
    <3>2. QED BY <2>1, <2>3, <3>1 DEF SK!None
  <2>4. QED BY <1>2, <2>2, <2>3 DEF JobRecords
<1> HIDE DEF content, rest
<1>7. CASE content # SK!None /\ x1[x4[j].target] = SK!None
  <2>1. x1' = [rest EXCEPT ![x4[j].target] = content] /\ x4' = SK!Disturb(left, d)
    BY <1>1, <1>7 DEF SK!Rename
  <2>2. DOMAIN x4' = DOMAIN left
        /\ \A i \in DOMAIN left : x4'[i] = IF left[i].daemon # d THEN [left[i] EXCEPT !.disturbed = TRUE] ELSE left[i]
    BY <2>1 DEF SK!Disturb
  <2>3. ASSUME NEW i \in DOMAIN left PROVE x4'[i] = [x4[i] EXCEPT !.disturbed = TRUE] /\ x4'[i] \in JobRecords
    <3>1. i \in DOMAIN x4 /\ i # j /\ left[i] = x4[i] /\ x4[i] \in JobRecords BY <1>2, <1>3
    <3>2. x4[i].daemon # d BY <3>1, OneJobEach
    <3> HIDE DEF left, d
    <3>3. x4'[i] = [x4[i] EXCEPT !.disturbed = TRUE] BY <2>2, <3>1, <3>2, Zenon
    <3>4. [x4[i] EXCEPT !.disturbed = TRUE] \in JobRecords BY <3>1 DEF JobRecords
    <3>5. QED BY <3>3, <3>4
  <2>4. x4' \in [DOMAIN x4' -> JobRecords]
    <3>1. x4' = [i \in DOMAIN left |-> x4'[i]] BY <2>1 DEF SK!Disturb
    <3>2. QED BY <2>2, <2>3, <3>1
  <2>5. x1' \in [SK!States -> {SK!None, "whole"}] BY <1>6, <2>1
  <2>6. SK!JobsTyped' /\ SK!SlotsHeld' /\ SK!StagesHeld'
    <3> HIDE DEF left
    <3>1. \A i \in DOMAIN x4' : x4'[i] = [x4[i] EXCEPT !.disturbed = TRUE] BY <2>2, <2>3
    <3>2. DOMAIN x4' = DOMAIN x4 \ {j} BY <1>3, <2>2
    <3>3. QED BY <1>4, <1>5, <2>4, <2>5, <3>1, <3>2, OneEnds
  <2>7. SK!InstalledWhole' BY <2>5 DEF SK!InstalledWhole, SK!None
  <2>8. SK!FoundRight'
    <3>1. ASSUME NEW i \in DOMAIN x4'
          PROVE  /\ x4'[i].disturbed /\ x4'[i].kind = x4[i].kind /\ x4'[i].step = x4[i].step
                 /\ x4'[i].found = x4[i].found /\ i \in DOMAIN x4
      <4> HIDE DEF left
      <4>1. i \in DOMAIN left /\ i \in DOMAIN x4 /\ x4[i] \in JobRecords BY <1>2, <1>3, <2>2
      <4>2. x4'[i] = [x4[i] EXCEPT !.disturbed = TRUE] BY <2>3, <4>1
      <4>3. QED BY <4>1, <4>2 DEF JobRecords
    <3>2. QED BY <3>1 DEF SK!FoundRight
  <2>9. QED BY <2>6, <2>7, <2>8
<1>8. CASE ~(content # SK!None /\ x1[x4[j].target] = SK!None)
  <2>1. UNCHANGED x1 /\ x4' = left BY <1>1, <1>8 DEF SK!Rename
  <2>2. SK!JobsTyped' /\ SK!SlotsHeld' /\ SK!StagesHeld'
    <3> HIDE DEF left
    <3>1. QED BY <1>3, <1>4, <1>5, <2>1, OneEnds DEF SK!JobsTyped
  <2>3. SK!FoundRight' /\ SK!InstalledWhole'
    BY <1>3, <2>1 DEF SK!FoundRight, SK!Present, SK!InstalledWhole
  <2>4. QED BY <2>2, <2>3
<1>9. QED BY <1>7, <1>8

\* A step on the scratch directory of one job leaves those of others alone, and
\* is where its own and the one it cleans should be.
OthersKeep(j) ==
  \A i \in DOMAIN x4 : i # j =>
    /\ x4[i].kind = "state" \/ x4[i].step \in {"look", "recover", "remove"} => i \notin DOMAIN x2'
    /\ x4[i].step = "lease" => i \in DOMAIN x2' /\ x2'[i] = x2[i]
    /\ x4[i].kind = "install" /\ x4[i].step \in {"copy", "aim", "go"} => i \in DOMAIN x2' /\ x2'[i] = x2[i]
    /\ x4[i].step = "remove" => x4[i].mine \in DOMAIN x2' /\ x2'[x4[i].mine] = x2[x4[i].mine]
StageAt(j, step, mine) ==
  /\ step \in {"recover", "remove"} => j \notin DOMAIN x2
  /\ step = "lease" => j \in DOMAIN x2 /\ ~x2[j].marked /\ x2[j].holder = SK!None
  /\ step \in {"copy", "aim", "go"} => j \in DOMAIN x2 /\ x2[j].holder = j
  /\ step \in {"aim", "go"} => x2[j].content = "whole"
  /\ step = "remove" => mine \in DOMAIN x2 /\ x2[mine].holder = j
Stored == x2 \in [DOMAIN x2 -> StageRecords] /\ DOMAIN x2 \subseteq x5

LEMMA StageStep ==
  ASSUME SK!SkillAssumption, SK!SkillInv, NEW j \in DOMAIN x4, x4[j].kind = "install",
         NEW step \in SK!Steps \ {"look", "again"}, NEW mine \in Jobs \cup {SK!None},
         x4' = [x4 EXCEPT ![j].step = step, ![j].mine = mine], UNCHANGED <<x1, x3, x5>>,
         Stored', OthersKeep(j), StageAt(j, step, mine)'
  PROVE  SK!SkillInv'
<1> DEFINE r == [x4[j] EXCEPT !.step = step, !.mine = mine]
<1>1. x4[j] \in JobRecords BY DEF SK!SkillInv, SK!JobsTyped, JobRecords
<1>2. r \in JobRecords /\ r.daemon = x4[j].daemon /\ r.kind = "install" /\ r.step = step /\ r.mine = mine
  BY <1>1 DEF JobRecords
<1>3. x4' = [x4 EXCEPT ![j] = r] OBVIOUS
<1> HIDE DEF r
<1>4. /\ DOMAIN x4' = DOMAIN x4 /\ x4'[j] = r /\ (\A i \in DOMAIN x4 : i # j => x4'[i] = x4[i])
      /\ SK!SlotsHeld' /\ SK!InstalledWhole' /\ SK!JobsTyped'
  <2>1. UNCHANGED <<x1, x3, x5>> /\ DOMAIN x2' \subseteq x5 /\ x2' \in [DOMAIN x2' -> StageRecords] BY DEF Stored
  <2>2. QED BY <1>2, <1>3, <2>1, OneGoes
<1>5. SK!StagesHeld'
  <2>1. ASSUME NEW i \in DOMAIN x4, i # j
        PROVE  /\ x4[i].kind = "state" => x4[i].step \in {"look", "again", "aim", "go"}
               /\ x4[i].step = "again" => x4[i].kind = "state"
               /\ x4[i].step = "lease" => ~x2[i].marked /\ x2[i].holder = SK!None
               /\ x4[i].kind = "install" /\ x4[i].step \in {"copy", "aim", "go"} => x2[i].holder = i
               /\ x4[i].kind = "install" /\ x4[i].step \in {"aim", "go"} => x2[i].content = "whole"
               /\ x4[i].step = "remove" => x2[x4[i].mine].holder = i
    BY DEF SK!SkillInv, SK!StagesHeld
  <2>2. QED BY <1>2, <1>4, <2>1 DEF SK!StagesHeld, OthersKeep, StageAt
<1>6. SK!FoundRight' BY <1>2, <1>4, FoundStays DEF SK!SkillInv
<1>7. QED BY <1>4, <1>5, <1>6 DEF SK!SkillInv

\* The scratch directories of the other jobs.
LEMMA OthersStages ==
  ASSUME SK!SkillAssumption, SK!SkillInv, NEW j \in DOMAIN x4, NEW i \in DOMAIN x4, i # j
  PROVE  /\ x4[i].kind = "state" \/ x4[i].step \in {"look", "recover", "remove"} => i \notin DOMAIN x2
         /\ x4[i].step = "lease" => i \in DOMAIN x2 /\ ~x2[i].marked
         /\ x4[i].kind = "install" /\ x4[i].step \in {"copy", "aim", "go"} => i \in DOMAIN x2 /\ x2[i].holder = i
         /\ x4[i].step = "remove" =>
              x4[i].mine \in DOMAIN x2 /\ x4[i].mine # j /\ x2[x4[i].mine].holder = i
         /\ i # SK!None /\ i \in Jobs
<1>1. i # SK!None /\ i \in Jobs BY DEF SK!SkillInv, SK!JobsTyped, SK!SkillAssumption
<1>2. x4[i].step = "remove" => x4[i].mine # j BY NobodysStage DEF SK!SkillInv
<1>3. QED BY <1>1, <1>2 DEF SK!SkillInv, SK!StagesHeld

\* Where a job with a scratch directory is.
LEMMA OwnStage ==
  ASSUME SK!SkillInv, NEW j \in DOMAIN x4, x4[j].step \in {"recover", "remove", "lease", "copy"}
  PROVE  /\ x4[j].kind = "install" /\ j \in Jobs /\ j \in x5
         /\ x4[j].step \in {"recover", "remove"} => j \notin DOMAIN x2
         /\ x4[j].step \in {"lease", "copy"} => j \in DOMAIN x2
         /\ x4[j].step = "copy" => x2[j].holder = j
         /\ x4[j].step = "remove" => x4[j].mine \in DOMAIN x2 /\ x2[x4[j].mine].holder = j
         /\ x4[j].mine \in Jobs \cup {SK!None} /\ x2 \in [DOMAIN x2 -> StageRecords] /\ DOMAIN x2 \subseteq x5
<1>1. x4[j] \in JobRecords BY DEF SK!SkillInv, SK!JobsTyped, JobRecords
<1>2. x4[j].kind \in {"state", "install"} /\ x4[j].mine \in Jobs \cup {SK!None} BY <1>1 DEF JobRecords
<1>3. x4[j].kind = "install" BY <1>2 DEF SK!SkillInv, SK!StagesHeld
<1>4. j \in Jobs /\ j \in x5 /\ x2 \in [DOMAIN x2 -> StageRecords] /\ DOMAIN x2 \subseteq x5
  BY DEF SK!SkillInv, SK!JobsTyped, StageRecords
<1>5. QED BY <1>2, <1>3, <1>4 DEF SK!SkillInv, SK!StagesHeld

\* Recovery takes up what nobody holds, and removes it.
LEMMA SkillRecovers ==
  ASSUME SK!SkillAssumption, SK!SkillInv, NEW j \in DOMAIN x4, NEW k, SK!Recover(j, k)
  PROVE  SK!SkillInv'
<1>1. /\ x4[j].step = "recover" /\ k \in DOMAIN x2 /\ k # j /\ x2[k].marked /\ x2[k].holder = SK!None
      /\ x4' = [x4 EXCEPT ![j].step = "remove", ![j].mine = k]
      /\ x2' = [x2 EXCEPT ![k].holder = j, ![k].content = IF @ = SK!None THEN SK!None ELSE "part"]
      /\ UNCHANGED <<x1, x3, x5>>
  BY DEF SK!Recover, SK!At, SK!Abandoned, SK!AbandonedFree
<1>2. x4[j].kind = "install" /\ j \in Jobs /\ j \notin DOMAIN x2 /\ x2 \in [DOMAIN x2 -> StageRecords] /\ DOMAIN x2 \subseteq x5
      /\ k \in Jobs
  BY <1>1, OwnStage DEF SK!SkillInv, SK!JobsTyped
<1>3. DOMAIN x2' = DOMAIN x2 /\ (\A l \in DOMAIN x2 : l # k => x2'[l] = x2[l]) /\ x2'[k].holder = j
      /\ x2' \in [DOMAIN x2' -> StageRecords]
  <2>1. x2[k] \in StageRecords BY <1>1, <1>2
  <2> DEFINE s == [x2[k] EXCEPT !.holder = j, !.content = IF @ = SK!None THEN SK!None ELSE "part"]
  <2>2. s \in StageRecords /\ s.holder = j BY <1>2, <2>1 DEF StageRecords
  <2>3. x2' = [x2 EXCEPT ![k] = s] BY <1>1, <2>1 DEF StageRecords
  <2> HIDE DEF s
  <2>4. QED BY <1>1, <1>2, <2>2, <2>3
<1>4. OthersKeep(j) BY <1>1, <1>3, OthersStages DEF OthersKeep
<1>5. PICK step \in SK!Steps \ {"look", "again"}, mine \in Jobs \cup {SK!None} :
        x4' = [x4 EXCEPT ![j].step = step, ![j].mine = mine] /\ step = "remove" /\ mine = k
  BY <1>1, <1>2 DEF SK!Steps
<1>6. Stored' /\ StageAt(j, step, mine)' BY <1>1, <1>2, <1>3, <1>5 DEF Stored, StageAt
<1>7. QED BY <1>1, <1>2, <1>4, <1>5, <1>6, StageStep

LEMMA SkillRemoved ==
  ASSUME SK!SkillAssumption, SK!SkillInv, NEW j \in DOMAIN x4, SK!Removed(j)
  PROVE  SK!SkillInv'
<1> DEFINE k == x4[j].mine
           left == SK!Less(x2, {k})
<1>1. /\ x4[j].step = "remove" /\ x4' = [x4 EXCEPT ![j].step = "recover", ![j].mine = SK!None]
      /\ x2' = left /\ UNCHANGED <<x1, x3, x5>>
  BY DEF SK!Removed, SK!At
<1>2. x4[j].kind = "install" /\ j \in Jobs /\ j \notin DOMAIN x2 /\ x2 \in [DOMAIN x2 -> StageRecords] /\ DOMAIN x2 \subseteq x5
      /\ x2[k].holder = j
  BY <1>1, OwnStage
<1>3. \A i \in DOMAIN x4 : i # k BY <1>1, NobodysStage DEF SK!SkillInv
<1> HIDE DEF k
<1>4. DOMAIN left = DOMAIN x2 \ {k} /\ (\A l \in DOMAIN left : left[l] = x2[l]) /\ left \in [DOMAIN left -> StageRecords]
  <2>1. DOMAIN left = DOMAIN x2 \ {k} /\ (\A l \in DOMAIN x2 \ {k} : left[l] = x2[l]) BY LessIs
  <2>2. left \in [DOMAIN left -> StageRecords] BY <1>2, LessTyped
  <2>3. QED BY <2>1, <2>2
<1> HIDE DEF left
<1>5. DOMAIN x2' = DOMAIN x2 \ {k} /\ (\A l \in DOMAIN x2' : x2'[l] = x2[l]) /\ x2' \in [DOMAIN x2' -> StageRecords]
  BY <1>1, <1>4
<1>6. OthersKeep(j) BY <1>2, <1>3, <1>5, OthersStages DEF OthersKeep
<1>7. PICK step \in SK!Steps \ {"look", "again"}, mine \in Jobs \cup {SK!None} :
        x4' = [x4 EXCEPT ![j].step = step, ![j].mine = mine] /\ step = "recover"
  BY <1>1 DEF SK!Steps
<1>8. Stored' /\ StageAt(j, step, mine)' BY <1>1, <1>2, <1>5, <1>7 DEF Stored, StageAt
<1>9. QED BY <1>1, <1>2, <1>6, <1>7, <1>8, StageStep

\* A directory of its own, first without a lease, then filled under it.
LEMMA SkillStages ==
  ASSUME SK!SkillAssumption, SK!SkillInv, NEW j \in DOMAIN x4, SK!MakeStage(j) \/ SK!Lease(j) \/ SK!Copy(j)
  PROVE  SK!SkillInv'
<1>1. x4[j].step \in {"recover", "lease", "copy"} BY DEF SK!MakeStage, SK!Lease, SK!Copy, SK!At
<1>2. /\ x4[j] \in JobRecords /\ x4[j].kind = "install" /\ j \in Jobs /\ j \in x5
      /\ x4[j].mine \in Jobs \cup {SK!None} /\ x2 \in [DOMAIN x2 -> StageRecords] /\ DOMAIN x2 \subseteq x5
  BY <1>1, OwnStage DEF SK!SkillInv, SK!JobsTyped, JobRecords
<1>3. PICK s \in StageRecords, step \in {"lease", "copy", "aim"} :
        /\ x4' = [x4 EXCEPT ![j].step = step] /\ UNCHANGED <<x1, x3, x5>>
        /\ x2' = [k \in DOMAIN x2 \cup {j} |-> IF k = j THEN s ELSE x2[k]]
        /\ step = "lease" => ~s.marked /\ s.holder = SK!None
        /\ step # "lease" => s.holder = j
        /\ step = "aim" => s.content = "whole"
  <2>1. CASE SK!MakeStage(j)
    <3> DEFINE s == [content |-> SK!None, marked |-> FALSE, holder |-> SK!None]
    <3>1. s \in StageRecords BY DEF StageRecords
    <3>2. QED BY <2>1, <3>1 DEF SK!MakeStage, SK!Put
  <2>2. CASE SK!Lease(j)
    <3> DEFINE s == [x2[j] EXCEPT !.marked = TRUE, !.holder = j]
    <3>1. x4[j].step = "lease" /\ j \in DOMAIN x2 BY <2>2, OwnStage DEF SK!Lease, SK!At
    <3>2. x2[j] \in StageRecords BY <1>2, <3>1
    <3>3. s \in StageRecords /\ s.holder = j BY <1>2, <3>2 DEF StageRecords
    <3>4. x2' = [k \in DOMAIN x2 \cup {j} |-> IF k = j THEN s ELSE x2[k]]
      <4>1. x2' = [x2 EXCEPT ![j] = s] BY <2>2, <3>2 DEF SK!Lease, StageRecords
      <4> HIDE DEF s
      <4>2. QED BY <1>2, <3>1, <4>1
    <3> HIDE DEF s
    <3>5. QED BY <2>2, <3>3, <3>4 DEF SK!Lease
  <2>3. CASE SK!Copy(j)
    <3> DEFINE s == [x2[j] EXCEPT !.content = IF @ = SK!None THEN "part" ELSE "whole"]
               step == IF x2[j].content = SK!None THEN "copy" ELSE "aim"
    <3>1. x4[j].step = "copy" /\ j \in DOMAIN x2 /\ x2[j].holder = j BY <2>3, OwnStage DEF SK!Copy, SK!At
    <3>2. x2[j] \in StageRecords BY <1>2, <3>1
    <3>3. s \in StageRecords /\ s.holder = j /\ (step = "aim" => s.content = "whole") BY <3>1, <3>2 DEF StageRecords
    <3>4. x2' = [k \in DOMAIN x2 \cup {j} |-> IF k = j THEN s ELSE x2[k]]
      <4>1. x2' = [x2 EXCEPT ![j] = s] BY <2>3, <3>2 DEF SK!Copy, StageRecords
      <4> HIDE DEF s
      <4>2. QED BY <1>2, <3>1, <4>1
    <3>5. x4' = [x4 EXCEPT ![j].step = step] /\ UNCHANGED <<x1, x3, x5>> BY <2>3 DEF SK!Copy
    <3>6. step \in {"copy", "aim"} OBVIOUS
    <3> HIDE DEF s, step
    <3>7. QED BY <3>3, <3>4, <3>5, <3>6
  <2>4. QED BY <2>1, <2>2, <2>3
<1>4. PICK mine \in Jobs \cup {SK!None} : x4' = [x4 EXCEPT ![j].step = step, ![j].mine = mine]
  BY <1>2, <1>3 DEF JobRecords
<1>5. /\ DOMAIN x2' = DOMAIN x2 \cup {j} /\ x2'[j] = s /\ (\A k \in DOMAIN x2 : k # j => x2'[k] = x2[k])
      /\ x2' \in [DOMAIN x2' -> StageRecords] /\ DOMAIN x2' \subseteq x5
  BY <1>2, <1>3
<1>6. OthersKeep(j) BY <1>5, OthersStages DEF OthersKeep
<1>7. Stored' /\ StageAt(j, step, mine)' /\ step \in SK!Steps \ {"look", "again"}
  BY <1>2, <1>3, <1>5 DEF Stored, StageAt, SK!Steps
<1>8. QED BY <1>2, <1>3, <1>4, <1>6, <1>7, StageStep
\* A daemon dies: its jobs are gone, and nobody holds what they held.
LEMMA SkillCrashes ==
  ASSUME SK!SkillAssumption, SK!SkillInv, NEW d \in HostDaemons, SK!Crash(d)
  PROVE  SK!SkillInv'
<1> DEFINE dead == {j \in DOMAIN x4 : x4[j].daemon = d}
           left == SK!Less(x4, dead)
<1>1. /\ x4' = left /\ x3' = [x3 EXCEPT ![d] = SK!None] /\ UNCHANGED <<x1, x5>>
      /\ x2' = [k \in DOMAIN x2 |-> IF x2[k].holder \in dead THEN [x2[k] EXCEPT !.holder = SK!None] ELSE x2[k]]
  BY DEF SK!Crash
<1>2. x4 \in [DOMAIN x4 -> JobRecords] /\ x2 \in [DOMAIN x2 -> StageRecords]
  BY DEF SK!SkillInv, SK!JobsTyped, JobRecords, StageRecords
<1>3. DOMAIN left = DOMAIN x4 \ dead /\ (\A j \in DOMAIN left : left[j] = x4[j]) /\ left \in [DOMAIN left -> JobRecords]
  BY <1>2, LessIs, LessTyped
<1>4. \A j \in DOMAIN x4 : j \in dead <=> x4[j].daemon = d OBVIOUS
<1> HIDE DEF dead, left
<1>5. /\ DOMAIN x4' = DOMAIN x4 \ dead /\ (\A j \in DOMAIN x4' : x4'[j] = x4[j]) /\ x4' \in [DOMAIN x4' -> JobRecords]
  BY <1>1, <1>3
<1>6. /\ DOMAIN x2' = DOMAIN x2
      /\ \A k \in DOMAIN x2 : x2[k].holder \notin dead => x2'[k] = x2[k]
      /\ x2' \in [DOMAIN x2' -> StageRecords]
  <2>1. \A k \in DOMAIN x2 : x2[k] \in StageRecords /\ [x2[k] EXCEPT !.holder = SK!None] \in StageRecords
    BY <1>2 DEF StageRecords
  <2>2. QED BY <1>1, <2>1
<1>7. SK!JobsTyped' BY <1>1, <1>5, <1>6 DEF SK!SkillInv, SK!JobsTyped, JobRecords, StageRecords
<1>8. SK!SlotsHeld' BY <1>1, <1>4, <1>5 DEF SK!SkillInv, SK!JobsTyped, SK!SlotsHeld
<1>9. SK!StagesHeld'
  <2>1. SK!None \notin DOMAIN x4 BY DEF SK!SkillInv, SK!JobsTyped, SK!SkillAssumption
  <2>2. dead \subseteq DOMAIN x4 BY DEF dead
  <2>3. ASSUME NEW j \in DOMAIN x4'
        PROVE  /\ x4'[j].step = "lease" => j \in DOMAIN x2' /\ x2'[j] = x2[j]
               /\ x4'[j].kind = "install" /\ x4'[j].step \in {"copy", "aim", "go"} => j \in DOMAIN x2' /\ x2'[j] = x2[j]
               /\ x4'[j].step = "remove" => x4[j].mine \in DOMAIN x2' /\ x2'[x4[j].mine] = x2[x4[j].mine]
    <3>1. j \in DOMAIN x4 /\ j \notin dead /\ x4'[j] = x4[j] BY <1>5
    <3>2. QED BY <1>6, <2>1, <2>2, <3>1 DEF SK!SkillInv, SK!StagesHeld
  <2>4. QED BY <1>5, <1>6, <2>3 DEF SK!SkillInv, SK!StagesHeld
<1>10. SK!FoundRight' /\ SK!InstalledWhole'
  BY <1>1, <1>5 DEF SK!SkillInv, SK!FoundRight, SK!Present, SK!InstalledWhole
<1>11. QED BY <1>7, <1>8, <1>9, <1>10 DEF SK!SkillInv

\* Somebody else changes the directories, which disturbs every job.
LEMMA SkillOther ==
  ASSUME SK!SkillAssumption, SK!SkillInv, SK!Other
  PROVE  SK!SkillInv'
<1>1. PICK s \in SK!States, content \in {SK!None, "whole"} : x1' = [x1 EXCEPT ![s] = content] BY DEF SK!Other
<1>2. UNCHANGED <<x2, x3, x5>> /\ x4' = SK!Disturb(x4, SK!None) BY DEF SK!Other
<1>3. x4 \in [DOMAIN x4 -> JobRecords] /\ SK!None \notin HostDaemons
  BY DEF SK!SkillInv, SK!JobsTyped, JobRecords, SK!SkillAssumption
<1>4. ASSUME NEW j \in DOMAIN x4
      PROVE  /\ x4'[j] \in JobRecords /\ x4'[j].daemon = x4[j].daemon /\ x4'[j].kind = x4[j].kind
             /\ x4'[j].step = x4[j].step /\ x4'[j].found = x4[j].found /\ x4'[j].mine = x4[j].mine
             /\ x4'[j].disturbed
  <2>1. x4[j] \in JobRecords BY <1>3
  <2>2. x4[j].daemon # SK!None BY <1>3, <2>1 DEF JobRecords
  <2>3. x4'[j] = [x4[j] EXCEPT !.disturbed = TRUE] BY <1>2, <2>2 DEF SK!Disturb
  <2>4. QED BY <2>1, <2>3 DEF JobRecords
<1>5. DOMAIN x4' = DOMAIN x4 /\ x4' \in [DOMAIN x4' -> JobRecords]
  <2>1. DOMAIN x4' = DOMAIN x4 BY <1>2 DEF SK!Disturb
  <2>2. x4' = [j \in DOMAIN x4 |-> x4'[j]] BY <1>2 DEF SK!Disturb
  <2>3. QED BY <1>4, <2>1, <2>2
<1>6. x1' \in [SK!States -> {SK!None, "whole"}] BY <1>1 DEF SK!SkillInv, SK!JobsTyped, SK!InstalledWhole
<1>7. SK!JobsTyped' BY <1>2, <1>5, <1>6 DEF SK!SkillInv, SK!JobsTyped, JobRecords, StageRecords
<1>8. SK!SlotsHeld' BY <1>2, <1>4, <1>5 DEF SK!SkillInv, SK!SlotsHeld
<1>9. SK!StagesHeld' BY <1>2, <1>4, <1>5 DEF SK!SkillInv, SK!StagesHeld
<1>10. SK!FoundRight' BY <1>4, <1>5 DEF SK!SkillInv, SK!FoundRight
<1>11. SK!InstalledWhole' BY <1>6 DEF SK!InstalledWhole, SK!None
<1>12. QED BY <1>7, <1>8, <1>9, <1>10, <1>11 DEF SK!SkillInv

\* What a worker does next with one of its jobs.
LEMMA SkillLooks ==
  ASSUME SK!SkillAssumption, SK!SkillInv, NEW j \in Jobs,
         \/ SK!Compare(j) \/ SK!Find(j) \/ SK!Aim(j)
         \/ SK!Absent(j) \/ SK!Decide(j)
  PROVE  SK!SkillInv'
<1>1. j \in DOMAIN x4 BY DEF SK!Compare, SK!Find, SK!Aim, SK!Absent, SK!Decide, SK!At
<1>2. x4[j] \in JobRecords BY <1>1 DEF SK!SkillInv, SK!JobsTyped, JobRecords
<1>3. SK!Ends(j) => SK!SkillInv' BY <1>1, SkillEnds
<1>4. CASE SK!Compare(j) /\ ~SK!Ends(j)
  <2>1. /\ x4[j].step = "look" /\ x4[j].kind = "state" /\ SK!Goes(j, "again", SK!None)
        /\ SK!Present \in {{x4[j].expected}, {x4[j].target}}
    BY <1>4 DEF SK!Compare, SK!At
  <2>2. PICK step \in SK!Steps, found \in SK!States \cup {SK!None} : step = "again" /\ SK!Goes(j, step, found)
    BY <2>1 DEF SK!Steps
  <2>3. QED BY <1>1, <2>1, <2>2, SkillGoes
<1>5. CASE SK!Find(j) /\ ~SK!Ends(j)
  <2>1. x4[j].step = "again" BY <1>5 DEF SK!Find, SK!At
  <2>2. PICK s \in SK!States : s # x4[j].target /\ SK!Present = {s} BY <1>5, Zenon DEF SK!Find
  <2> DEFINE f == CHOOSE t \in SK!States : SK!Present = {t}
  <2>4. f \in SK!States /\ SK!Present = {f} /\ f # x4[j].target BY <2>2
  <2>5. SK!Goes(j, "aim", f) BY <1>5, Zenon DEF SK!Find
  <2> HIDE DEF f
  <2>6. ~x4[j].disturbed => f = x4[j].expected
    <3>1. ~x4[j].disturbed => SK!Present \in {{x4[j].expected}, {x4[j].target}}
      BY <1>1, <2>1 DEF SK!SkillInv, SK!FoundRight
    <3>2. QED BY <2>1, <2>4, <3>1
  <2>7. PICK step \in SK!Steps, found \in SK!States \cup {SK!None} :
          step = "aim" /\ found = f /\ SK!Goes(j, step, found)
    BY <2>4, <2>5 DEF SK!Steps
  <2>8. QED BY <1>1, <2>1, <2>4, <2>6, <2>7, SkillGoes
<1>6. CASE SK!Aim(j) /\ ~SK!Ends(j)
  <2>1. x4[j].step = "aim" /\ x4[j].kind = "state" /\ SK!Goes(j, "go", x4[j].found) BY <1>6 DEF SK!Aim, SK!At
  <2>2. PICK step \in SK!Steps, found \in SK!States \cup {SK!None} :
          step = "go" /\ found = x4[j].found /\ SK!Goes(j, step, found)
    BY <1>2, <2>1 DEF SK!Steps, JobRecords
  <2>3. QED BY <1>1, <2>1, <2>2, SkillGoes
<1>7. CASE SK!Absent(j) /\ ~SK!Ends(j)
  <2>1. x4[j].step = "look" /\ x4[j].kind = "install" /\ x4[j].found \in SK!States
    BY <1>1, <1>7 DEF SK!Absent, SK!At, SK!SkillInv, SK!FoundRight
  <2>2. PICK step \in SK!Steps, found \in SK!States \cup {SK!None} :
          SK!Goes(j, step, found) /\ (step = "recover" \/ (step = "look" /\ found \in SK!States))
    BY <1>7, <2>1 DEF SK!Absent, SK!NextState, SK!States, SK!Steps, SK!None
  <2>3. QED BY <1>1, <2>1, <2>2, SkillGoes
<1>8. CASE SK!Decide(j)
  <2>1. x4[j].step = "aim" /\ x4[j].kind = "install" /\ SK!Goes(j, "go", SK!None) BY <1>8 DEF SK!Decide, SK!At
  <2>2. PICK step \in SK!Steps, found \in SK!States \cup {SK!None} : step = "go" /\ SK!Goes(j, step, found)
    BY <2>1 DEF SK!Steps
  <2>3. QED BY <1>1, <2>1, <2>2, SkillGoes
<1>9. QED BY <1>3, <1>4, <1>5, <1>6, <1>7, <1>8

LEMMA NextSkill ==
  ASSUME SK!SkillAssumption, SK!SkillInv, SK!Next
  PROVE  SK!SkillInv'
<1>1. CASE \E j \in Jobs, d \in HostDaemons : SK!Change(j, d) \/ SK!Install(j, d) BY <1>1, SkillStarts
<1>2. CASE \E j \in Jobs : SK!Timeout(j) BY <1>2, SkillTimesOut
<1>3. CASE \E j \in Jobs : SK!Stop(j) \/ SK!CopyFails(j)
  <2>1. PICK j \in Jobs : SK!Stop(j) \/ SK!CopyFails(j) BY <1>3
  <2>2. j \in DOMAIN x4 /\ (SK!Stop(j) \/ SK!Ends(j)) BY <2>1 DEF SK!Stop, SK!CopyFails, SK!At
  <2>3. QED BY <2>2, SkillEnds
<1>4. CASE \E j \in Jobs :
             \/ SK!Compare(j) \/ SK!Find(j) \/ SK!Aim(j)
             \/ SK!Absent(j) \/ SK!Decide(j)
  BY <1>4, SkillLooks
<1>5. CASE \E j \in Jobs : SK!Move(j) \/ SK!Place(j)
  <2>1. PICK j \in Jobs : SK!Move(j) \/ SK!Place(j) BY <1>5
  <2>2. j \in DOMAIN x4 BY <2>1 DEF SK!Move, SK!Place, SK!At
  <2>3. QED BY <2>1, <2>2, SkillRenames
<1>6. CASE \E j \in Jobs, k \in Jobs : SK!Recover(j, k)
  <2>1. PICK j \in Jobs, k \in Jobs : SK!Recover(j, k) BY <1>6
  <2>2. j \in DOMAIN x4 BY <2>1 DEF SK!Recover, SK!At
  <2>3. QED BY <2>1, <2>2, SkillRecovers
<1>7. CASE \E j \in Jobs : SK!Removed(j)
  <2>1. PICK j \in Jobs : SK!Removed(j) BY <1>7
  <2>2. j \in DOMAIN x4 BY <2>1 DEF SK!Removed, SK!At
  <2>3. QED BY <2>1, <2>2, SkillRemoved
<1>8. CASE \E j \in Jobs : SK!MakeStage(j) \/ SK!Lease(j) \/ SK!Copy(j)
  <2>1. PICK j \in Jobs : SK!MakeStage(j) \/ SK!Lease(j) \/ SK!Copy(j) BY <1>8
  <2>2. j \in DOMAIN x4 BY <2>1 DEF SK!MakeStage, SK!Lease, SK!Copy, SK!At
  <2>3. QED BY <2>1, <2>2, SkillStages
<1>9. CASE \E d \in HostDaemons : SK!Crash(d) BY <1>9, SkillCrashes
<1>10. CASE SK!Other BY <1>10, SkillOther
<1>11. QED
  BY <1>1, <1>2, <1>3, <1>4, <1>5, <1>6, <1>7, <1>8, <1>9, <1>10 DEF SK!Next

LEMMA SkillRests == ASSUME SK!SkillInv, UNCHANGED SK!vars PROVE SK!SkillInv'
BY DEF SK!vars, SK!SkillInv, SK!JobsTyped, SK!SlotsHeld, SK!StagesHeld, SK!FoundRight, SK!Present, SK!InstalledWhole

-----------------------------------------------------------------------------
(* ClaudeAdapter: the lines of the CLI, and what the adapter makes of them. *)

LEMMA InitClaude == ASSUME CA!ClaudeAssumption, CA!Init PROVE CA!ClaudeInv
BY DEF CA!ClaudeAssumption, CA!Init, CA!ClaudeInv, CA!FlagsTyped, CA!AgentsKept, CA!TextsKept, CA!TurnKept, CA!Ready

\* The actions that touch neither agents nor texts.
LEMMA ClaudeElse ==
  ASSUME CA!ClaudeAssumption, CA!ClaudeInv,
         \/ CA!Open \/ CA!StartFirst \/ CA!Initialized \/ CA!Trailing \/ CA!Rename
         \/ \E state \in {"idle", "running"} : CA!SessionState(state)
         \/ \E i \in ClaudeInputs : CA!Deliver(i) \/ CA!Acknowledge(i)
         \/ \E ok \in BOOLEAN : CA!RenameAnswer(ok) \/ CA!TitleAnswer(ok)
         \/ \E s \in {"a", "b"} : CA!TitleChanged(s) \/ CA!NativeSession(s)
         \/ \E n \in SkillNames, replay, known \in BOOLEAN : CA!Expand(n, replay, known)
         \/ \E synthetic \in BOOLEAN : CA!SkillContext(synthetic)
  PROVE  CA!ClaudeInv'
<1> USE DEF CA!ClaudeInv, CA!turn, CA!agents, CA!texts, CA!titles, CA!skills, CA!rigid, CA!ghosts,
     CA!FlagsTyped, CA!AgentsKept, CA!TextsKept, CA!TurnKept, CA!Ready, CA!Known
<1>1. CASE CA!Open \/ CA!StartFirst \/ CA!Initialized
  <2> USE <1>1 DEF CA!Open, CA!StartFirst, CA!Initialized, CA!Asks
  <2>2. CA!FlagsTyped' OBVIOUS
  <2>3. CA!AgentsKept' OBVIOUS
  <2>4. CA!TextsKept' OBVIOUS
  <2>5. CA!TurnKept' OBVIOUS
  <2>6. QED BY <2>2, <2>3, <2>4, <2>5
<1>2. CASE CA!Trailing
  <2> USE <1>2 DEF CA!Trailing
  <2>2. CA!FlagsTyped' OBVIOUS
  <2>3. CA!AgentsKept' OBVIOUS
  <2>4. CA!TextsKept' OBVIOUS
  <2>5. CA!TurnKept' OBVIOUS
  <2>6. QED BY <2>2, <2>3, <2>4, <2>5
<1>3. CASE \E state \in {"idle", "running"} : CA!SessionState(state)
  <2>1. PICK state \in {"idle", "running"} : CA!SessionState(state) BY <1>3
  <2> USE <2>1 DEF CA!SessionState
  <2>2. CA!FlagsTyped' OBVIOUS
  <2>3. CA!AgentsKept' OBVIOUS
  <2>4. CA!TextsKept' OBVIOUS
  <2>5. CA!TurnKept' OBVIOUS
  <2>6. QED BY <2>2, <2>3, <2>4, <2>5
<1>4. CASE \E i \in ClaudeInputs : CA!Deliver(i) \/ CA!Acknowledge(i)
  <2>1. PICK i \in ClaudeInputs : CA!Deliver(i) \/ CA!Acknowledge(i) BY <1>4
  <2> USE <2>1 DEF CA!Deliver, CA!Acknowledge, CA!Named
  <2>2. CA!FlagsTyped' OBVIOUS
  <2>3. CA!AgentsKept' OBVIOUS
  <2>4. CA!TextsKept' OBVIOUS
  <2>5. CA!TurnKept' OBVIOUS
  <2>6. QED BY <2>2, <2>3, <2>4, <2>5
<1>5. CASE \/ \E ok \in BOOLEAN : CA!RenameAnswer(ok) \/ CA!TitleAnswer(ok)
           \/ \E s \in {"a", "b"} : CA!TitleChanged(s) \/ CA!NativeSession(s)
           \/ CA!Rename
  <2>1. UNCHANGED <<CA!turn, CA!agents, CA!texts, CA!skills, CA!rigid, CA!ghosts>>
    BY <1>5, Zenon DEF CA!RenameAnswer, CA!TitleAnswer, CA!TitleChanged, CA!NativeSession, CA!Rename
  <2>2. QED BY <2>1
<1>7. CASE \E n \in SkillNames, replay, known \in BOOLEAN : CA!Expand(n, replay, known)
  <2>1. PICK n \in SkillNames, replay \in BOOLEAN, known \in BOOLEAN : CA!Expand(n, replay, known) BY <1>7
  <2> USE <2>1 DEF CA!Expand
  <2>2. CA!FlagsTyped' OBVIOUS
  <2>3. CA!AgentsKept' OBVIOUS
  <2>4. CA!TextsKept' OBVIOUS
  <2>5. CA!TurnKept'
    <3>1. x22' \subseteq {n} /\ x23' \subseteq x23 \cup {n} /\ x34' = x34 \cup {n} /\ x1 = "running" OBVIOUS
    <3>2. UNCHANGED <<x1, x2, x3, x9, x12, x32, x33, x35>> OBVIOUS
    <3> HIDE <2>1
    <3>3. QED BY <3>1, <3>2
  <2>6. QED BY <2>2, <2>3, <2>4, <2>5
<1>8. CASE \E synthetic \in BOOLEAN : CA!SkillContext(synthetic)
  <2>1. PICK synthetic \in BOOLEAN : CA!SkillContext(synthetic) BY <1>8
  <2> USE <2>1 DEF CA!SkillContext
  <2>2. CA!FlagsTyped' OBVIOUS
  <2>3. CA!AgentsKept' OBVIOUS
  <2>4. CA!TextsKept' OBVIOUS
  <2>5. CA!TurnKept' OBVIOUS
  <2>6. QED BY <2>2, <2>3, <2>4, <2>5
<1>9. QED BY <1>1, <1>2, <1>3, <1>4, <1>5, <1>7, <1>8

LEMMA ClaudeTurns ==
  ASSUME CA!ClaudeAssumption, CA!ClaudeInv,
         \/ CA!StartNext \/ CA!Delta
         \/ \E t \in Tools \cup {"none"} : CA!Message(t)
  PROVE  CA!ClaudeInv'
<1> USE DEF CA!ClaudeInv, CA!turn, CA!agents, CA!texts, CA!titles, CA!skills, CA!rigid, CA!ghosts,
     CA!FlagsTyped, CA!AgentsKept, CA!TextsKept, CA!TurnKept, CA!Ready, CA!Known, CA!ResetTurn, CA!Wakes, CA!WakeReset, 
     CA!Woken, CA!OverflowReset, CA!EmittedReset, CA!HasBackground, CA!CanStartTurn, CA!NewTurnGhosts, CA!ClaudeAssumption
<1>1. CASE CA!StartNext BY <1>1 DEF CA!StartNext
<1>2. CASE CA!Delta BY <1>2 DEF CA!Delta
<1>3. CASE \E t \in Tools \cup {"none"} : CA!Message(t)
  <2>1. PICK t \in Tools \cup {"none"} : CA!Message(t) BY <1>3
  <2>2. CA!FlagsTyped' BY <2>1 DEF CA!Message
  <2>3. CA!AgentsKept'
    <3>1. /\ x28' = x28 \cup ({t} \cap Tools) /\ x6' = x6 \cup ({t} \cap Tools) /\ x29' = x29 \cup ({t} \cap Tools)
          /\ (x8' <=> x8 \/ t \in Tools) /\ UNCHANGED <<x4, x5, x7, x10, x26>>
          /\ (x26 => x7 = "running") /\ (t # "none" => t \notin x28)
      BY <2>1 DEF CA!Message
    <3> HIDE <2>1
    <3>2. QED BY <3>1
  <2>4. CA!TextsKept' BY <2>1 DEF CA!Message
  <2>5. CA!TurnKept' BY <2>1 DEF CA!Message
  <2>6. QED BY <2>2, <2>3, <2>4, <2>5
<1>5. QED BY <1>1, <1>2, <1>3

LEMMA ClaudeResult ==
  ASSUME CA!ClaudeAssumption, CA!ClaudeInv, NEW text, NEW failed, CA!Result(text, failed)
  PROVE  CA!ClaudeInv'
<1> USE DEF CA!ClaudeInv, CA!turn, CA!agents, CA!texts, CA!titles, CA!skills, CA!rigid, CA!ghosts,
     CA!FlagsTyped, CA!AgentsKept, CA!TextsKept, CA!TurnKept, CA!Ready, CA!Known
<1>1. /\ CA!Ready /\ "parent" \notin x30 /\ x1' = "between" /\ x3' = {} /\ x33' = FALSE /\ x34' = {} /\ x32' = {}
      /\ x12' \in BOOLEAN /\ x9' \in BOOLEAN
      /\ UNCHANGED <<x4, x5, x6, x7, x8, x10, x26, x28, x29, x30, x31>>
  BY DEF CA!Result, CA!EndOfTurn, CA!Wakes, CA!EmittedReset
<1>2. x35' = x35 + 1 BY DEF CA!Result
<1>3. x11' = x11 \/ (x11' = FALSE /\ x4 = {} /\ x6 = {} /\ x10 = {}) 
  BY DEF CA!Result, CA!EndOfTurn, CA!ResetTurn, CA!OverflowReset, CA!HasBackground
<1>4. CA!FlagsTyped' BY <1>1, <1>3
<1>5. CA!AgentsKept' BY <1>1
<1>6. CA!TextsKept' BY <1>1, <1>3
<1>7. CA!TurnKept' BY <1>1, <1>2
<1>8. QED BY <1>4, <1>5, <1>6, <1>7

LEMMA ClaudeAgents ==
  ASSUME CA!ClaudeAssumption, CA!ClaudeInv, NEW t \in Tools,
         \/ CA!ChildDelta(t) \/ CA!ChildMessage(t) \/ CA!TaskStarted(t) \/ CA!TaskEnds(t) \/ CA!AgentResult(t)
         \/ \E done \in BOOLEAN : CA!ToolResult(t, done)
  PROVE  CA!ClaudeInv'
<1> USE DEF CA!ClaudeInv, CA!turn, CA!agents, CA!texts, CA!titles, CA!skills, CA!rigid, CA!ghosts,
     CA!FlagsTyped, CA!AgentsKept, CA!TextsKept, CA!TurnKept, CA!Ready, CA!Known, CA!ClaudeAssumption
<1>1. CASE CA!ChildDelta(t)
  BY <1>1 DEF CA!ChildDelta, CA!Skips, CA!SkipsOverflow
<1>2. CASE CA!ChildMessage(t)
  BY <1>2 DEF CA!ChildMessage
<1>3. CASE CA!TaskStarted(t)
  BY <1>3 DEF CA!TaskStarted
<1>4. CASE CA!TaskEnds(t)
  BY <1>4 DEF CA!TaskEnds
<1>5. CASE CA!AgentResult(t)
  <2>1. t # "none" OBVIOUS
  <2>2. /\ x29' = x29 \ {t} /\ t \notin x30 /\ x10' = x10 \ {t} /\ x4' = x4 \ {t} /\ x6' \subseteq x6 /\ x35' = x35 + 0
        /\ UNCHANGED <<x1, x2, x3, x5, x7, x8, x9, x11, x12, x22, x23, x26, x28, x30, x31, x32, x33, x34>>
    BY <1>5, <2>1 DEF CA!AgentResult, CA!OfChild
  <2>3. QED BY <2>2
<1>6. CASE \E done \in BOOLEAN : CA!ToolResult(t, done)
  <2>1. PICK done \in BOOLEAN : CA!ToolResult(t, done) BY <1>6
  <2> USE <2>1 DEF CA!ToolResult
  <2>2. CA!FlagsTyped' OBVIOUS
  <2>3. CA!AgentsKept' OBVIOUS
  <2>4. CA!TextsKept' OBVIOUS
  <2>5. CA!TurnKept' OBVIOUS
  <2>6. QED BY <2>2, <2>3, <2>4, <2>5
<1>7. QED BY <1>1, <1>2, <1>3, <1>4, <1>5, <1>6

LEMMA NextClaude ==
  ASSUME CA!ClaudeAssumption, CA!ClaudeInv, [CA!Next]_(CA!vars)
  PROVE  CA!ClaudeInv'
<1>1. CASE UNCHANGED CA!vars
  <2>1. UNCHANGED <<x1, x3, x4, x5, x6, x7, x8, x9, x10, x11, x12, x22, x23, x26, x28, x29, x30, x31, x32, x33, x34, x35>>
    BY <1>1 DEF CA!vars, CA!turn, CA!agents, CA!texts, CA!titles, CA!skills, CA!rigid, CA!ghosts
  <2>2. QED
    BY <2>1 DEF CA!ClaudeInv, CA!FlagsTyped, CA!AgentsKept, CA!TextsKept, CA!TurnKept, CA!Ready, CA!Known
<1>2. CASE CA!Next BY <1>2, ClaudeElse, ClaudeTurns, ClaudeResult, ClaudeAgents, Zenon DEF CA!Next
<1>3. QED BY <1>1, <1>2

\* A CLI that is idle, or never used its tool, runs no agent.
LEMMA ClaudeIdle == ASSUME CA!ClaudeInv PROVE CA!ReplacesNoWork
BY DEF CA!ClaudeInv, CA!AgentsKept, CA!ReplacesNoWork, CA!CanReconfigure, CA!Settled

\* The turn, its inputs, what was shown and what was loaded.
LEMMA ClaudeReports ==
  ASSUME CA!ClaudeAssumption, CA!ClaudeInv, [CA!Next]_(CA!vars)
  PROVE  CA!ReportStep
<1> USE DEF CA!turn, CA!agents, CA!texts, CA!titles, CA!skills, CA!rigid, CA!ghosts
<1> DEFINE Turn == x35' # x35 => /\ {"finished", "failed"} \cap x24' # {} => x29' = x29
                                 /\ "finished" \in x24' /\ x13' # "" => x33 \/ "text" \in x24'
           Taken == x2' \subseteq x2 => x2 \ x2' \subseteq x32
           Loaded == x23' \subseteq x34' \cup x23 /\ (x23' # x23 => x23' \subseteq x34')
<1> SUFFICES Turn /\ Taken /\ Loaded BY DEF CA!ReportStep
<1>1. x35 \in Nat /\ x3 \subseteq x32 /\ (x1 = "running" => (x12 => x33) /\ x22 \cup x23 \subseteq x34)
  BY DEF CA!ClaudeInv, CA!TurnKept
<1>2. ASSUME x35' = x35, x2 \subseteq x2', x23' = x23 \/ x23' \subseteq x34' PROVE Turn /\ Taken /\ Loaded
  BY <1>2
<1>3. ASSUME NEW text, NEW failed, CA!Result(text, failed) PROVE Turn /\ Taken /\ Loaded
  <2>1. x29' = x29 /\ x13' = text /\ x2' = x2 \ (x3 \cap x2) /\ (x23' = x23 \/ x23' = {})
    BY <1>3 DEF CA!Result, CA!EndOfTurn, CA!ResetTurn
  <2>2. "finished" \in x24' => ~failed
    BY <1>3 DEF CA!Result, CA!EndOfTurn
  <2>3. ~failed /\ text # "" /\ (x1 = "between" \/ ~x12) => "text" \in x24'
    BY <1>3, Zenon DEF CA!Result, CA!EndOfTurn, CA!Wakes, CA!EmittedReset
  <2>4. x1 = "running" \/ x1 = "between" BY <1>3 DEF CA!Result, CA!Ready
  <2>5. Turn BY <1>1, <2>1, <2>2, <2>3, <2>4, Zenon
  <2>6. Taken /\ Loaded BY <1>1, <2>1
  <2>7. QED BY <2>5, <2>6
<1>4. CASE CA!Trailing
  <2>1. x35' = x35 /\ x2' = x2 \ (x3 \cap x2) /\ x23' = x23 BY <1>4 DEF CA!Trailing
  <2>2. QED BY <1>1, <2>1
<1>5. CASE \/ CA!Open \/ CA!StartFirst \/ CA!Initialized \/ CA!Rename
           \/ \E state \in {"idle", "running"} : CA!SessionState(state)
           \/ \E i \in ClaudeInputs : CA!Deliver(i) \/ CA!Acknowledge(i)
           \/ \E ok \in BOOLEAN : CA!RenameAnswer(ok) \/ CA!TitleAnswer(ok)
           \/ \E s \in {"a", "b"} : CA!TitleChanged(s) \/ CA!NativeSession(s)
           \/ \E t \in Tools : CA!ChildDelta(t) \/ CA!ChildMessage(t) \/ CA!TaskStarted(t) \/ CA!TaskEnds(t)
           \/ \E t \in Tools, done \in BOOLEAN : CA!ToolResult(t, done)
  <2>1. x35' = x35 /\ x2 \subseteq x2' /\ x23' = x23
    BY <1>5
    DEF CA!Open, CA!StartFirst, CA!Initialized, CA!Rename, CA!SessionState, CA!Deliver, CA!Acknowledge,
        CA!RenameAnswer, CA!TitleAnswer, CA!TitleChanged, CA!NativeSession, CA!ChildDelta, CA!ChildMessage,
        CA!TaskStarted, CA!TaskEnds, CA!ToolResult
  <2>2. QED BY <1>2, <2>1
<1>6. CASE \E t \in Tools : CA!AgentResult(t)
  <2>1. PICK t \in Tools : CA!AgentResult(t) BY <1>6
  <2>2. t # "none" BY DEF CA!ClaudeAssumption
  <2>3. x35' = x35 + 0 /\ x2' = x2 /\ x23' = x23 BY <2>1, <2>2 DEF CA!AgentResult, CA!OfChild
  <2>4. QED BY <1>1, <1>2, <2>3
<1>7. CASE CA!StartNext \/ CA!Delta \/ \E t \in Tools \cup {"none"} : CA!Message(t)
  <2>1. x35' = x35 /\ x2' = x2 /\ (x23' = x23 \/ x23' = {})
    BY <1>7 DEF CA!StartNext, CA!Delta, CA!Message, CA!WakeReset, CA!ResetTurn
  <2>2. QED BY <1>2, <2>1
<1>8. ASSUME NEW n, NEW replay, NEW known, CA!Expand(n, replay, known) PROVE Turn /\ Taken /\ Loaded
  <2>1. x1 = "running" /\ x35' = x35 /\ x2' = x2 /\ x23' \subseteq x23 \cup {n} /\ x34' = x34 \cup {n}
    BY <1>8 DEF CA!Expand
  <2>2. QED BY <1>1, <1>2, <2>1
<1>9. ASSUME NEW synthetic, CA!SkillContext(synthetic) PROVE Turn /\ Taken /\ Loaded
  <2>1. x1 = "running" /\ x35' = x35 /\ x2' = x2 /\ x23' \subseteq x23 \cup x22 /\ x34' = x34
    BY <1>9 DEF CA!SkillContext
  <2>2. QED BY <1>1, <1>2, <2>1
<1>10. CASE UNCHANGED CA!vars BY <1>2, <1>10 DEF CA!vars
<1> HIDE DEF Turn, Taken, Loaded
<1>11. QED BY <1>3, <1>4, <1>5, <1>6, <1>7, <1>8, <1>9, <1>10, Zenon DEF CA!Next

\* Who has a part of a message gets the rest, and nobody else.
LEMMA ClaudeTexts ==
  ASSUME CA!ClaudeAssumption, CA!ClaudeInv, [CA!Next]_(CA!vars)
  PROVE  CA!TextStep
<1> USE DEF CA!ClaudeInv, CA!turn, CA!agents, CA!texts, CA!titles, CA!skills, CA!rigid, CA!ghosts
<1>1. ASSUME NEW t \in Tools, t \in x30, t \notin x31 PROVE t \notin x31'
  <2>1. t # "parent" /\ t \in x29 BY <1>1 DEF CA!ClaudeAssumption, CA!TextsKept
  <2>2. ASSUME x31' \subseteq x31 \cup {"parent"} PROVE t \notin x31' BY <1>1, <2>1, <2>2
  <2>3. CASE \E u \in Tools : CA!ChildDelta(u)
    <3>1. PICK u \in Tools : CA!ChildDelta(u) BY <2>3
    <3>2. t \notin x10 /\ (x11 \/ ~CA!Known(t)) BY <1>1, <2>1 DEF CA!TextsKept
    <3>3. CASE u = t BY <1>1, <3>1, <3>2, <3>3 DEF CA!ChildDelta, CA!Skips, CA!SkipsOverflow
    <3>4. CASE u # t BY <1>1, <3>1, <3>4 DEF CA!ChildDelta
    <3>5. QED BY <3>3, <3>4
  <2>4. CASE CA!Delta BY <2>2, <2>4 DEF CA!Delta
  <2>5. ASSUME NEW text, NEW failed, CA!Result(text, failed) PROVE t \notin x31' BY <1>1, <2>5 DEF CA!Result
  <2>6. CASE \/ CA!Open \/ CA!StartFirst \/ CA!StartNext \/ CA!Initialized \/ CA!Trailing \/ CA!Rename
             \/ \E state \in {"idle", "running"} : CA!SessionState(state)
             \/ \E i \in ClaudeInputs : CA!Deliver(i) \/ CA!Acknowledge(i)
             \/ \E ok \in BOOLEAN : CA!RenameAnswer(ok) \/ CA!TitleAnswer(ok)
             \/ \E s \in {"a", "b"} : CA!TitleChanged(s) \/ CA!NativeSession(s)
             \/ \E n \in SkillNames, replay, known \in BOOLEAN : CA!Expand(n, replay, known)
             \/ \E synthetic \in BOOLEAN : CA!SkillContext(synthetic)
             \/ \E u \in Tools : CA!TaskStarted(u) \/ CA!AgentResult(u)
             \/ UNCHANGED CA!vars
    <3>1. x31' = x31
      BY <2>6
      DEF CA!Open, CA!StartFirst, CA!StartNext, CA!Initialized, CA!Trailing, CA!Rename, CA!SessionState, CA!Deliver,
          CA!Acknowledge, CA!RenameAnswer, CA!TitleAnswer, CA!TitleChanged, CA!NativeSession, CA!Expand,
          CA!SkillContext, CA!TaskStarted, CA!AgentResult, CA!vars
    <3>2. QED BY <1>1, <3>1
  <2>7. CASE \/ \E u \in Tools \cup {"none"} : CA!Message(u)
             \/ \E u \in Tools : CA!ChildMessage(u) \/ CA!TaskEnds(u)
             \/ \E u \in Tools, done \in BOOLEAN : CA!ToolResult(u, done)
    <3>1. x31' \subseteq x31 BY <2>7 DEF CA!Message, CA!ChildMessage, CA!TaskEnds, CA!ToolResult
    <3>2. QED BY <2>2, <3>1
  <2>8. QED BY <2>3, <2>4, <2>5, <2>6, <2>7, Zenon DEF CA!Next
<1>2. ASSUME NEW t \in Tools, CA!ChildMessage(t), CA!Known(t) PROVE "childText" \in x24' <=> t \notin x31
  BY <1>2 DEF CA!ChildMessage, CA!TextsKept
<1>3. ASSUME NEW t \in Tools \cup {"none"}, CA!Message(t) PROVE "text" \in x24' <=> "parent" \notin x31
  <2>1. CA!Ready /\ x24' = (IF x1 = "between" \/ ~x9 THEN {"text"} ELSE {}) \cup (IF x1 = "between" THEN {"turnStarted"} ELSE {})
    BY <1>3 DEF CA!Message, CA!Woken, CA!Wakes
  <2>2. "text" \in x24' <=> x1 = "between" \/ ~x9 BY <2>1
  <2>3. QED BY <2>1, <2>2 DEF CA!TextsKept, CA!Ready
<1>4. QED BY <1>1, <1>2, <1>3, Zenon DEF CA!TextStep

-----------------------------------------------------------------------------
(* TraexAdapter: requests, their answers, and what the server tells.        *)

\* The number of turns is the last one that runs or has ended.
LEMMA TraexCount ==
  ASSUME TX!TraexAssumption, NEW k \in 0 .. MaxTraexTurns, NEW e, NEW a \in {0, k},
         \A n \in 1 .. MaxTraexTurns : e[n] # "none" <=> n <= k /\ n # a
  PROVE  (CHOOSE n \in 0 .. MaxTraexTurns : \A m \in 1 .. MaxTraexTurns : m <= n <=> e[m] # "none" \/ m = a) = k
<1> DEFINE P(n) == \A m \in 1 .. MaxTraexTurns : m <= n <=> e[m] # "none" \/ m = a
<1>1. MaxTraexTurns \in Nat BY DEF TX!TraexAssumption
<1>2. P(k) BY <1>1
<1>3. ASSUME NEW n \in 0 .. MaxTraexTurns, P(n) PROVE n = k
  <2>1. CASE n < k
    <3>1. k \in 1 .. MaxTraexTurns /\ k <= k /\ ~(k <= n) BY <1>1, <2>1
    <3>2. QED BY <3>1, <1>2, <1>3
  <2>2. CASE k < n
    <3>1. n \in 1 .. MaxTraexTurns /\ n <= n /\ ~(n <= k) BY <1>1, <2>2
    <3>2. QED BY <3>1, <1>2, <1>3
  <2>3. QED BY <1>1, <2>1, <2>2
<1> HIDE DEF P
<1>4. (CHOOSE n \in 0 .. MaxTraexTurns : P(n)) = k BY <1>2, <1>3
<1>5. QED BY <1>4 DEF P

LEMMA TraexLast ==
  ASSUME TX!TraexAssumption, NEW k \in 0 .. MaxTraexTurns, x17' \in {0, k},
         \A n \in TX!Turns : x18'[n] # "none" <=> n <= k /\ n # x17'
  PROVE  TX!Last' = k
BY TraexCount DEF TX!Last, TX!Turns

LEMMA TraexSame ==
  ASSUME TX!TraexAssumption, TX!TurnsNumbered, UNCHANGED <<x17, x18>>
  PROVE  TX!Last' = TX!Last /\ TX!TurnsNumbered'
BY DEF TX!TurnsNumbered, TX!Last, TX!Turns

LEMMA InitTraex == ASSUME TX!TraexAssumption, TX!Init PROVE TX!TraexInv
<1>1. MaxTraexTurns \in Nat /\ 0 \in 0 .. MaxTraexTurns BY DEF TX!TraexAssumption
<1>2. /\ x17 = 0 /\ x18 = [n \in TX!Turns |-> "none"]
      /\ \A n \in 1 .. MaxTraexTurns : x18[n] # "none" <=> n <= 0 /\ n # x17
  BY <1>1 DEF TX!Init, TX!Turns
<1>3. TX!Last = 0 BY <1>1, <1>2, TraexCount DEF TX!Last, TX!Turns
<1>4. TX!TurnsNumbered BY <1>1, <1>2, <1>3 DEF TX!TurnsNumbered, TX!Turns
<1>5. TX!RequestsSound BY DEF TX!Init, TX!RequestsSound, TX!Asked
<1>6. TX!TurnSound BY <1>3 DEF TX!Init, TX!TurnSound, TX!Waiting, TX!Under, TX!Unhandled
<1>7. TX!InputsSound BY DEF TX!Init, TX!InputsSound
<1>8. TX!WorkTold BY DEF TX!Init, TX!WorkTold
<1>9. QED BY <1>4, <1>5, <1>6, <1>7, <1>8 DEF TX!TraexInv

\* Requests come and go without the inputs.
LEMMA TraexInputsKept ==
  ASSUME TX!InputsSound, UNCHANGED <<x1, x2, x5, x15, x18, x19, x21, x23>>,
         \A q, p \in x7' : q.method = "turn/steer" /\ q.input = p.input => q = p,
         \A q \in x7' : q.method = "turn/steer" /\ ~(\E c \in x19 : c.req = q) => q.input \notin TX!Takers
  PROVE  TX!InputsSound'
BY DEF TX!InputsSound, TX!Takers, TX!Unhandled

\* What the actor asks.
LEMMA TraexAsks ==
  ASSUME TX!TraexAssumption, TX!TraexInv,
         \/ TX!Open \/ TX!Start \/ TX!Interrupt \/ TX!Rename
         \/ \E i \in TraexInputs : TX!Steer(i)
         \/ \E q \in TraexItems : TX!Approve(q)
  PROVE  TX!TraexInv'
<1> USE DEF TX!TraexInv, TX!turns, TX!inputs, TX!texts, TX!work, TX!server, TX!rest, TX!Simple, TX!Req, TX!Asked, TX!Unhandled,
            TX!StartAsked, TX!Waiting, TX!Under,
            TX!WorkTold, TX!Takers, TX!Turns
<1> USE DEF TX!TurnsNumbered, TX!RequestsSound, TX!TurnSound, TX!InputsSound
<1>0. MaxTraexTurns \in Nat \ {0} /\ "none" \notin TraexInputs BY DEF TX!TraexAssumption
<1>1. UNCHANGED <<x17, x18, x19, x20, x15, x21, x22, x23, x3, x4, x5, x12, x13>>
  BY Zenon DEF TX!Open, TX!Start, TX!Interrupt, TX!Rename, TX!Steer, TX!Approve
<1>2. TX!Last' = TX!Last /\ TX!TurnsNumbered' BY <1>1, TraexSame
<1> HIDE DEF TX!TurnsNumbered
<1>3. CASE TX!Open
  <2> USE <1>3 DEF TX!Open
  <2>1. TX!RequestsSound' BY <1>0, <1>1, <1>2
  <2>2. TX!TurnSound' BY <1>0, <1>1, <1>2
  <2>3. TX!InputsSound' BY <1>0, <1>1, <1>2
  <2>4. QED BY <1>1, <1>2, <2>1, <2>2, <2>3
<1>4. CASE TX!Start
  <2> USE <1>4 DEF TX!Start, TX!CanStartTurn, TX!StartQuiet
  <2>1. TX!RequestsSound' BY <1>0, <1>1, <1>2
  <2>2. TX!TurnSound' BY <1>0, <1>1, <1>2
  <2>3. TX!InputsSound' BY <1>0, <1>1, <1>2
  <2>4. QED BY <1>1, <1>2, <2>1, <2>2, <2>3
<1>5. CASE TX!Interrupt
  <2>0. UNCHANGED <<x1, x2, x3, x4, x5, x6, x9>> /\ x1 # "fresh" /\ x1 # "opening" /\ x8 = FALSE
    BY <1>5, Zenon DEF TX!Interrupt
  <2>1. CASE x2 # 0
    <3>0. PICK r : r = [method |-> "turn/interrupt", turn |-> TX!Last, input |-> "none"] OBVIOUS
    <3>1. /\ x8' = x8 /\ x24' = x24 \cup {x2} /\ x2 = TX!Last /\ x1 = "running" /\ x7' = x7 \cup {r}
          /\ r.method = "turn/interrupt" /\ r.turn = TX!Last /\ r.input = "none"
          /\ r \in TX!Asked
      BY <1>0, <1>5, <2>1, <3>0 DEF TX!Interrupt, TX!TurnsNumbered
    <3>2. TX!RequestsSound' BY <1>0, <1>1, <1>2, <2>0, <2>1, <3>1 DEF TX!TurnsNumbered
    <3>3. TX!TurnSound' BY <1>0, <1>1, <1>2, <2>0, <2>1, <3>1
    <3>4. TX!InputsSound'
      <4>1. \A q, p \in x7' : q.method = "turn/steer" /\ q.input = p.input => q = p BY <3>1
      <4>2. \A q \in x7' : q.method = "turn/steer" /\ ~(\E c \in x19 : c.req = q) => q.input \notin TX!Takers BY <3>1
      <4>3. QED BY <1>1, <2>0, <4>1, <4>2, TraexInputsKept
    <3>5. QED BY <1>1, <1>2, <3>2, <3>3, <3>4
  <2>2. CASE x2 = 0
    <3>1. x7' = x7 /\ x24 \subseteq x24' /\ x1 # "running" BY <1>0, <1>5, <2>2 DEF TX!Interrupt, TX!TurnsNumbered
    <3>2. x8' = (x1 = "starting") BY <1>5, <2>2, Zenon DEF TX!Interrupt
    <3>6. x1 = "starting" => (IF TX!Waiting THEN TX!Last + 1 ELSE TX!Last) \in x24'
      BY <1>5, <2>2 DEF TX!Interrupt
    <3>3. TX!RequestsSound' BY <1>0, <1>1, <1>2, <2>0, <3>1
    <3>4. TX!TurnSound' BY <1>0, <1>1, <1>2, <2>0, <3>1, <3>2, <3>6
    <3>5. TX!InputsSound' BY <1>0, <1>1, <1>2, <2>0, <3>1
    <3>7. QED BY <1>1, <1>2, <3>3, <3>4, <3>5
  <2>3. QED BY <2>1, <2>2
<1>6. CASE TX!Rename
  <2> PICK r : r = [method |-> "thread/name/set", turn |-> 0, input |-> "none"] OBVIOUS
  <2>0. /\ UNCHANGED <<x1, x2, x3, x4, x5, x6, x8, x24>> /\ x7' = x7 \cup {r} /\ x1 \in {"ready", "running"}
        /\ r.method = "thread/name/set" /\ r.input = "none"
    BY <1>6 DEF TX!Rename
  <2>1. TX!RequestsSound' BY <1>0, <1>1, <1>2, <2>0
  <2>2. TX!TurnSound' BY <1>0, <1>1, <1>2, <2>0
  <2>3. TX!InputsSound'
    <3>1. \A q, p \in x7' : q.method = "turn/steer" /\ q.input = p.input => q = p BY <2>0
    <3>2. \A q \in x7' : q.method = "turn/steer" /\ ~(\E c \in x19 : c.req = q) => q.input \notin TX!Takers BY <2>0
    <3>3. QED BY <1>1, <2>0, <3>1, <3>2, TraexInputsKept
  <2>4. QED BY <1>1, <1>2, <2>1, <2>2, <2>3
<1>7. CASE \E i \in TraexInputs : TX!Steer(i)
  <2>0. PICK i \in TraexInputs : TX!Steer(i) BY <1>7
  <2>1. PICK r : r = [method |-> "turn/steer", turn |-> TX!Last, input |-> i] OBVIOUS
  <2>2. /\ x1 = "running" /\ x2 = TX!Last /\ x7' = x7 \cup {r} /\ i \notin TX!Takers /\ \A q \in x7 : q.input # i
        /\ TX!Last # 0 /\ UNCHANGED <<x1, x2, x3, x4, x5, x6, x8, x9, x24>>
    BY <2>0, <2>1 DEF TX!Steer
  <2>3. /\ r.method = "turn/steer" /\ r.turn = TX!Last /\ r.input = i /\ i # "none" /\ r \notin x7
        /\ r \in TX!Asked
    BY <1>0, <2>1, <2>2 DEF TX!TurnsNumbered
  <2>4. TX!RequestsSound' BY <1>0, <1>1, <1>2, <2>2, <2>3
  <2>5. TX!TurnSound' BY <1>0, <1>1, <1>2, <2>2, <2>3
  <2>6. TX!InputsSound'
    <3>1. \A q, p \in x7' : q.method = "turn/steer" /\ q.input = p.input => q = p BY <2>2, <2>3
    <3>2. \A q \in x7' : q.method = "turn/steer" /\ ~(\E c \in x19 : c.req = q) => q.input \notin TX!Takers BY <2>2, <2>3
    <3>3. QED BY <1>1, <2>2, <3>1, <3>2, TraexInputsKept
  <2>7. QED BY <1>1, <1>2, <2>4, <2>5, <2>6
<1>8. CASE \E q \in TraexItems : TX!Approve(q)
  <2>0. UNCHANGED <<x1, x2, x3, x4, x6, x8, x24, x5, x7>> BY <1>8, Zenon DEF TX!Approve, TX!turns, TX!inputs
  <2>1. TX!RequestsSound' BY <1>0, <1>1, <1>2, <2>0
  <2>2. TX!TurnSound' BY <1>0, <1>1, <1>2, <2>0
  <2>3. TX!InputsSound' BY <1>1, <2>0, TraexInputsKept
  <2>4. QED BY <1>1, <1>2, <2>1, <2>2, <2>3
<1>9. QED BY <1>3, <1>4, <1>5, <1>6, <1>7, <1>8

\* What the server does.
LEMMA TraexStarts ==
  ASSUME TX!TraexAssumption, TX!TraexInv, TX!HandleStart
  PROVE  TX!TraexInv'
<1> USE DEF TX!TraexInv, TX!Simple, TX!Req, TX!Asked, TX!Unhandled, TX!StartAsked, TX!Waiting, TX!Under,
            TX!WorkTold, TX!Takers, TX!Turns
<1> USE DEF TX!TurnsNumbered, TX!RequestsSound, TX!TurnSound, TX!InputsSound
<1>0. MaxTraexTurns \in Nat \ {0} /\ "none" \notin TraexInputs BY DEF TX!TraexAssumption
<1>1. UNCHANGED <<x1, x2, x3, x4, x5, x6, x7, x8, x12, x13, x15, x18, x21, x22, x23, x24>>
  BY Zenon DEF TX!HandleStart, TX!ServerKeeps, TX!turns, TX!inputs, TX!work, TX!rest
<1>2. PICK s : s = [method |-> "turn/start", turn |-> 0, input |-> "none"] OBVIOUS
<1>3. /\ s \in x7 /\ (\A c \in x19 : c.req # s) /\ x17 = 0 /\ x17' = TX!Last + 1
      /\ x20' \subseteq x20 \cup {<<"started", TX!Last + 1>>}
      /\ x19' = x19 \cup {[req |-> s, ok |-> TRUE]}
  BY <1>2 DEF TX!HandleStart, TX!Tell
<1> PICK d : d = [req |-> s, ok |-> TRUE] OBVIOUS
<1>11. d \in [req : x7, ok : BOOLEAN] /\ d.req = s /\ d.ok = TRUE /\ x19' = x19 \cup {d} BY <1>3
<1>4. x1 = "starting" /\ TX!Last < MaxTraexTurns /\ x20 = {} /\ x6 = {} /\ s.method = "turn/start" /\ s.input = "none"
  BY <1>0, <1>2, <1>3
<1>5. TX!Last' = TX!Last + 1
  <2>1. TX!Last + 1 \in 0 .. MaxTraexTurns BY <1>0, <1>4
  <2>2. \A n \in TX!Turns : x18'[n] # "none" <=> n <= TX!Last + 1 /\ n # x17' BY <1>0, <1>1, <1>3
  <2>3. x17' \in {0, TX!Last + 1} BY <1>3
  <2>4. QED BY <2>1, <2>2, <2>3, TraexLast
<1>6. TX!TurnsNumbered' BY <1>0, <1>1, <1>3, <1>4, <1>5
<1>7. TX!RequestsSound'
  <2>1. x19' \subseteq [req : x7', ok : BOOLEAN] /\ \A a, b \in x19' : a.req = b.req => a = b
    <3>1. x19 \subseteq [req : x7, ok : BOOLEAN] /\ \A a, b \in x19 : a.req = b.req => a = b OBVIOUS
    <3>2. x7' = x7 BY <1>1
    <3>3. QED BY ONLY <3>1, <3>2, <1>3, <1>11
  <2>2. \A r \in x7 : r.method \notin {"turn/steer", "turn/interrupt"} BY <1>4
  <2>3. QED BY <1>0, <1>1, <1>2, <1>4, <2>1, <2>2
<1>8. TX!TurnSound'
  <2>1. \E c \in x19' : c.req = s BY <1>11
  <2>2. \A a \in x19' : a.req.method = "turn/interrupt" => a \in x19 BY <1>4, <1>11
  <2>3. (x8 => TX!Last + 1 \in x24) BY <1>2, <1>3, <1>4
  <2>4. QED BY <1>0, <1>1, <1>2, <1>3, <1>4, <1>5, <2>1, <2>2, <2>3
<1>9. TX!InputsSound'
  <2>1. \A a \in x19' : a.req.method = "turn/steer" => a \in x19 BY <1>3, <1>4
  <2>2. x19 \subseteq x19' BY <1>3
  <2>3. QED BY <1>1, <1>4, <2>1, <2>2
<1>10. QED BY <1>1, <1>6, <1>7, <1>8, <1>9

LEMMA TraexHandles ==
  ASSUME TX!TraexAssumption, TX!TraexInv, NEW r \in x7,
         TX!HandleSteer(r) \/ \E ok \in BOOLEAN : TX!HandleOther(r, ok)
  PROVE  TX!TraexInv'
<1> USE DEF TX!TraexInv, TX!Simple, TX!Req, TX!Asked, TX!Unhandled, TX!StartAsked, TX!Waiting, TX!Under,
            TX!WorkTold, TX!Takers, TX!Turns
<1> USE DEF TX!TurnsNumbered, TX!RequestsSound, TX!TurnSound, TX!InputsSound
<1>0. MaxTraexTurns \in Nat \ {0} /\ "none" \notin TraexInputs BY DEF TX!TraexAssumption
<1>1. UNCHANGED <<x1, x2, x3, x4, x5, x6, x7, x8, x12, x13, x15, x17, x18, x20, x22, x23, x24>>
  BY Zenon DEF TX!HandleSteer, TX!HandleOther, TX!ServerKeeps, TX!turns, TX!inputs, TX!work, TX!rest
<1>2. TX!Last' = TX!Last /\ TX!TurnsNumbered' BY <1>1, TraexSame
<1> HIDE DEF TX!TurnsNumbered
<1>3. PICK ok \in BOOLEAN : /\ x19' = x19 \cup {[req |-> r, ok |-> ok]} /\ (\A c \in x19 : c.req # r)
                            /\ r.method # "turn/start" /\ (r.method = "turn/interrupt" /\ ~ok => x1 = "ready")
                            /\ \/ r.method = "turn/steer" /\ ok /\ x17 = r.turn /\ x21' = x21 \cup {<<r.input, r.turn>>}
                               \/ x21' = x21 /\ (r.method = "turn/steer" => ~ok)
  <2>1. CASE TX!HandleSteer(r)
    <3>1. (x17 = r.turn) \in BOOLEAN OBVIOUS
    <3>2. QED BY <2>1, <3>1 DEF TX!HandleSteer, TX!Tell
  <2>2. CASE \E ok \in BOOLEAN : TX!HandleOther(r, ok)
    <3>1. PICK ok \in BOOLEAN : TX!HandleOther(r, ok) BY <2>2
    <3>2. /\ x19' = x19 \cup {[req |-> r, ok |-> ok]} /\ (\A c \in x19 : c.req # r) /\ x21' = x21
          /\ r.method # "turn/start" /\ r.method # "turn/steer"
      BY <3>1 DEF TX!HandleOther, TX!Tell, TX!ServerKeeps, TX!inputs
    <3>3. r.method = "turn/interrupt" /\ ~ok => x1 = "ready"
      BY <1>0, <3>1 DEF TX!HandleOther, TX!TurnsNumbered
    <3>4. QED BY <3>2, <3>3
  <2>3. QED BY <2>1, <2>2
<1>4. TX!RequestsSound'
  <2>1. x19' \subseteq [req : x7', ok : BOOLEAN] /\ \A a, b \in x19' : a.req = b.req => a = b BY <1>1, <1>3
  <2>2. QED BY <1>0, <1>1, <1>2, <2>1
<1>5. TX!TurnSound'
  <2>1. TX!Unhandled(TX!StartAsked)' <=> TX!Unhandled(TX!StartAsked)
    <3>1. r # TX!StartAsked BY <1>3
    <3>2. QED BY <1>1, <1>3, <3>1
  <2>2. \A a \in x19' : a.req.method = "turn/interrupt" /\ ~a.ok => x1' = "ready" BY <1>1, <1>3
  <2> HIDE DEF TX!Unhandled
  <2>3. QED BY <1>0, <1>1, <1>2, <2>1, <2>2
<1>6. TX!InputsSound'
  <2>1. CASE x21' = x21 /\ (r.method = "turn/steer" => ~ok)
    <3>1. \A a \in x19' : a \in x19 \/ a = [req |-> r, ok |-> ok] BY <1>3
    <3>2. x19 \subseteq x19' BY <1>3
    <3>3. \A a \in x19' : a.req.method = "turn/steer" =>
            IF a.ok THEN <<a.req.input, a.req.turn>> \in x21 ELSE a.req.input \notin TX!Takers
      BY <1>3, <2>1, <3>1
    <3>4. QED BY <1>1, <2>1, <3>2, <3>3
  <2>2. CASE r.method = "turn/steer" /\ ok /\ x17 = r.turn /\ x21' = x21 \cup {<<r.input, r.turn>>}
    <3>1. /\ r.input \in TraexInputs /\ r.turn \in 1 .. MaxTraexTurns /\ r.turn = TX!Last
          /\ r = [method |-> "turn/steer", turn |-> r.turn, input |-> r.input]
      BY <1>0, <2>2
    <3>2. x19 \subseteq x19' /\ [req |-> r, ok |-> TRUE] \in x19' BY <1>3, <2>2
    <3>3. \A a \in x19' : a.req.method = "turn/steer" =>
            IF a.ok THEN <<a.req.input, a.req.turn>> \in x21' ELSE a.req.input \notin TX!Takers'
      BY <1>3, <2>2
    <3>4. x21' \subseteq TraexInputs \X TX!Turns BY <1>0, <2>2, <3>1
    <3>5. \A s \in x21' :
            \/ s[1] \in x23' \/ x18'[s[2]] = "failed"
            \/ x1' = "running" /\ s[2] = x2' /\ s[1] \in x5'
            \/ \E a \in x19' : a.ok /\ a.req = [method |-> "turn/steer", turn |-> s[2], input |-> s[1]]
      <4>1. SUFFICES ASSUME NEW s \in x21' PROVE
            \/ s[1] \in x23' \/ x18'[s[2]] = "failed"
            \/ x1' = "running" /\ s[2] = x2' /\ s[1] \in x5'
            \/ \E a \in x19' : a.ok /\ a.req = [method |-> "turn/steer", turn |-> s[2], input |-> s[1]]
        OBVIOUS
      <4>2. CASE s \in x21 BY <1>1, <3>2, <4>2
      <4>3. CASE s = <<r.input, r.turn>> BY <3>1, <3>2, <4>3
      <4>4. QED BY <2>2, <4>1, <4>2, <4>3
    <3>6. \A q \in x7' : q.method = "turn/steer" /\ TX!Unhandled(q)' => q.input \notin TX!Takers'
      <4>1. SUFFICES ASSUME NEW q \in x7, q.method = "turn/steer", \A c \in x19' : c.req # q PROVE q.input \notin TX!Takers'
        BY <1>1
      <4>2. q # r /\ q.input # r.input BY <1>3, <2>2, <3>2, <4>1
      <4>3. q.input \notin TX!Takers BY <1>1, <3>2, <4>1
      <4>4. QED BY <2>2, <4>2, <4>3
    <3>7. QED BY <1>1, <2>2, <3>3, <3>4, <3>5, <3>6
  <2>3. QED BY <1>3, <2>1, <2>2
<1>7. QED BY <1>1, <1>2, <1>4, <1>5, <1>6

LEMMA TraexEnds ==
  ASSUME TX!TraexAssumption, TX!TraexInv, NEW status \in {"completed", "failed"}, TX!End(status)
  PROVE  TX!TraexInv'
<1> USE DEF TX!TraexInv, TX!Simple, TX!Req, TX!Asked, TX!Unhandled, TX!StartAsked, TX!Waiting, TX!Under,
            TX!WorkTold, TX!Takers, TX!Turns
<1> USE DEF TX!TurnsNumbered, TX!RequestsSound, TX!TurnSound, TX!InputsSound
<1>0. MaxTraexTurns \in Nat \ {0} /\ "none" \notin TraexInputs BY DEF TX!TraexAssumption
<1>1. UNCHANGED <<x1, x2, x3, x4, x5, x6, x7, x8, x12, x13, x15, x19, x21, x22, x23, x24>>
  BY Zenon DEF TX!End, TX!ServerKeeps, TX!turns, TX!inputs, TX!work, TX!rest
<1>2. /\ x17 = TX!Last /\ TX!Last \in TX!Turns /\ x17' = 0 /\ x18' = [x18 EXCEPT ![TX!Last] = status]
      /\ x20' = x20 \cup {<<"completed", TX!Last>>}
  <2>1. x17 # 0 /\ x17' = 0 /\ x18' = [x18 EXCEPT ![x17] = status] /\ x20' = x20 \cup {<<"completed", x17>>}
    BY Zenon DEF TX!End
  <2>2. x17 = TX!Last /\ TX!Last \in TX!Turns BY <1>0, <2>1
  <2>3. QED BY <2>1, <2>2
<1>3. TX!Last' = TX!Last
  <2>1. \A n \in TX!Turns : x18'[n] # "none" <=> n <= TX!Last /\ n # x17' BY <1>0, <1>2
  <2>2. QED BY <1>2, <2>1, TraexLast
<1>4. TX!TurnsNumbered' BY <1>0, <1>2, <1>3
<1>5. TX!RequestsSound' BY <1>0, <1>1, <1>3
<1>6. TX!TurnSound' BY <1>0, <1>1, <1>2, <1>3
<1>7. TX!InputsSound'
  <2>1. x18[TX!Last] = "none" BY <1>0, <1>2
  <2>2. \A n \in TX!Turns : x18[n] # "none" => x18'[n] = x18[n] BY <1>2, <2>1
  <2>3. \A i \in x23 : \E n \in TX!Turns : <<i, n>> \in x21 /\ x18'[n] = "completed"
    <3>1. \A i \in x23 : \E n \in TX!Turns : <<i, n>> \in x21 /\ x18[n] = "completed" OBVIOUS
    <3>2. \A n \in TX!Turns : x18[n] = "completed" => x18'[n] = "completed" BY <2>2
    <3>3. QED BY ONLY <3>1, <3>2
  <2>4. \A s \in x21 : x18[s[2]] = "failed" => x18'[s[2]] = "failed" BY <2>2
  <2>5. QED BY <1>1, <2>3, <2>4
<1>8. QED BY <1>1, <1>4, <1>5, <1>6, <1>7

\* What the server tells of turns.
LEMMA TraexAdmits ==
  ASSUME TX!TraexAssumption, TX!TraexInv, x1 = "starting", TX!Under, NEW asked,
         \/ asked = x7 /\ x19' = x19
         \/ asked = x7 \ {TX!StartAsked} /\ \E a \in x19 : a.req = TX!StartAsked /\ x19' = x19 \ {a},
         x20' \in {x20, x20 \ {<<"started", TX!Last>>}}, UNCHANGED <<x17, x18>>, TX!AdmitTurn(TX!Last, asked)
  PROVE  TX!TraexInv'
<1> USE DEF TX!TraexInv, TX!Simple, TX!Req, TX!Asked, TX!Unhandled, TX!StartAsked, TX!Waiting, TX!Under,
            TX!WorkTold, TX!Takers, TX!Turns
<1> USE DEF TX!TurnsNumbered, TX!RequestsSound, TX!TurnSound, TX!InputsSound
<1>0. MaxTraexTurns \in Nat \ {0} /\ "none" \notin TraexInputs BY DEF TX!TraexAssumption
<1>1. TX!Last' = TX!Last /\ TX!TurnsNumbered' BY TraexSame
<1> HIDE DEF TX!TurnsNumbered
<1>2. UNCHANGED <<x24, x21, x12, x13, x22, x15>> /\ x6' = {} /\ x8' = FALSE
  BY DEF TX!AdmitTurn, TX!work, TX!rest, TX!AfterAdmit, TX!WaitingTaken
<1>3. PICK s : s = [method |-> "turn/start", turn |-> 0, input |-> "none"] OBVIOUS
<1>4. /\ s.method = "turn/start" /\ \A q \in x7 : q.method \notin {"turn/steer", "turn/interrupt"}
      /\ x5 = {} /\ TX!Last # 0 /\ TX!Last \in 0 .. MaxTraexTurns
  BY <1>0, <1>3 DEF TX!TurnsNumbered
<1>5. /\ asked \subseteq x7 /\ x19' \subseteq [req : asked, ok : BOOLEAN] /\ (\A a, b \in x19' : a.req = b.req => a = b)
      /\ x19' \subseteq x19 /\ (s \in asked => \E c \in x19' : c.req = s)
  <2>1. CASE asked = x7 /\ x19' = x19 BY <1>3, <2>1
  <2>2. CASE asked = x7 \ {s} /\ \E a \in x19 : a.req = s /\ x19' = x19 \ {a}
    <3>1. x19 \subseteq [req : x7, ok : BOOLEAN] /\ \A a, b \in x19 : a.req = b.req => a = b OBVIOUS
    <3>2. QED BY ONLY <2>2, <3>1
  <2>3. QED BY <1>3, <2>1, <2>2
<1>6. \A a \in x19 : a.req.method # "turn/steer" /\ a.req.method # "turn/interrupt" BY <1>4
<1>7. CASE TX!EndedEarly(TX!Last)
  <2>1. x17 = 0 /\ x20 = {} BY <1>7, <1>1, <1>4 DEF TX!EndedEarly, TX!EarlyKept
  <2>2. /\ x1' = "ready" /\ x2' = 0 /\ x3' = TX!Last /\ x4' = (x18[TX!Last] = "completed") /\ x5' = {} /\ x7' = asked
        /\ x23' = x23
    BY <1>4, <1>7 DEF TX!AdmitTurn, TX!Finished
  <2>3. TX!RequestsSound' BY <1>0, <1>1, <1>3, <1>4, <1>5, <2>2
  <2>4. TX!TurnSound' BY <1>0, <1>1, <1>2, <1>3, <1>5, <1>6, <2>1, <2>2
  <2>5. TX!InputsSound' BY <1>2, <1>4, <1>5, <1>6, <2>2
  <2>6. QED BY <1>1, <1>2, <2>3, <2>4, <2>5
<1>8. CASE ~TX!EndedEarly(TX!Last)
  <2> PICK q : q = [method |-> "turn/interrupt", turn |-> TX!Last, input |-> "none"] OBVIOUS
  <2>1. x6 # {TX!Last} BY <1>8 DEF TX!EndedEarly, TX!EarlyKept
  <2>2. /\ x1' = "running" /\ x2' = TX!Last /\ UNCHANGED <<x3, x4, x5, x23>>
        /\ x7' = asked \/ (x8 /\ x7' = asked \cup {q})
    BY <1>8 DEF TX!AdmitTurn
  <2>3. /\ q.method = "turn/interrupt" /\ q.turn = TX!Last /\ q.input = "none" /\ (x8 => TX!Last \in x24)
        /\ q \in TX!Asked
    BY <1>4
  <2>4. TX!RequestsSound'
    <3>1. asked \subseteq x7' /\ x7' \subseteq x7 \cup {q} BY <1>5, <2>2
    <3>2. x19' \subseteq [req : x7', ok : BOOLEAN] BY <1>5, <3>1
    <3>3. QED BY <1>0, <1>1, <1>2, <1>3, <1>4, <1>5, <2>2, <2>3, <3>1, <3>2
  <2>5. TX!TurnSound' 
    <3>1. ~TX!Unhandled(TX!StartAsked)' BY <1>3, <1>4, <1>5, <2>2, <2>3
    <3> HIDE DEF TX!Unhandled
    <3>2. QED BY <1>0, <1>1, <1>2, <1>4, <1>5, <1>6, <2>1, <2>2, <3>1
  <2>6. TX!InputsSound' BY <1>2, <1>4, <1>5, <1>6, <2>2, <2>3
  <2>7. QED BY <1>1, <1>2, <2>4, <2>5, <2>6
<1>9. QED BY <1>7, <1>8

LEMMA TraexTold ==
  ASSUME TX!TraexAssumption, TX!TraexInv, NEW n \in TX!Turns, TX!Started(n) \/ TX!Completed(n)
  PROVE  TX!TraexInv'
<1> USE DEF TX!TraexInv, TX!Simple, TX!Req, TX!Asked, TX!Unhandled, TX!StartAsked, TX!Waiting, TX!Under,
            TX!WorkTold, TX!Takers, TX!Turns
<1> USE DEF TX!TurnsNumbered, TX!RequestsSound, TX!TurnSound, TX!InputsSound
<1>0. MaxTraexTurns \in Nat \ {0} /\ "none" \notin TraexInputs BY DEF TX!TraexAssumption
<1>1. UNCHANGED <<x17, x18, x19>> BY Zenon DEF TX!Started, TX!Completed
<1>2. TX!Last' = TX!Last /\ TX!TurnsNumbered' BY <1>1, TraexSame
<1>3. TX!Under /\ n = TX!Last BY DEF TX!Started, TX!Completed
<1>4. CASE TX!Started(n) /\ x1 = "starting"
  <2>1. TX!AdmitTurn(TX!Last, x7) /\ x20' = x20 \ {<<"started", TX!Last>>} BY <1>3, <1>4 DEF TX!Started
  <2>2. x20' \in {x20, x20 \ {<<"started", TX!Last>>}} BY <2>1
  <2> HIDE DEF TX!TraexInv, TX!Under
  <2>3. QED BY <1>1, <1>3, <1>4, <2>1, <2>2, TraexAdmits
<1>5. CASE TX!Started(n) /\ x1 # "starting"
  <2>1. /\ UNCHANGED <<x1, x2, x3, x4, x6, x8, x24, x5, x21, x23, x12, x13, x22, x15, x7>>
        /\ x20' = x20 \ {<<"started", TX!Last>>}
    BY <1>3, <1>5, Zenon DEF TX!Started, TX!turns, TX!inputs, TX!work, TX!rest
  <2>2. TX!RequestsSound' BY <1>0, <1>1, <1>2, <2>1
  <2>3. TX!TurnSound' BY <1>0, <1>1, <1>2, <2>1
  <2>4. TX!InputsSound' BY <1>1, <2>1, TraexInputsKept
  <2>5. QED BY <1>2, <2>1, <2>2, <2>3, <2>4
<1>6. CASE TX!Completed(n)
  <2>1. /\ UNCHANGED <<x12, x13, x22, x15, x7, x21, x8, x24>> /\ x20' = {} /\ x17 = 0 /\ x6 = {} /\ TX!Last # 0
        /\ \/ x1 = "starting" /\ x6' = {TX!Last} /\ UNCHANGED <<x1, x2, x3, x4, x5, x23>>
           \/ x1 = "running" /\ TX!Finished(TX!Last) /\ UNCHANGED x6
    <3>1. /\ UNCHANGED <<x12, x13, x22, x15, x7, x21, x8, x24>> /\ x20' = x20 \ {<<"completed", n>>}
          /\ <<"completed", n>> \in x20 /\ <<"started", n>> \notin x20
      BY <1>6, Zenon DEF TX!Completed, TX!work, TX!rest
    <3>2. /\ TX!Last # 0 /\ x20 \subseteq {<<"started", TX!Last>>, <<"completed", TX!Last>>} BY <1>3
    <3>3. x20' = {} BY ONLY <1>3, <3>1, <3>2
    <3>4. x17 = 0 /\ x6 = {} BY <1>3, <3>1
    <3>5. x1 # "starting" => x1 = "running" /\ x2 = TX!Last BY <1>3
    <3>6. \/ x1 = "starting" /\ x6' = x6 \cup {n} /\ UNCHANGED <<x1, x2, x3, x4, x5, x23>>
          \/ x1 = "running" /\ TX!Finished(n) /\ UNCHANGED x6
      BY <1>3, <1>6, <3>5 DEF TX!Completed
    <3>7. QED BY <1>3, <3>1, <3>2, <3>3, <3>4, <3>6
  <2>2. CASE x1 = "starting" /\ x6' = {TX!Last} /\ UNCHANGED <<x1, x2, x3, x4, x5, x23>>
    <3>1. TX!RequestsSound' BY <1>0, <1>1, <1>2, <2>1, <2>2
    <3>2. TX!TurnSound' BY <1>0, <1>1, <1>2, <1>3, <2>1, <2>2
    <3>3. TX!InputsSound' BY <1>1, <2>1, <2>2, TraexInputsKept
    <3>4. QED BY <1>2, <2>1, <3>1, <3>2, <3>3
  <2>3. CASE x1 = "running" /\ TX!Finished(TX!Last) /\ UNCHANGED x6
    <3>1. /\ x1' = "ready" /\ x2' = 0 /\ x3' = TX!Last /\ x4' = (x18[TX!Last] = "completed") /\ x5' = {}
          /\ x23' = x23 \cup (IF x4' THEN x5 ELSE {})
      BY <2>3 DEF TX!Finished
    <3>2. x2 = TX!Last /\ x8 = FALSE BY <2>3
    <3>3. x18[TX!Last] \in {"completed", "failed"} BY <1>0, <1>3, <2>1
    <3>4. TX!RequestsSound' BY <1>0, <1>1, <1>2, <2>1, <2>3, <3>1
    <3>5. TX!TurnSound' BY <1>0, <1>1, <1>2, <2>1, <2>3, <3>1, <3>2
    <3>6. TX!InputsSound'
      <4>1. CASE x18[TX!Last] = "completed" BY <1>1, <1>3, <2>1, <2>3, <3>1, <3>2, <4>1
      <4>2. CASE x18[TX!Last] = "failed" BY <1>1, <1>3, <2>1, <2>3, <3>1, <3>2, <4>2
      <4>3. QED BY <3>3, <4>1, <4>2
    <3>7. QED BY <1>2, <2>1, <3>4, <3>5, <3>6
  <2>4. QED BY <2>1, <2>2, <2>3
<1>7. QED BY <1>4, <1>5, <1>6

\* What its answers say.
LEMMA TraexAnswered ==
  ASSUME TX!TraexAssumption, TX!TraexInv, NEW a \in x19, a.req.method # "turn/start",
         x7' = x7 \ {a.req}, x19' = x19 \ {a}, UNCHANGED <<x1, x2, x3, x4, x6, x8, x24, x17, x18, x20>>
  PROVE  TX!TurnsNumbered' /\ TX!RequestsSound' /\ TX!TurnSound'
<1> USE DEF TX!TraexInv, TX!Simple, TX!Req, TX!Asked, TX!Unhandled, TX!StartAsked, TX!Waiting, TX!Under, TX!Turns
<1> USE DEF TX!RequestsSound, TX!TurnSound
<1>0. MaxTraexTurns \in Nat \ {0} /\ "none" \notin TraexInputs BY DEF TX!TraexAssumption
<1>1. TX!Last' = TX!Last /\ TX!TurnsNumbered' BY TraexSame
<1>2. x19' \subseteq [req : x7', ok : BOOLEAN] /\ (\A b, c \in x19' : b.req = c.req => b = c)
  <2>1. x19 \subseteq [req : x7, ok : BOOLEAN] /\ \A b, c \in x19 : b.req = c.req => b = c OBVIOUS
  <2>2. QED BY ONLY <2>1, x7' = x7 \ {a.req}, x19' = x19 \ {a}, a \in x19
<1>3. TX!RequestsSound' BY <1>0, <1>1, <1>2
<1>4. TX!TurnSound'
  <2>1. a.req # TX!StartAsked OBVIOUS
  <2>2. TX!Unhandled(TX!StartAsked)' <=> TX!Unhandled(TX!StartAsked) BY <2>1
  <2>3. TX!StartAsked \in x7' <=> TX!StartAsked \in x7 BY <2>1
  <2> HIDE DEF TX!Unhandled
  <2>4. QED BY <1>0, <1>1, <2>2, <2>3
<1>5. QED BY <1>1, <1>3, <1>4

\* An answer that settles no input leaves them.
LEMMA TraexSettled ==
  ASSUME TX!TraexInv, NEW a \in x19, a.req.method # "turn/steer" \/ ~a.ok,
         x19' = x19 \ {a}, x7' \subseteq x7, \A q \in x7' : q # a.req, UNCHANGED <<x1, x2, x5, x15, x18, x21, x23>>
  PROVE  TX!InputsSound'
<1> USE DEF TX!TraexInv, TX!InputsSound, TX!Takers, TX!Unhandled, TX!Req
<1>1. \A q \in x7' : q.method = "turn/steer" /\ (\A c \in x19' : c.req # q) => q.input \notin TX!Takers OBVIOUS
<1>2. \A b \in x19 : b.ok /\ b.req.method = "turn/steer" => b \in x19' OBVIOUS
<1>3. \A s \in x21 :
        \/ s[1] \in x23 \/ x18[s[2]] = "failed"
        \/ x1 = "running" /\ s[2] = x2 /\ s[1] \in x5
        \/ \E b \in x19' : b.ok /\ b.req = [method |-> "turn/steer", turn |-> s[2], input |-> s[1]]
  BY <1>2
<1>4. QED BY <1>1, <1>3

LEMMA TraexResponds ==
  ASSUME TX!TraexAssumption, TX!TraexInv, NEW a \in x19, TX!Response(a)
  PROVE  TX!TraexInv'
<1> USE DEF TX!TraexInv, TX!Simple, TX!Req, TX!Asked, TX!Unhandled, TX!StartAsked, TX!Waiting, TX!Under,
            TX!WorkTold, TX!Takers, TX!Turns
<1> USE DEF TX!TurnsNumbered, TX!RequestsSound, TX!TurnSound, TX!InputsSound
<1>0. MaxTraexTurns \in Nat \ {0} /\ "none" \notin TraexInputs BY DEF TX!TraexAssumption
<1>1. x19' = x19 \ {a} /\ UNCHANGED <<x17, x18, x20>> BY Zenon DEF TX!Response
<1>2. TX!Last' = TX!Last /\ TX!TurnsNumbered' BY <1>1, TraexSame
<1>3. /\ a.req \in x7 /\ a.ok \in BOOLEAN /\ \A q \in x7 \ {a.req} : q # a.req
      /\ a.req.method \in {"initialize", "config/read", "thread/start", "turn/start", "turn/steer", "turn/interrupt",
                           "thread/name/set"}
  OBVIOUS
<1> HIDE DEF TX!TurnsNumbered
<1>4. CASE a.req.method \in {"initialize", "config/read"}
  <2> PICK r : r = [method |-> IF a.req.method = "initialize" THEN "config/read" ELSE "thread/start",
                    turn |-> 0, input |-> "none"]
    OBVIOUS
  <2>1. x1 = "opening" /\ x7 = {a.req} /\ x19 = {a} BY <1>3, <1>4
  <2>2. /\ UNCHANGED <<x1, x2, x3, x4, x6, x8, x24, x5, x21, x23, x12, x13, x22, x15>> /\ x7' = {r} /\ x19' = {}
    BY <1>1, <1>4, <2>1 DEF TX!Response, TX!Quietly, TX!turns, TX!inputs, TX!work, TX!rest
  <2>3. r.method \in {"config/read", "thread/start"} /\ r.turn = 0 /\ r.input = "none" OBVIOUS
  <2>4. r \in TX!Asked
    BY <1>0, <2>3
  <2>5. TX!RequestsSound' BY <1>2, <2>1, <2>2, <2>3, <2>4
  <2>6. TX!TurnSound' BY <1>1, <1>2, <2>1, <2>2, <2>3
  <2>7. TX!InputsSound' BY <1>1, <2>1, <2>2, <2>3
  <2>8. QED BY <1>2, <2>2, <2>5, <2>6, <2>7
<1>5. CASE a.req.method = "thread/start"
  <2> PICK s : s = [method |-> "turn/start", turn |-> 0, input |-> "none"] OBVIOUS
  <2> PICK m : m = [method |-> "thread/name/set", turn |-> 0, input |-> "none"] OBVIOUS
  <2>1. x1 = "opening" /\ x7 = {a.req} /\ x19 = {a} BY <1>3, <1>5
  <2>2. PICK titled \in BOOLEAN, prompted \in BOOLEAN :
          /\ x1' = (IF prompted THEN "starting" ELSE "ready") 
          /\ x7' = (IF titled THEN {m} ELSE {}) \cup (IF prompted THEN {s} ELSE {})
    BY <1>5, <2>1 DEF TX!Response
  <2>3. UNCHANGED <<x2, x3, x4, x6, x8, x24, x5, x21, x23, x12, x13, x22, x15>> /\ x19' = {}
    BY <1>1, <1>5, <2>1 DEF TX!Response, TX!inputs, TX!work, TX!rest
  <2>4. s.method = "turn/start" /\ m.method = "thread/name/set" /\ m.input = "none" /\ s.input = "none" OBVIOUS
  <2>5. {s, m} \subseteq TX!Asked
    BY <1>0
  <2>6. x7' \subseteq {s, m} /\ (s \in x7' <=> x1' = "starting") /\ x1' \in {"starting", "ready"} BY <2>2, <2>4
  <2>7. TX!RequestsSound' BY <1>2, <2>3, <2>4, <2>5, <2>6
  <2>8. TX!TurnSound' BY <1>0, <1>1, <1>2, <2>1, <2>3, <2>4, <2>6
  <2>9. TX!InputsSound'
    <3>1. x5 = {} /\ x1' # "running" /\ \A q \in x7' : q.method # "turn/steer" BY <2>1, <2>4, <2>6
    <3>2. \A s1 \in x21 : s1[1] \in x23 \/ x18[s1[2]] = "failed" BY <1>5, <2>1
    <3>3. QED BY <1>1, <2>3, <3>1, <3>2
  <2>10. QED BY <1>2, <2>3, <2>7, <2>8, <2>9
<1>6. CASE a.req.method = "turn/start" /\ x1 = "starting"
  <2>1. a.req = TX!StartAsked /\ TX!Under BY <1>3, <1>6
  <2>2. TX!AdmitTurn(TX!Last, x7 \ {a.req}) BY <1>6 DEF TX!Response
  <2> HIDE DEF TX!TraexInv, TX!Under, TX!StartAsked
  <2>3. QED BY <1>1, <1>6, <2>1, <2>2, TraexAdmits
<1>7. CASE a.req.method = "turn/start" /\ x1 # "starting"
  <2>1. /\ UNCHANGED <<x1, x2, x3, x4, x6, x8, x24, x5, x21, x23, x12, x13, x22, x15>> /\ x7' = x7 \ {a.req}
    BY <1>7 DEF TX!Response, TX!Quietly, TX!turns, TX!inputs, TX!work, TX!rest
  <2>2. x19' \subseteq [req : x7', ok : BOOLEAN] /\ (\A b, c \in x19' : b.req = c.req => b = c)
    <3>1. x19 \subseteq [req : x7, ok : BOOLEAN] /\ \A b, c \in x19 : b.req = c.req => b = c OBVIOUS
    <3>2. QED BY ONLY <1>1, <2>1, <3>1
  <2>3. TX!RequestsSound' BY <1>0, <1>2, <2>1, <2>2
  <2>4. ~TX!Unhandled(TX!StartAsked)' /\ ~TX!Unhandled(TX!StartAsked) BY <1>3, <1>7, <2>1
  <2>5. TX!TurnSound'
    <3> HIDE DEF TX!Unhandled
    <3>1. QED BY <1>0, <1>1, <1>2, <1>7, <2>1, <2>4
  <2>6. TX!InputsSound' BY <1>1, <1>7, <2>1, TraexSettled
  <2>7. QED BY <1>2, <2>1, <2>3, <2>5, <2>6
<1>8. CASE a.req.method = "thread/name/set"
  <2>1. /\ UNCHANGED <<x1, x2, x3, x4, x6, x8, x24, x5, x21, x23, x12, x13, x22, x15>> /\ x7' = x7 \ {a.req}
    BY <1>8 DEF TX!Response, TX!Quietly, TX!turns, TX!inputs, TX!work, TX!rest
  <2>2. TX!RequestsSound' /\ TX!TurnSound' BY <1>1, <1>8, <2>1, TraexAnswered
  <2>3. TX!InputsSound' BY <1>1, <1>8, <2>1, TraexSettled
  <2>4. QED BY <1>2, <2>1, <2>2, <2>3
<1>9. CASE a.req.method = "turn/interrupt"
  <2>1. a.ok \/ a.req.turn = x3 BY <1>3, <1>9
  <2>2. /\ UNCHANGED <<x1, x2, x3, x4, x6, x8, x24, x5, x21, x23, x12, x13, x22, x15>> /\ x7' = x7 \ {a.req}
    BY <1>9, <2>1 DEF TX!Response, TX!InterruptAnswer, TX!Quietly, TX!turns, TX!inputs, TX!work, TX!rest
  <2>3. TX!RequestsSound' /\ TX!TurnSound' BY <1>1, <1>9, <2>2, TraexAnswered
  <2>4. TX!InputsSound' BY <1>1, <1>9, <2>2, TraexSettled
  <2>5. QED BY <1>2, <2>2, <2>3, <2>4
<1>10. CASE a.req.method = "turn/steer"
  <2>1. a.req.turn = TX!Last /\ TX!Last # 0 /\ x1 \in {"ready", "running"} /\ a.req.input \in TraexInputs
    BY <1>3, <1>10
  <2>2. x2 # TX!Last => x1 = "ready" /\ x3 = TX!Last /\ x2 = 0 BY <2>1
  <2>3. x2 = TX!Last => x1 = "running" BY <2>1
  <2>4. /\ x7' = x7 \ {a.req}
        /\ UNCHANGED <<x1, x2, x3, x4, x6, x8, x24, x21, x12, x13, x22, x15>>
        /\ \/ ~a.ok /\ UNCHANGED <<x5, x23>>
           \/ a.ok /\ x2 = TX!Last /\ x5' = x5 \cup {a.req.input} /\ x23' = x23
           \/ a.ok /\ x2 # TX!Last /\ x5' = x5 /\ x23' = x23 \cup (IF x4 THEN {a.req.input} ELSE {})
    <3>1. x7' = x7 \ {a.req} /\ TX!SteerAnswer(a.req, a.ok) BY <1>10, Zenon DEF TX!Response
    <3>2. CASE ~a.ok
      BY <3>1, <3>2 DEF TX!SteerAnswer, TX!Quietly, TX!turns, TX!inputs, TX!work, TX!rest
    <3>3. CASE a.ok /\ x2 = TX!Last
      BY <2>1, <2>3, <3>1, <3>3 DEF TX!SteerAnswer, TX!turns, TX!work, TX!rest
    <3>4. CASE a.ok /\ x2 # TX!Last
      BY <2>1, <2>2, <3>1, <3>4 DEF TX!SteerAnswer, TX!Late, TX!LateSettled, TX!turns, TX!work, TX!rest
    <3>5. QED BY <3>2, <3>3, <3>4
  <2>5. TX!RequestsSound' /\ TX!TurnSound' BY <1>1, <1>10, <2>4, TraexAnswered
  <2>6. TX!InputsSound'
    <3>1. CASE ~a.ok BY <1>1, <2>4, <3>1, TraexSettled
    <3>2. CASE a.ok
      <4>1. /\ \A q, p \in x7' : q.method = "turn/steer" /\ q.input = p.input => q = p
            /\ \A q \in x7' : q.method = "turn/steer" /\ (\A c \in x19' : c.req # q) => q.input \notin TX!Takers
        BY <1>1, <2>4
      <4>2. \A c \in x19' : c.req.method = "turn/steer" =>
              IF c.ok THEN <<c.req.input, c.req.turn>> \in x21 ELSE c.req.input \notin TX!Takers
        BY <1>1
      <4>3. <<a.req.input, TX!Last>> \in x21 BY <1>10, <2>1, <3>2
      <4>4. \A s \in x21 :
              \/ s[1] \in x23 \/ x18[s[2]] = "failed"
              \/ x1 = "running" /\ s[2] = x2 /\ s[1] \in x5
              \/ \E b \in x19' : b.ok /\ b.req = [method |-> "turn/steer", turn |-> s[2], input |-> s[1]]
              \/ s[1] = a.req.input /\ s[2] = TX!Last
        BY <1>1, <2>1
      <4>5. CASE x2 = TX!Last
        <5>1. x5' = x5 \cup {a.req.input} /\ x23' = x23 /\ x1 = "running" BY <2>3, <2>4, <3>2, <4>5
        <5>2. QED BY <1>1, <2>1, <2>4, <4>1, <4>2, <4>3, <4>4, <4>5, <5>1
      <4>6. CASE x2 # TX!Last
        <5>1. x1 = "ready" /\ x5' = x5 /\ x23' = x23 \cup (IF x4 THEN {a.req.input} ELSE {}) BY <2>2, <2>4, <3>2, <4>6
        <5>2. x4 <=> x18[TX!Last] = "completed" BY <2>1, <5>1
        <5>3. x18[TX!Last] \in {"completed", "failed"} /\ TX!Last \in TX!Turns
          BY <1>0, <2>1, <5>1 DEF TX!TurnsNumbered
        <5>4. \A i \in x23' : \E n \in TX!Turns : <<i, n>> \in x21 /\ x18[n] = "completed" BY <4>3, <5>1, <5>2, <5>3
        <5>5. \A s \in x21 :
                \/ s[1] \in x23' \/ x18[s[2]] = "failed"
                \/ \E b \in x19' : b.ok /\ b.req = [method |-> "turn/steer", turn |-> s[2], input |-> s[1]]
          BY <4>4, <5>1, <5>2, <5>3
        <5>6. QED BY <1>1, <2>4, <4>1, <4>2, <5>1, <5>4, <5>5
      <4>7. QED BY <4>5, <4>6
    <3>3. QED BY <1>3, <3>1, <3>2
  <2>7. QED BY <1>2, <2>4, <2>5, <2>6
<1>11. QED BY <1>3, <1>4, <1>5, <1>6, <1>7, <1>8, <1>9, <1>10

\* Items of a turn.
LEMMA TraexWorks ==
  ASSUME TX!TraexAssumption, TX!TraexInv,
         \/ \E q \in TraexItems : TX!Ask(q) \/ \E whole \in BOOLEAN : TX!Text(q, whole)
         \/ \E c \in TraexWork, p \in BOOLEAN : TX!Backgrounded(c, p) \/ TX!Agent(c, p)
         \/ \E b \in x12, exited \in BOOLEAN : TX!CommandEnds(b, exited) \/ TX!Polled(b, exited)
  PROVE  TX!TraexInv'
<1>1. UNCHANGED <<x1, x2, x3, x4, x6, x8, x24, x5, x21, x23, x17, x18, x19, x20, x15, x7>>
  BY Zenon DEF TX!Ask, TX!Text, TX!Backgrounded, TX!Agent, TX!CommandEnds, TX!Polled,
               TX!ItemKeeps, TX!turns, TX!inputs, TX!server, TX!rest
<1>2. TX!Last' = TX!Last /\ TX!TurnsNumbered' BY <1>1, TraexSame DEF TX!TraexInv
<1>3. TX!RequestsSound' BY <1>1, <1>2 DEF TX!TraexInv, TX!RequestsSound, TX!Asked, TX!StartAsked, TX!Simple, TX!Req
<1>4. TX!TurnSound'
  BY <1>1, <1>2 DEF TX!TraexInv, TX!TurnSound, TX!StartAsked, TX!Simple, TX!Req, TX!Waiting, TX!Under, TX!Unhandled
<1>5. TX!InputsSound' BY <1>1, TraexInputsKept DEF TX!TraexInv, TX!InputsSound, TX!Takers, TX!Unhandled
<1>6. TX!WorkTold'
  <2>0. TX!WorkTold BY DEF TX!TraexInv
  <2> USE <2>0 DEF TX!WorkTold
  <2>1. CASE \E q \in TraexItems : TX!Ask(q) \/ \E whole \in BOOLEAN : TX!Text(q, whole)
    <3>1. UNCHANGED <<x12, x13, x22>> BY <2>1, Zenon DEF TX!Ask, TX!Text, TX!work
    <3>2. QED BY <3>1
  <2>2. CASE \E c \in TraexWork, p \in BOOLEAN : TX!Backgrounded(c, p) \/ TX!Agent(c, p)
    <3>1. PICK c \in TraexWork, p \in BOOLEAN : TX!Backgrounded(c, p) \/ TX!Agent(c, p) BY <2>2
    <3>2. CASE TX!Backgrounded(c, p)
      <4>1. x12' = x12 \cup {[item |-> c, turn |-> x2, process |-> p]} /\ x22' = x22 \cup {c} /\ x13' = x13
        BY <3>2 DEF TX!Backgrounded
      <4> PICK d : d = [item |-> c, turn |-> x2, process |-> p] OBVIOUS
      <4>2. d.item = c /\ x12' = x12 \cup {d} BY <4>1
      <4>3. QED BY <4>1, <4>2
    <3>3. CASE TX!Agent(c, p) BY <3>3 DEF TX!Agent
    <3>4. QED BY <3>1, <3>2, <3>3
  <2>3. CASE \E b \in x12, exited \in BOOLEAN : TX!CommandEnds(b, exited) \/ TX!Polled(b, exited)
    <3>1. PICK b \in x12, exited \in BOOLEAN : TX!CommandEnds(b, exited) \/ TX!Polled(b, exited) BY <2>3
    <3>2. /\ x13' = x13 /\ x22' = (IF exited THEN x22 \ {b.item} ELSE x22) /\ x12' = (IF exited THEN x12 \ {b} ELSE x12)
      BY <3>1, Zenon DEF TX!CommandEnds, TX!Polled, TX!Releases, TX!PollExited
    <3>3. QED BY <3>2
  <2>4. QED BY <2>1, <2>2, <2>3
<1>7. QED BY <1>2, <1>3, <1>4, <1>5, <1>6 DEF TX!TraexInv

LEMMA NextTraex == ASSUME TX!TraexAssumption, TX!TraexInv, [TX!Next]_(TX!vars) PROVE TX!TraexInv'
<1>1. CASE UNCHANGED TX!vars
  <2>1. /\ UNCHANGED <<x1, x2, x3, x4, x6, x8, x24, x5, x21, x23, x17, x18, x19, x20, x15, x7>>
        /\ UNCHANGED <<x12, x13, x22>>
    BY <1>1 DEF TX!vars, TX!turns, TX!inputs, TX!work, TX!server, TX!rest
  <2>2. TX!Last' = TX!Last /\ TX!TurnsNumbered' BY <2>1, TraexSame DEF TX!TraexInv
  <2>3. TX!RequestsSound' BY <2>1, <2>2 DEF TX!TraexInv, TX!RequestsSound, TX!Asked, TX!StartAsked, TX!Simple, TX!Req
  <2>4. TX!TurnSound'
    BY <2>1, <2>2 DEF TX!TraexInv, TX!TurnSound, TX!StartAsked, TX!Simple, TX!Req, TX!Waiting, TX!Under, TX!Unhandled
  <2>5. TX!InputsSound' BY <2>1, TraexInputsKept DEF TX!TraexInv, TX!InputsSound, TX!Takers, TX!Unhandled
  <2>6. TX!WorkTold' BY <2>1 DEF TX!TraexInv, TX!WorkTold
  <2>7. QED BY <2>2, <2>3, <2>4, <2>5, <2>6 DEF TX!TraexInv
<1>2. CASE TX!Next
  <2>1. CASE \/ TX!Open \/ TX!Start \/ TX!Interrupt \/ TX!Rename
             \/ \E i \in TraexInputs : TX!Steer(i)
             \/ \E q \in TraexItems : TX!Approve(q)
    BY <2>1, TraexAsks
  <2>2. CASE TX!HandleStart BY <2>2, TraexStarts
  <2>3. CASE \E r \in x7 : TX!HandleSteer(r) \/ \E ok \in BOOLEAN : TX!HandleOther(r, ok) BY <2>3, TraexHandles
  <2>4. CASE \E status \in {"completed", "failed"} : TX!End(status) BY <2>4, TraexEnds
  <2>5. CASE \E n \in TX!Turns : TX!Started(n) \/ TX!Completed(n) BY <2>5, TraexTold
  <2>6. CASE \E a \in x19 : TX!Response(a) BY <2>6, TraexResponds
  <2>7. CASE \/ \E q \in TraexItems : TX!Ask(q) \/ \E whole \in BOOLEAN : TX!Text(q, whole)
             \/ \E c \in TraexWork, p \in BOOLEAN : TX!Backgrounded(c, p) \/ TX!Agent(c, p)
             \/ \E b \in x12, exited \in BOOLEAN : TX!CommandEnds(b, exited) \/ TX!Polled(b, exited)
    BY <2>7, TraexWorks
  <2>8. QED BY <1>2, <2>1, <2>2, <2>3, <2>4, <2>5, <2>6, <2>7, Zenon DEF TX!Next
<1>3. QED BY <1>1, <1>2

\* What the actor may conclude.
LEMMA TraexQuiet == ASSUME TX!TraexAssumption, TX!TraexInv PROVE TX!ReplacesNoWork /\ TX!AgreesWhenQuiet
<1> USE DEF TX!TraexInv, TX!Simple, TX!Req, TX!Asked, TX!Unhandled, TX!StartAsked, TX!Waiting, TX!Under, TX!Turns
<1>0. MaxTraexTurns \in Nat \ {0} /\ "none" \notin TraexInputs BY DEF TX!TraexAssumption
<1>1. TX!ReplacesNoWork BY DEF TX!WorkTold, TX!ReplacesNoWork, TX!CanReconfigure, TX!HasBackground
<1>2. x23 \subseteq {s[1] : s \in {t \in x21 : x18[t[2]] = "completed"}}
  <2>1. SUFFICES ASSUME NEW i \in x23 PROVE \E s \in {t \in x21 : x18[t[2]] = "completed"} : i = s[1] OBVIOUS
  <2>2. PICK n \in TX!Turns : <<i, n>> \in x21 /\ x18[n] = "completed" BY DEF TX!InputsSound
  <2>3. <<i, n>>[1] = i /\ <<i, n>>[2] = n OBVIOUS
  <2>4. QED BY <2>2, <2>3
<1>3. ASSUME x7 = {}, x20 = {} PROVE /\ x1 = "running" <=> x17 # 0
                                     /\ x1 # "starting"
                                     /\ \A t \in x21 : x18[t[2]] = "completed" => t[1] \in x23
  <2>1. x19 = {} BY <1>3 DEF TX!RequestsSound
  <2>2. x1 # "starting" BY <1>3 DEF TX!TurnSound
  <2>3. x1 = "running" => x17 = TX!Last /\ TX!Last # 0 BY <1>3, <2>2 DEF TX!TurnSound
  <2>4. x1 # "running" => x17 = 0 BY <2>2 DEF TX!TurnSound
  <2>5. x1 = "running" => x18[x2] = "none" /\ x2 = TX!Last BY <1>0, <2>3 DEF TX!TurnsNumbered, TX!TurnSound
  <2>6. \A t \in x21 : x18[t[2]] = "completed" => t[1] \in x23 BY <2>1, <2>5 DEF TX!InputsSound
  <2>7. QED BY <2>2, <2>3, <2>4, <2>6
<1>4. ~x15 BY DEF TX!InputsSound
<1>5. QED BY <1>1, <1>2, <1>3, <1>4 DEF TX!AgreesWhenQuiet

\* An input is given back only if it was not taken.
LEMMA TraexRefusals == ASSUME TX!TraexAssumption, TX!TraexInv, TX!Next PROVE TX!RefusalStep
<1>1. TX!TraexInv' BY NextTraex
<1>2. \A r \in x7' : r.method = "turn/interrupt" => r.turn \in x24' BY <1>1 DEF TX!TraexInv, TX!RequestsSound
<1>3. ASSUME "rejected" \in x14' PROVE \E a \in x19 : a \notin x19' /\ a.req.input \notin {s[1] : s \in x21}
  <2>1. CASE \/ TX!Open \/ TX!Start \/ TX!Interrupt \/ TX!Rename
             \/ \E i \in TraexInputs : TX!Steer(i)
             \/ \E q \in TraexItems : TX!Approve(q)
    <3>1. x14' \subseteq {"interrupted"}
      BY <2>1 DEF TX!Open, TX!Start, TX!Interrupt, TX!Rename, TX!Steer, TX!Approve
    <3>2. QED BY <1>3, <3>1
  <2>2. CASE \/ TX!HandleStart \/ \E status \in {"completed", "failed"} : TX!End(status)
             \/ \E r \in x7 : TX!HandleSteer(r) \/ \E ok \in BOOLEAN : TX!HandleOther(r, ok)
    <3>1. x14' = {} BY <2>2, Zenon DEF TX!HandleStart, TX!End, TX!HandleSteer, TX!HandleOther, TX!ServerKeeps
    <3>2. QED BY <1>3, <3>1
  <2>3. CASE \E n \in TX!Turns : TX!Started(n) \/ TX!Completed(n)
    <3>1. x14' \subseteq {"finished", "failed", "consumed", "session"}
      BY <2>3 DEF TX!Started, TX!Completed, TX!AdmitTurn, TX!Finished
    <3>2. QED BY <1>3, <3>1
  <2>4. CASE \E a \in x19 : TX!Response(a)
    <3>1. PICK a \in x19 : TX!Response(a) BY <2>4
    <3>2. a.req.method = "turn/steer" /\ TX!SteerAnswer(a.req, a.ok)
      <4>1. CASE a.req.method = "turn/start"
        <5>1. x14' \subseteq {"finished", "failed", "consumed", "session"}
          BY <3>1, <4>1 DEF TX!Response, TX!AdmitTurn, TX!Finished
        <5>2. QED BY <1>3, <5>1
      <4>2. CASE a.req.method # "turn/start" /\ a.req.method # "turn/steer"
        <5>1. x14' \subseteq {"ready", "interrupted", "renamed"}
          BY <3>1, <4>2 DEF TX!Response, TX!InterruptAnswer, TX!Died
        <5>2. QED BY <1>3, <5>1
      <4>3. QED BY <3>1, <4>1, <4>2, Zenon DEF TX!Response
    <3>3. ~a.ok
      <4>1. CASE a.ok
        <5>1. x14' \subseteq {"consumed"}
          BY <3>2, <4>1 DEF TX!SteerAnswer, TX!Late, TX!LateSettled, TX!Died
        <5>2. QED BY <1>3, <5>1
      <4>2. QED BY <4>1
    <3>4. a.req.input \notin {s[1] : s \in x21} BY <3>2, <3>3 DEF TX!TraexInv, TX!InputsSound, TX!Takers
    <3>5. a \notin x19' BY <3>1 DEF TX!Response
    <3>6. QED BY <3>4, <3>5
  <2>5. CASE \/ \E q \in TraexItems : TX!Ask(q) \/ \E whole \in BOOLEAN : TX!Text(q, whole)
             \/ \E c \in TraexWork, p \in BOOLEAN : TX!Backgrounded(c, p) \/ TX!Agent(c, p)
             \/ \E b \in x12, exited \in BOOLEAN : TX!CommandEnds(b, exited) \/ TX!Polled(b, exited)
    <3>1. x14' \subseteq {"approval", "text", "notice", "tool", "toolResult"}
      BY <2>5 DEF TX!Ask, TX!Text, TX!Backgrounded, TX!Agent, TX!CommandEnds, TX!Polled
    <3>2. QED BY <1>3, <3>1
  <2>6. QED BY <2>1, <2>2, <2>3, <2>4, <2>5, Zenon DEF TX!Next
<1>4. QED BY <1>2, <1>3 DEF TX!RefusalStep

-----------------------------------------------------------------------------
(* A behaviour of this specification is one of the module it is about. *)

\* What carries each of them, while the run is about it.
UpgradeKept == focus = "upgrade" => LU!UpgradeInv
StreamsKept == focus = "terminals" => TE!OutputInv /\ TE!InputInv
HostKept == (focus = "hostProviders" => HP!LaunchesSound) /\ (focus = "skills" => SK!SkillInv)
AdaptersKept == (focus = "claude" => CA!ClaudeInv) /\ (focus = "traex" => TX!TraexInv)
ServicesKept == UpgradeKept /\ StreamsKept /\ HostKept /\ AdaptersKept

LEMMA InitServices == MCInit => ServicesKept
<1> SUFFICES ASSUME MCInit PROVE ServicesKept OBVIOUS
<1>1. UpgradeKept BY ServicesAssumption, InitUpgrade DEF MCInit, UpgradeKept
<1>2. StreamsKept BY ServicesAssumption, InitTerminal DEF MCInit, StreamsKept
<1>3. HostKept BY ServicesAssumption, InitSkill DEF MCInit, HostKept, HP!Init, HP!Nothing, HP!LaunchesSound
<1>4. AdaptersKept BY ServicesAssumption, InitClaude, InitTraex DEF MCInit, AdaptersKept
<1>5. QED BY <1>1, <1>2, <1>3, <1>4 DEF ServicesKept

\* The focus never changes, and its module takes a step of its own or rests.
LEMMA FocusSteps ==
  ASSUME [MCNext]_all
  PROVE  /\ focus' = focus
         /\ focus = "upgrade" => [LU!Next]_(LU!vars)
         /\ focus = "terminals" => [TE!Next]_(TE!vars)
         /\ focus = "hostProviders" => [HP!Next]_(HP!vars)
         /\ focus = "skills" => [SK!Next]_(SK!vars)
         /\ focus = "claude" => [CA!Next]_(CA!vars)
         /\ focus = "traex" => [TX!Next]_(TX!vars)
<1>1. CASE MCNext
  <2>1. focus' = focus BY <1>1 DEF MCNext
  <2>2. (focus = "upgrade" => LU!Next) /\ (focus = "terminals" => TE!Next)
    BY <1>1 DEF MCNext
  <2>3. (focus = "hostProviders" => HP!Next) /\ (focus = "skills" => SK!Next)
    BY <1>1 DEF MCNext
  <2>4. (focus = "claude" => CA!Next) /\ (focus = "traex" => TX!Next)
    BY <1>1 DEF MCNext
  <2>5. QED BY <2>1, <2>2, <2>3, <2>4
<1>2. CASE UNCHANGED all
  <2>1. UNCHANGED <<focus, x1, x2, x3, x4, x5, x6, x7, x8, x9, x10, x11, x12, x13, x14, x15, x16, x17, x18, x19, x20, x21, x22,
                    x23, x24, x25, x26, x27, x28, x29, x30, x31, x32, x33, x34, x35>>
    BY <1>2 DEF all, From1, From2, From5, From6, From7, From8, From9, From14, From15, From17, From25
  <2>2. UNCHANGED <<LU!vars, TE!vars, HP!vars, SK!vars>>
    BY <2>1 DEF LU!vars, TE!vars, TE!out, TE!in, TE!reader, HP!vars, SK!vars
  <2>3. UNCHANGED CA!vars
    BY <2>1 DEF CA!vars, CA!turn, CA!agents, CA!texts, CA!titles, CA!skills, CA!rigid, CA!ghosts
  <2>4. UNCHANGED TX!vars BY <2>1 DEF TX!vars, TX!turns, TX!inputs, TX!texts, TX!work, TX!server, TX!rest
  <2>5. QED BY <2>1, <2>2, <2>3, <2>4
<1>3. QED BY <1>1, <1>2

LEMMA NextServices == ServicesKept /\ [MCNext]_all => ServicesKept'
<1> SUFFICES ASSUME ServicesKept, [MCNext]_all PROVE ServicesKept' OBVIOUS
<1> USE DEF ServicesKept
<1>1. UpgradeKept' BY FocusSteps, ServicesAssumption, NextUpgrade, UpgradeRests DEF UpgradeKept
<1>2. StreamsKept'
  <2>1. focus' = focus /\ (focus = "terminals" => [TE!Next]_(TE!vars)) BY FocusSteps
  <2>2. CASE focus = "terminals"
    <3>1. TE!OutputInv /\ TE!InputInv /\ TE!TypeOK BY <2>2 DEF StreamsKept, TE!OutputInv
    <3>2. TE!TerminalAssumption BY ServicesAssumption
    <3>3. TE!OutputInv' BY <2>1, <2>2, <3>1, <3>2, OutputKept
    <3>4. TE!InputInv' BY <2>1, <2>2, <3>1, InputKept
    <3>5. QED BY <3>3, <3>4 DEF StreamsKept
  <2>3. QED BY <2>1, <2>2 DEF StreamsKept
<1>3. HostKept' BY FocusSteps, ServicesAssumption, LaunchesKept, NextSkill, SkillRests DEF HostKept
<1>4. AdaptersKept' BY FocusSteps, ServicesAssumption, NextClaude, NextTraex DEF AdaptersKept
<1>5. QED BY <1>1, <1>2, <1>3, <1>4

\* However daemons are started, drained, killed and replaced by coordinators of
\* two builds (any number of each), one daemon at a time has the database and
\* answers new connections, and streams come only from a daemon of the right build.
THEOREM DaemonsAreSound == MCSpec => []DaemonsSound
<1>1. UpgradeKept => DaemonsSound BY DEF UpgradeKept, DaemonsSound, LU!UpgradeInv
<1>2. QED BY <1>1, InitServices, NextServices, PTL DEF MCSpec, ServicesKept

\* Whatever the shell prints, the client reads and the ring drops, a terminal
\* accounts for every byte of its output; and it types what it accepted in order,
\* and nothing after a part that was lost.
THEOREM TerminalsAreExact == MCSpec => []TerminalStreamsExact
<1>1. StreamsKept => TerminalStreamsExact
  BY DEF StreamsKept, TerminalStreamsExact, TE!OutputInv, TE!InputInv
<1>2. QED BY <1>1, InitServices, NextServices, PTL DEF MCSpec, ServicesKept

\* No turn of a host starts with a provider that its Agent does not speak to; no
\* stale request restores a skill, and none appears before it is whole, whatever
\* is given up, dies or is cleaned up meanwhile.
THEOREM HostChangesAreSound == MCSpec => []HostChangesSound
<1>1. HostKept => HostChangesSound BY DEF HostKept, HostChangesSound, SK!SkillInv, SK!FoundRight, SK!StaleRefused, SK!At
<1>2. QED BY <1>1, InitServices, NextServices, PTL DEF MCSpec, ServicesKept

\* Whatever order the lines of a CLI, or the requests, responses and notifications
\* of an app-server take, neither adapter lets its CLI be replaced while something
\* it spoke of works; and the Traex adapter never meets an error, and agrees with
\* its server on the turn and on every input when nothing is under way.
THEOREM AdaptersAreSound == MCSpec => []AdaptersKeepWork
<1>1. AdaptersKept => AdaptersKeepWork
  BY ServicesAssumption, ClaudeIdle, TraexQuiet DEF AdaptersKept, AdaptersKeepWork
<1>2. QED BY <1>1, InitServices, NextServices, PTL DEF MCSpec, ServicesKept

\* No step drains a daemon that works, takes a turn for over that is not, gives
\* back an input that was taken, shows a text twice or in part, or drops a
\* provider made on the host.
THEOREM StepsAreAllowed == MCSpec => StepsAllowed
<1> DEFINE Step == /\ focus = "upgrade" => LU!DrainStep
                   /\ focus = "claude" => CA!ReportStep /\ CA!TextStep
                   /\ focus = "traex" => TX!RefusalStep
                   /\ focus = "hostProviders" => HP!OwnKept
<1>1. ASSUME ServicesKept, MCNext PROVE Step
  <2>1. [MCNext]_all BY <1>1
  <2>2. focus = "traex" => TX!Next BY <1>1 DEF MCNext
  <2>3. QED
    BY <1>1, <2>1, <2>2, FocusSteps, ServicesAssumption, DrainsAllowed, ClaudeReports, ClaudeTexts, TraexRefusals,
       OwnProvidersKept
    DEF ServicesKept, UpgradeKept, AdaptersKept
<1>2. ServicesKept /\ [MCNext]_all => [Step]_all BY <1>1
<1>3. QED BY <1>2, InitServices, NextServices, PTL DEF MCSpec, StepsAllowed
=============================================================================
