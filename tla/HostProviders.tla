---------------------------- MODULE HostProviders ----------------------------
(***************************************************************************)
(* The providers a daemon keeps for Apps that do not bring their own: a     *)
(* catalogue, what its Agents and those of other hosts are bound to, copies *)
(* that other daemons install, and the provider a turn is launched with.    *)
(***************************************************************************)
EXTENDS Naturals, FiniteSets, Functions

CONSTANTS
  Ids, Models,
  Agents,
  Speaks,        \* Agent -> the protocols it takes
  Protocols,
  Hosts,         \* other hosts
  MaxChanges     \* bound

HostProviderAssumption == Speaks \in [Agents -> SUBSET Protocols] /\ MaxChanges \in Nat

VARIABLES
  records,       \* provider -> protocol, models, copied from another daemon?, revision
  bound,         \* Agent -> provider
  hostBound,     \* <<host, Agent>> -> provider
  changes,
  sent,          \* snapshots another daemon has taken of its own, on their way here
  launched       \* what the last turn was launched with

vars == <<records, bound, hostBound, changes, sent, launched>>

Nothing == [x \in {} |-> 0]
\* The configuration of the CLI itself.
Cli == [protocol |-> "cli", models |-> {}]

Init ==
  /\ records = Nothing /\ bound = Nothing /\ hostBound = Nothing /\ changes = 0 /\ sent = {}
  /\ launched = [agent |-> "none"]

Set(f, i, x) == [j \in DOMAIN f \cup {i} |-> IF j = i THEN x ELSE f[j]]
Without(f, s) == Restrict(f, DOMAIN f \ s)
Bound(b, h) == Range(b) \cup Range(h)

\* validate_config: nothing is stored in which an Agent is bound to what is not
\* there, or does not speak its protocol.  (Fault: it only has to be there.)
Fits(r, agent, id) == id \in DOMAIN r /\ r[id].protocol \in Speaks[agent]
ValidThere(r, b, h) == Bound(b, h) \subseteq DOMAIN r
ValidFits(r, b, h) == (\A a \in DOMAIN b : Fits(r, a, b[a])) /\ (\A x \in DOMAIN h : Fits(r, x[2], h[x]))
Valid(r, b, h) == ValidFits(r, b, h)

\* persist
Stores(r, b, h) ==
  /\ changes < MaxChanges /\ Valid(r, b, h)
  /\ changes' = changes + 1 /\ records' = r /\ bound' = b /\ hostBound' = h

\* A copy stays only as long as something is bound to it.  (Fault: so does what
\* was made here.)
NeededBound(r, b, h) == {id \in DOMAIN r : id \in Bound(b, h)}
NeededOwn(r, b, h) == {id \in DOMAIN r : ~r[id].copied \/ id \in Bound(b, h)}
Needed(r, b, h) == NeededOwn(r, b, h)

Save(id, protocol, models) ==
  /\ Stores(Set(records, id, [protocol |-> protocol, models |-> models, copied |-> FALSE, revision |-> changes + 1]),
            bound, hostBound)
  /\ UNCHANGED <<sent, launched>>
Delete(id) ==
  /\ id \in DOMAIN records /\ id \notin Bound(bound, hostBound)
  /\ Stores(Without(records, {id}), bound, hostBound) /\ UNCHANGED <<sent, launched>>

Keep(b) == Stores(Restrict(records, Needed(records, b, hostBound)), b, hostBound)
Bind(agent, id) == Keep(Set(bound, agent, id)) /\ UNCHANGED <<sent, launched>>
Unbind(agent) == Keep(Without(bound, {agent})) /\ UNCHANGED <<sent, launched>>

BindHost(host, agent, id) ==
  /\ Stores(records, bound, Set(hostBound, <<host, agent>>, id)) /\ UNCHANGED <<sent, launched>>
UnbindHost(host, agent) ==
  /\ Stores(records, bound, Without(hostBound, {<<host, agent>>})) /\ UNCHANGED <<sent, launched>>
ForgetHost(host) ==
  /\ Stores(records, bound, Without(hostBound, {x \in DOMAIN hostBound : x[1] = host})) /\ UNCHANGED <<sent, launched>>

-----------------------------------------------------------------------------
(* Another daemon takes a snapshot, and asks for it to be installed here       *)
(* together with the binding.                                               *)

Export(agent, id, protocol, models) ==
  /\ sent = {} /\ protocol \in Speaks[agent]
  /\ sent' = {[agent |-> agent, id |-> id, protocol |-> protocol, models |-> models]}
  /\ UNCHANGED <<records, bound, hostBound, changes, launched>>
Sync(s) ==
  /\ LET b == Set(bound, s.agent, s.id)
         r == Set(records, s.id, [protocol |-> s.protocol, models |-> s.models, copied |-> TRUE, revision |-> changes + 1])
     IN Stores(Restrict(r, Needed(r, b, hostBound)), b, hostBound)
  /\ sent' = sent \ {s} /\ UNCHANGED launched
Drop(s) == sent' = sent \ {s} /\ UNCHANGED <<records, bound, hostBound, changes, launched>>

-----------------------------------------------------------------------------
(* A turn: turn_config. *)

Of(r) == [protocol |-> r.protocol, models |-> r.models]
Here(agent) == IF agent \in DOMAIN bound THEN Of(records[bound[agent]]) ELSE Cli
\* The model must be one of the provider of the turn; without one the CLI knows.
\* (Fault: one of the provider bound here.)
OffersHere(agent, p, model) == Here(agent).models = {} \/ model \in Here(agent).models
OffersTurn(agent, p, model) == p = Cli \/ model \in p.models
Offers(agent, p, model) == OffersTurn(agent, p, model)

\* The App brings a provider, or says that there is none; an old one says nothing,
\* and what is bound here counts.
Turn(agent, p, model) ==
  /\ p # Cli => p.protocol \in Speaks[agent]
  /\ Offers(agent, p, model)
  /\ launched' = [agent |-> agent, provider |-> p, model |-> model]
  /\ UNCHANGED <<records, bound, hostBound, changes, sent>>
OldTurn(agent, model) ==
  Turn(agent, Here(agent), model)

Next ==
  \/ \E id \in Ids, q \in Protocols, ms \in (SUBSET Models) \ {{}} :
       Save(id, q, ms) \/ \E a \in Agents : Export(a, id, q, ms)
  \/ \E id \in Ids : Delete(id) \/ \E a \in Agents : Bind(a, id) \/ \E h \in Hosts : BindHost(h, a, id)
  \/ \E a \in Agents : Unbind(a) \/ \E h \in Hosts : UnbindHost(h, a)
  \/ \E h \in Hosts : ForgetHost(h)
  \/ \E s \in sent : Sync(s) \/ Drop(s)
  \/ \E a \in Agents, m \in Models :
       OldTurn(a, m) \/ Turn(a, Cli, m) \/ \E q \in Protocols, ms \in (SUBSET Models) \ {{}} :
                                               Turn(a, [protocol |-> q, models |-> ms], m)

Spec == Init /\ [][Next]_vars

-----------------------------------------------------------------------------
(* Safety. *)

TypeOK ==
  /\ DOMAIN records \subseteq Ids /\ DOMAIN bound \subseteq Agents /\ DOMAIN hostBound \subseteq Hosts \X Agents
  /\ \A id \in DOMAIN records : records[id].protocol \in Protocols /\ records[id].models \subseteq Models

\* Whatever is saved over what is in use, installed from elsewhere, or collected
\* when its last binding goes, an Agent is bound to what is there and speaks its
\* protocol; and a turn gets a provider that it can talk to and that offers its
\* model.
LaunchesSound ==
  /\ \A a \in DOMAIN bound : bound[a] \in DOMAIN records /\ records[bound[a]].protocol \in Speaks[a]
  /\ \A x \in DOMAIN hostBound : hostBound[x] \in DOMAIN records /\ records[hostBound[x]].protocol \in Speaks[x[2]]
  /\ launched.agent # "none" /\ launched.provider # Cli =>
       launched.provider.protocol \in Speaks[launched.agent] /\ launched.model \in launched.provider.models

\* What was made here goes only when somebody deletes it or installs another in
\* its place.
OwnKept ==
  \A id \in DOMAIN records : ~records[id].copied /\ id \notin DOMAIN records' => Delete(id)
=============================================================================
