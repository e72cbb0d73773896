------------------------ MODULE MCResourceOwnership ------------------------
(***************************************************************************)
(* Two instances in one run.  The narrow one admits the timing windows of  *)
(* its configuration only, and is checked for everything.  The wide one    *)
(* admits those that let requests arrive late and answers be lost, and     *)
(* lets Apps race for one resource: there ownership may be lost, but a     *)
(* close on behalf of an owner must still end nothing of another App.      *)
(***************************************************************************)
EXTENDS ResourceOwnership, TLC

VARIABLE wide   \* which instance this behaviour is of.  Never changes.

Wide == INSTANCE ResourceOwnership WITH
  Windows <- {"late", "log", "answer", "partial", "race"}, MaxInstances <- 1, MaxLate <- 1

MCInit == Init /\ wide \in BOOLEAN
MCNext ==
  \/ ~wide /\ Next /\ UNCHANGED wide
  \/ wide /\ Wide!Next /\ UNCHANGED wide
MCSpec == MCInit /\ [][MCNext]_<<vars, wide>>

\* The state is well typed, and every open session or terminal belongs to an
\* App: nothing stays open that nobody would ever close.
NothingOrphaned == wide \/ (TypeOK /\ OwnedWhileLive)

\* What an App that quit has left open is in its record.
LeftoversRecorded == wide \/ Recoverable

\* A running App knows what is its own, or a record will tell it.
OwnKnown == wide \/ KnownOrRecorded

Symmetry == Permutations(Apps) \cup Permutations(Resources)
=============================================================================
