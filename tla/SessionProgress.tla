--------------------------- MODULE SessionProgress ---------------------------
(***************************************************************************)
(* What the session actor eventually does.  The server alone promises that *)
(* nothing a client waits for hangs: the loop runs on, and every deadline  *)
(* is one arm of the select with a fixed instant, so that it is chosen in  *)
(* the end however often another arm wins.                                 *)
(***************************************************************************)
EXTENDS SessionActor

ServerFairness ==
  /\ WF_vars(Tail)
  /\ SF_vars(InitTimeout) /\ SF_vars(TurnTimeout)
  /\ SF_vars(HandoffTimeout) /\ SF_vars(ImmediateTimeout)

ServerSpec == Spec /\ ServerFairness

\* Whoever waits is answered, whatever the CLI does: "send now" by the message
\* started or given back, the opening of a session by a ready CLI or its loss, a
\* stop by its end.
ClientsAnswered ==
  /\ immediate # NoImmediate ~> immediate = NoImmediate
  /\ opening ~> ~opening
  /\ stopping ~> ~stopping

\* An input in the CLI's hands is confirmed, refused or written off.
HandoffResolved == \A r \in Requests : r \in forwarded ~> r \notin forwarded
=============================================================================
