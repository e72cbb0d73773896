-------------------------- MODULE MCSessionDelivery --------------------------
(***************************************************************************)
(* One run for what the queue and the requests table promise of a prompt   *)
(* and for what a bad end does to the messages that were waiting.          *)
(***************************************************************************)
EXTENDS SessionDelivery, QueueConsent, TLC
Symmetry == Permutations(Requests)
=============================================================================
