--------------------------- MODULE SessionDelivery ---------------------------
(***************************************************************************)
(* The session actor implements the promise of PromptDelivery: a prompt's  *)
(* place is read off the requests table and the queue table, and the       *)
(* present CLI may still be given the request being started or handed off  *)
(* and the prompt its adapter keeps for the end of initialization.         *)
(***************************************************************************)
EXTENDS SessionActor

placeOf == [r \in Requests |->
  IF r \in accepted THEN "admitted"
  ELSE CASE row[r] = "none"       -> "new"
         [] row[r] = "pending"    -> "queued"
         [] row[r] = "forwarded"  -> "handed"
         [] row[r] = "dispatched" -> "confirmed"
         [] row[r] = "uncertain"  -> "uncertain"
         [] OTHER                 -> "withdrawn"]

owedNow == {current, prompt} \ {NoRequest}
deliveredNow == {r \in Requests : sent[r] > 0}

Promise == INSTANCE PromptDelivery WITH
  place <- placeOf, owed <- owedNow, delivered <- deliveredNow

\* Every prompt is delivered as PromptDelivery promises, and so what follows from
\* the promise holds of the actor: StillTheAuthors and FinalPlaces there.
DeliversAsPromised == Promise!Spec
=============================================================================
