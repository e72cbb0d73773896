---------------------------- MODULE QueueConsent ----------------------------
(***************************************************************************)
(* Messages that were waiting when their session ended badly start only    *)
(* after the user has looked: the session actor with a record of the       *)
(* messages such an end has stranded.                                      *)
(***************************************************************************)
EXTENDS SessionActor

VARIABLE stranded   \* messages in the queue at a bad end, not yet looked at

\* A stop, a failure, a close, a crash found at restart, or a message that the
\* CLI sent back.  The stop that "send now" asks for is not one: the user is
\* there, and the queue goes on.
BadEnd ==
  \/ /\ status' # status /\ status' \in {"Failed", "Stopped", "Unknown"}
     /\ immediate' = NoImmediate
  \/ \E r \in Requests : row[r] = "forwarded" /\ row'[r] = "pending"

\* The user resumes or clears the whole queue, or sends one message now.
Confirms(r) == Resume \/ Clear \/ \E interrupt \in BOOLEAN : SendImmediately(r, interrupt)

ConsentInit == Init /\ stranded = {}
ConsentNext ==
  /\ Next
  /\ stranded' =
       IF BadEnd THEN stranded \cup {r \in Requests : row'[r] = "pending"}
       ELSE {r \in stranded : ~Confirms(r)}
ConsentSpec == ConsentInit /\ [][ConsentNext]_<<vars, stranded>>

\* Stop, close, failure and daemon restart leave the remaining queue paused:
\* the queue never starts a stranded message by itself.
NoStrandedStart ==
  [][pc = "auto" /\ pc' = "start" => current' \notin stranded]_<<vars, stranded>>
=============================================================================
