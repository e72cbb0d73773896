--------------------------- MODULE PromptDelivery ---------------------------
(***************************************************************************)
(* What a session promises the author of a prompt, whatever happens to the *)
(* CLI, the actor or the daemon: a prompt is in exactly one place, a prompt *)
(* taken back is never written, a prompt whose fate is unknown is never    *)
(* tried again, and a prompt that was not written before its CLI was lost  *)
(* never will be.                                                          *)
(***************************************************************************)
CONSTANT Requests

VARIABLES
  place,      \* where each prompt is
  owed,       \* prompts the present CLI may still be given
  delivered   \* prompts a CLI was given and has not refused

promptVars == <<place, owed, delivered>>

Places == {"new", "queued", "admitted", "handed", "confirmed", "uncertain", "withdrawn"}
In(p) == {r \in Requests : place[r] = p}

Init == place = [r \in Requests |-> "new"] /\ owed = {} /\ delivered = {}

\* Saved behind a busy session.
Save(r) ==
  /\ place[r] = "new" /\ place' = [place EXCEPT ![r] = "queued"]
  /\ UNCHANGED <<owed, delivered>>

\* The prompt of a new turn, when no other prompt is with the CLI.
Admit(r) ==
  /\ place[r] \in {"new", "queued"} /\ owed = {} /\ In("handed") = {}
  /\ place' = [place EXCEPT ![r] = "admitted"] /\ owed' = {r}
  /\ UNCHANGED delivered

\* A queued prompt joins the running turn.
HandOver(r) ==
  /\ place[r] = "queued" /\ owed = {}
  /\ place' = [place EXCEPT ![r] = "handed"] /\ owed' = {r}
  /\ UNCHANGED delivered

Deliver(r) ==
  /\ r \in owed \ delivered /\ place[r] \in {"admitted", "handed"}
  /\ owed' = owed \ {r} /\ delivered' = delivered \cup {r} /\ UNCHANGED place

\* The last chance of a prompt: it is delivered or not as its CLI is given up.
LastDelivery ==
  /\ owed' = {} /\ UNCHANGED place
  /\ \E S \in SUBSET owed : delivered' = delivered \cup S

\* The CLI confirms prompts, or refuses one, which returns to the queue.
Confirm(S) ==
  /\ S \subseteq In("handed") \cap delivered
  /\ place' = [r \in Requests |-> IF r \in S THEN "confirmed" ELSE place[r]]
  /\ UNCHANGED <<owed, delivered>>

Refuse(r) ==
  /\ r \in delivered /\ delivered' = delivered \ {r}
  /\ place' = IF place[r] = "handed" THEN [place EXCEPT ![r] = "queued"] ELSE place
  /\ UNCHANGED owed

\* The author takes prompts back.
Withdraw(S) ==
  /\ S \subseteq In("queued")
  /\ place' = [r \in Requests |-> IF r \in S THEN "withdrawn" ELSE place[r]]
  /\ UNCHANGED <<owed, delivered>>

\* The CLI is lost or replaced; the prompts in its hands are written off now
\* or when the loss is noticed.
Lose ==
  /\ owed' = {} /\ UNCHANGED delivered
  /\ place' \in {place, [r \in Requests |-> IF place[r] = "handed" THEN "uncertain" ELSE place[r]]}

Next ==
  \/ \E r \in Requests : Save(r) \/ Admit(r) \/ HandOver(r) \/ Deliver(r) \/ Refuse(r)
  \/ \E S \in SUBSET Requests : Confirm(S) \/ Withdraw(S)
  \/ LastDelivery \/ Lose

Spec == Init /\ [][Next]_promptVars

-----------------------------------------------------------------------------
(* What follows from the promise. *)

TypeOK ==
  /\ place \in [Requests -> Places]
  /\ owed \subseteq Requests /\ delivered \subseteq Requests

\* A prompt that is new, waits in the queue or was taken back is with no CLI
\* and cannot reach one: its author may still change it or send it elsewhere.
StillTheAuthors ==
  \A r \in Requests :
    place[r] \in {"new", "queued", "withdrawn"} => r \notin owed \cup delivered

\* A prompt leaves doubt, withdrawal and confirmation never again, and a turn
\* once begun is not undone.
FinalPlaces ==
  [][\A r \in Requests :
       place[r] \in {"admitted", "confirmed", "uncertain", "withdrawn"} => place'[r] = place[r]]_promptVars
=============================================================================
