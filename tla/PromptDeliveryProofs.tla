------------------------ MODULE PromptDeliveryProofs ------------------------
(***************************************************************************)
(* What follows from the promise of PromptDelivery, for any set of prompts.*)
(***************************************************************************)
EXTENDS PromptDelivery, TLAPS

\* A prompt the CLI may still be given was not given to it before.  A prompt
\* that is refused is then neither owed nor delivered.
OwedOnce == owed \cap delivered = {}

AuthorInv == TypeOK /\ StillTheAuthors /\ OwedOnce

LEMMA NextAuthor ==
  ASSUME AuthorInv, [Next]_promptVars
  PROVE  AuthorInv'
<1> USE DEF AuthorInv, TypeOK, Places, StillTheAuthors, OwedOnce, In
<1>1. ASSUME NEW r \in Requests, Save(r) PROVE AuthorInv' BY <1>1 DEF Save
<1>2. ASSUME NEW r \in Requests, Admit(r) PROVE AuthorInv' BY <1>2 DEF Admit
<1>3. ASSUME NEW r \in Requests, HandOver(r) PROVE AuthorInv' BY <1>3 DEF HandOver
<1>4. ASSUME NEW r \in Requests, Deliver(r) PROVE AuthorInv' BY <1>4 DEF Deliver
<1>5. ASSUME NEW r \in Requests, Refuse(r) PROVE AuthorInv' BY <1>5 DEF Refuse
<1>6. ASSUME NEW S \in SUBSET Requests, Confirm(S) PROVE AuthorInv' BY <1>6 DEF Confirm
<1>7. ASSUME NEW S \in SUBSET Requests, Withdraw(S) PROVE AuthorInv' BY <1>7 DEF Withdraw
<1>8. CASE LastDelivery BY <1>8 DEF LastDelivery
<1>9. CASE Lose BY <1>9 DEF Lose
<1>10. CASE UNCHANGED promptVars BY <1>10 DEF promptVars
<1>11. QED
  BY <1>1, <1>2, <1>3, <1>4, <1>5, <1>6, <1>7, <1>8, <1>9, <1>10 DEF Next

LEMMA AuthorInvariant == Spec => []AuthorInv
<1>1. Init => AuthorInv
  BY DEF Init, AuthorInv, TypeOK, Places, StillTheAuthors, OwedOnce
<1>2. AuthorInv /\ [Next]_promptVars => AuthorInv' BY NextAuthor
<1>3. QED BY <1>1, <1>2, PTL DEF Spec

\* A prompt that is new, queued or taken back belongs to its author: it is with
\* no CLI, and no CLI can still be given it.
THEOREM AuthorsDecide == Spec => []StillTheAuthors
<1>1. AuthorInv => StillTheAuthors BY DEF AuthorInv
<1>2. QED BY <1>1, AuthorInvariant, PTL

\* Admission, confirmation, doubt and withdrawal are for good.
THEOREM PlacesAreFinal == Spec => FinalPlaces
<1> DEFINE Final ==
      \A r \in Requests :
        place[r] \in {"admitted", "confirmed", "uncertain", "withdrawn"} => place'[r] = place[r]
<1>1. TypeOK /\ [Next]_promptVars => [Final]_promptVars
  <2> SUFFICES ASSUME TypeOK, Next PROVE Final
    OBVIOUS
  <2> USE DEF TypeOK, In
  <2>1. ASSUME NEW r \in Requests, Save(r) \/ Admit(r) \/ HandOver(r) PROVE Final
    BY <2>1 DEF Save, Admit, HandOver
  <2>2. ASSUME NEW r \in Requests, Deliver(r) \/ Refuse(r) PROVE Final
    BY <2>2 DEF Deliver, Refuse
  <2>3. ASSUME NEW S \in SUBSET Requests, Confirm(S) \/ Withdraw(S) PROVE Final
    BY <2>3 DEF Confirm, Withdraw
  <2>4. CASE LastDelivery \/ Lose BY <2>4 DEF LastDelivery, Lose
  <2>5. QED BY <2>1, <2>2, <2>3, <2>4 DEF Next
<1>2. AuthorInv => TypeOK BY DEF AuthorInv
<1>3. QED BY <1>1, <1>2, AuthorInvariant, PTL DEF Spec, FinalPlaces

=============================================================================
