-------------------------------- MODULE Offer --------------------------------
(***************************************************************************)
(* What the backend promises of a booking, whatever its handlers do to each *)
(* other: a request is asked once and answered once, for good; only taking  *)
(* it, while it is still asked, makes its fee due; a fee is charged when it *)
(* is due and no more.  Module Bookings is shown to implement this.         *)
(***************************************************************************)
EXTENDS Naturals

CONSTANTS Bookings, Operator   \* the bookings, and the worker each is sent to

VARIABLES
  phase,    \* the life of each booking: none, asked, answered
  owed,     \* the bookings whose fee is due
  charged   \* how often the fee of each booking was charged

vars == <<phase, owed, charged>>

Asked(w) == {b \in Bookings : Operator[b] = w /\ phase[b] = "asked"}
Answer(S) == phase' = [b \in Bookings |-> IF b \in S THEN "answered" ELSE phase[b]]

Init ==
  /\ phase = [b \in Bookings |-> "none"]
  /\ owed = {}
  /\ charged = [b \in Bookings |-> 0]

Ask(b) ==
  /\ phase[b] = "none"
  /\ phase' = [phase EXCEPT ![b] = "asked"]
  /\ UNCHANGED <<owed, charged>>

\* Rejected, cancelled or timed out.
Close(b) ==
  /\ phase[b] = "asked"
  /\ Answer({b})
  /\ UNCHANGED <<owed, charged>>

\* The worker takes the booking; other requests that wait for the same worker
\* are answered with it.
Take(b) ==
  /\ phase[b] = "asked"
  /\ \E S \in SUBSET Asked(Operator[b]) : Answer(S \cup {b})
  /\ owed' = owed \cup {b}
  /\ UNCHANGED charged

Charge(b) ==
  /\ b \in owed
  /\ owed' = owed \ {b}
  /\ charged' = [charged EXCEPT ![b] = @ + 1]
  /\ UNCHANGED phase

\* A restart forgets what is due.
Forget ==
  /\ owed' = {}
  /\ UNCHANGED <<phase, charged>>

Next == (\E b \in Bookings : Ask(b) \/ Close(b) \/ Take(b) \/ Charge(b)) \/ Forget

Spec == Init /\ [][Next]_vars
=============================================================================
