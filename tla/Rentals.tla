------------------------------ MODULE Rentals ------------------------------
(***************************************************************************)
(* Reservations of rental items (RentalsService).  A reservation is        *)
(* requested for an item and a half-open span of hours and stored PENDING; *)
(* the owner confirms it.  Both handlers look for an overlapping           *)
(* reservation that is already confirmed and save in a later statement;    *)
(* neither locks the item.  Nothing in the code moves a reservation on     *)
(* from CONFIRMED (ACTIVE, COMPLETED, CANCELLED and REJECTED are stored    *)
(* nowhere), and no handler changes isAvailable.                           *)
(***************************************************************************)
EXTENDS Integers, FiniteSets

CONSTANTS
  Reservations,  \* identities for reservations renters may request
  Items,
  MinHours,      \* MinHours[i] is the item's minHoursToRent
  Available,     \* the items listed as available
  Hours,         \* the last hour of the calendar modelled
  Procs,         \* handlers in flight
  None

ASSUME ItemsAssumption == MinHours \in [Items -> Nat] /\ Available \subseteq Items
ASSUME HoursAssumption == Hours \in Nat

Time == 0..Hours

VARIABLES
  table,   \* rental_reservations: None or the row
  proc,
  seen     \* history: what was confirmed when r's confirmation began

vars == <<table, proc, seen>>

Row == [item : Items, start : Time, end : Time, status : {"PENDING", "CONFIRMED"}]

ASSUME NoneAssumption == None \notin Row /\ None \notin Reservations

Idle == [op |-> "none", r |-> None, row |-> None, pc |-> "idle", began |-> {}]
Proc == [op : {"none", "request", "confirm"}, r : Reservations \cup {None},
         row : Row \cup {None}, pc : {"idle", "check", "save"},
         began : SUBSET Reservations]  \* history: confirmed when it began

Stored == {r \in Reservations : table[r] # None}
Confirmed == {r \in Stored : table[r].status = "CONFIRMED"}

\* Mutant: the ends belong to the span.
ConflictsInclusive(a, b) == a.item = b.item /\ a.end >= b.start /\ a.start <= b.end

\* The WHERE clause of checkOverlap.
Conflicts(a, b) == a.item = b.item /\ a.end > b.start /\ a.start < b.end
CheckOverlap(row) == \E r \in Confirmed : Conflicts(table[r], row)

Done(p) == proc' = [proc EXCEPT ![p] = Idle]

-----------------------------------------------------------------------------
\* requestReservation up to the overlap check: the item is available, the span
\* is not empty and not shorter than the item's minimum.
Accepts(i, start, end) ==
  /\ i \in Available
  /\ start < end
  /\ end - start >= MinHours[i]

RequestReservation(p, r, i, start, end) ==
  /\ proc[p] = Idle
  /\ table[r] = None /\ \A q \in Procs : proc[q].r # r
  /\ Accepts(i, start, end)
  /\ proc' = [proc EXCEPT ![p] =
       [op |-> "request", r |-> r, pc |-> "check", began |-> {},
        row |-> [item |-> i, start |-> start, end |-> end, status |-> "PENDING"]]]
  /\ UNCHANGED <<table, seen>>

\* Mutant: the reservation is stored ACTIVE.
ConfirmReservationActive(p, r) ==
  /\ proc[p] = Idle
  /\ r \in Stored
  /\ proc' = [proc EXCEPT ![p] =
       [op |-> "confirm", r |-> r, pc |-> "check", began |-> Confirmed,
        row |-> [table[r] EXCEPT !.status = "ACTIVE"]]]
  /\ UNCHANGED <<table, seen>>

\* confirmReservation: read the reservation, throw unless it is PENDING.
ConfirmReservation(p, r) ==
  /\ proc[p] = Idle
  /\ r \in Stored
  /\ table[r].status = "PENDING"
  /\ proc' = [proc EXCEPT ![p] =
       [op |-> "confirm", r |-> r, pc |-> "check", began |-> Confirmed,
        row |-> [table[r] EXCEPT !.status = "CONFIRMED"]]]
  /\ UNCHANGED <<table, seen>>

\* Mutant: a confirmation is not validated again.
CheckRequestOnly(p) ==
  /\ proc[p].pc = "check"
  /\ IF proc[p].op = "request" /\ CheckOverlap(proc[p].row)
       THEN Done(p)
       ELSE proc' = [proc EXCEPT ![p].pc = "save"]
  /\ UNCHANGED <<table, seen>>

Check(p) ==
  /\ proc[p].pc = "check"
  /\ IF CheckOverlap(proc[p].row)
       THEN Done(p)
       ELSE proc' = [proc EXCEPT ![p].pc = "save"]
  /\ UNCHANGED <<table, seen>>

\* Only the status of a stored row differs from the entity, so save() inserts
\* the row or updates its status.
Save(p) ==
  /\ proc[p].pc = "save"
  /\ table' = [table EXCEPT ![proc[p].r] = proc[p].row]
  /\ seen' = IF proc[p].r \in Confirmed THEN seen
             ELSE [seen EXCEPT ![proc[p].r] = proc[p].began]
  /\ Done(p)

Init ==
  /\ table = [r \in Reservations |-> None]
  /\ proc = [p \in Procs |-> Idle]
  /\ seen = [r \in Reservations |-> {}]

Next == \E p \in Procs :
  \/ \E r \in Reservations, i \in Items, s, e \in Time : RequestReservation(p, r, i, s, e)
  \/ \E r \in Reservations : ConfirmReservation(p, r)
  \/ Check(p) \/ Save(p)

Spec == Init /\ [][Next]_vars

-----------------------------------------------------------------------------
TypeOK ==
  /\ table \in [Reservations -> Row \cup {None}]
  /\ proc \in [Procs -> Proc]
  /\ seen \in [Reservations -> SUBSET Reservations]

HoursOf(row) == {h \in Time : row.start <= h /\ h < row.end}
ShareAnHour(a, b) == a.item = b.item /\ HoursOf(a) \cap HoursOf(b) # {}

\* A double booking needs two confirmations in flight together: one that began
\* when an overlapping reservation was already confirmed is refused.
LateConfirmationRefused ==
  \A r, q \in Confirmed :
    r # q /\ ShareAnHour(table[r], table[q]) => q \notin seen[r] /\ r \notin seen[q]

\* checkOverlap's comparison of the ends says of two stored reservations exactly
\* whether some hour belongs to both; in particular one may begin in the hour
\* the other ends.
OverlapIsSharedHour ==
  \A r, q \in Stored : Conflicts(table[r], table[q]) <=> ShareAnHour(table[r], table[q])

-----------------------------------------------------------------------------
(* What a comment says and the code does not do. *)

\* confirmReservation "validates one more time to ensure no race conditions occurred"
\* (rentals.service.ts:90): the calendar is blocked, no two confirmed reservations of
\* an item share an hour.  Two confirmations that validate before either saves do.
ConfirmedDoNotOverlap ==
  \A r, q \in Confirmed : r # q => ~ ShareAnHour(table[r], table[q])
=============================================================================
