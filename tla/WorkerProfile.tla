---------------------------- MODULE WorkerProfile ----------------------------
(***************************************************************************)
(* The worker_profiles row.  Four handlers read the row, change it and     *)
(* save it (module TypeOrm) without a lock: toggleGoLive and               *)
(* updateHourlyRate, each limited to two changes a day by a counter in the *)
(* row; the end of verifyCompletionOtp, which grants the bonus of the      *)
(* first job and then sets isFirstJobDone; and the end of submitRating.    *)
(* What toggleGoLive then writes to Redis is in module WorkerSearch.       *)
(***************************************************************************)
EXTENDS Integers, FiniteSets, Sequences, TypeOrm

CONSTANTS
  Workers,
  Procs,       \* handlers in flight
  Calls,       \* the handlers called in this model
  Limit,       \* changes allowed a day (2)
  LastDay,     \* the last day of the model
  MaxCalls,    \* changes a day and bonuses of a worker after which the model
               \* makes no further call of their handler
  MaxReviews   \* the same for ratings

Handlers == {"toggle", "rate", "complete", "rating"}

ASSUME CallsAssumption == Calls \subseteq Handlers
ASSUME WorkersAssumption == Workers # {}
ASSUME ProfileBoundAssumption ==
  Limit \in Nat /\ LastDay \in Nat \ {0} /\ MaxCalls \in Nat /\ MaxReviews \in Nat

\* A date column is 0 until it is first set.
Profile == [isActive : BOOLEAN,
            toggles : Nat, toggleDay : Nat,  \* goLiveToggleCountToday, -Date
            rates : Nat, rateDay : Nat,      \* rateUpdateCountToday, -Date
            isFirstJobDone : BOOLEAN,
            reviews : Nat]                   \* reviewCount
NewProfile == [isActive |-> FALSE, toggles |-> 0, toggleDay |-> 0,
               rates |-> 0, rateDay |-> 0, isFirstJobDone |-> FALSE, reviews |-> 0]

VARIABLES
  day,       \* today
  profile,   \* the worker_profiles table
  funded,    \* the worker's balance reaches the 12 rupees
  bonuses,   \* bonuses granted to each worker
  changes,   \* history: changes saved with today's date, per handler and worker
  overlap,   \* history: two handlers have been in flight together
  proc

vars == <<day, profile, funded, bonuses, changes, overlap, proc>>

Proc == [op : Handlers \cup {"none"}, w : Workers,
         pc : {"idle", "read", "balance", "bonus", "select", "update"},
         entity : Profile, dirty : SUBSET DOMAIN NewProfile]

Start(op, w) == [op |-> op, w |-> w, pc |-> "read", entity |-> NewProfile,
                 dirty |-> {}]
Idle == [Start("none", CHOOSE w \in Workers : TRUE) EXCEPT !.pc = "idle"]

At(p, op, pc) == proc[p].op = op /\ proc[p].pc = pc
Done(p) == proc' = [proc EXCEPT ![p] = Idle]
Keep(p, e, pc) == proc' = [proc EXCEPT ![p].entity = e, ![p].pc = pc]

\* The counters start again on a new day.
TogglesToday(row) == IF row.toggleDay = day THEN row.toggles ELSE 0
RatesToday(row)   == IF row.rateDay = day THEN row.rates ELSE 0

-----------------------------------------------------------------------------
Call(p, op, w) ==
  /\ proc[p] = Idle
  /\ CASE op = "rating"   -> profile[w].reviews < MaxReviews
       [] op = "complete" -> bonuses[w] < MaxCalls
       [] OTHER           -> changes[op][w] < MaxCalls
  /\ proc' = [proc EXCEPT ![p] = Start(op, w)]
  /\ overlap' = (overlap \/ \E q \in Procs : proc[q] # Idle)
  /\ UNCHANGED <<day, profile, funded, bonuses, changes>>

\* toggleGoLive: the counter starts again on a new day; after the first job the
\* balance is asked before going live; a change beyond the day's limit is refused.
LimitToggle(p, e) ==
  IF e.toggles >= Limit
    THEN Done(p)
    ELSE Keep(p, [e EXCEPT !.isActive = ~ @, !.toggles = @ + 1], "select")

ToggleGoLive(p) ==
  LET row == profile[proc[p].w]
      e == [row EXCEPT !.toggleDay = day, !.toggles = TogglesToday(row)] IN
  /\ At(p, "toggle", "read")
  /\ IF ~ row.isActive /\ row.isFirstJobDone THEN Keep(p, e, "balance") ELSE LimitToggle(p, e)
  /\ UNCHANGED <<day, profile, funded, bonuses, changes, overlap>>

CheckBalance(p) ==
  /\ At(p, "toggle", "balance")
  /\ IF funded[proc[p].w] THEN LimitToggle(p, proc[p].entity) ELSE Done(p)
  /\ UNCHANGED <<day, profile, funded, bonuses, changes, overlap>>

\* Mutant: one change too many is allowed.
UpdateHourlyRateOnceMore(p) ==
  LET row == profile[proc[p].w] IN
  /\ At(p, "rate", "read")
  /\ IF RatesToday(row) > Limit
       THEN Done(p)
       ELSE Keep(p, [row EXCEPT !.rateDay = day, !.rates = RatesToday(row) + 1], "select")
  /\ UNCHANGED <<day, profile, funded, bonuses, changes, overlap>>

UpdateHourlyRate(p) ==
  LET row == profile[proc[p].w] IN
  /\ At(p, "rate", "read")
  /\ IF RatesToday(row) >= Limit
       THEN Done(p)
       ELSE Keep(p, [row EXCEPT !.rateDay = day, !.rates = RatesToday(row) + 1], "select")
  /\ UNCHANGED <<day, profile, funded, bonuses, changes, overlap>>

\* Mutant: the flag is set and the bonus forgotten.
CompletionFlagsOnly(p) ==
  LET row == profile[proc[p].w] IN
  /\ At(p, "complete", "read")
  /\ IF row.isFirstJobDone THEN Done(p)
     ELSE Keep(p, [row EXCEPT !.isFirstJobDone = TRUE], "select")
  /\ UNCHANGED <<day, profile, funded, bonuses, changes, overlap>>

\* The end of verifyCompletionOtp: read the profile; if the first job was not
\* done, add the bonus to the wallet, then set the flag.
CompletionReadsProfile(p) ==
  LET row == profile[proc[p].w] IN
  /\ At(p, "complete", "read")
  /\ IF row.isFirstJobDone THEN Done(p) ELSE Keep(p, row, "bonus")
  /\ UNCHANGED <<day, profile, funded, bonuses, changes, overlap>>

GrantBonus(p) ==
  LET w == proc[p].w IN
  /\ At(p, "complete", "bonus")
  /\ bonuses' = [bonuses EXCEPT ![w] = @ + 1]
  /\ funded' = [funded EXCEPT ![w] = TRUE]
  /\ proc' = [proc EXCEPT ![p].entity.isFirstJobDone = TRUE, ![p].pc = "select"]
  /\ UNCHANGED <<day, profile, changes, overlap>>

\* Mutant: a review is taken off.
SubmitRatingReversed(p) ==
  LET row == profile[proc[p].w] IN
  /\ At(p, "rating", "read")
  /\ Keep(p, [row EXCEPT !.reviews = @ - 1], "select")
  /\ UNCHANGED <<day, profile, funded, bonuses, changes, overlap>>

\* The end of submitRating: one more review in the running average.
SubmitRating(p) ==
  LET row == profile[proc[p].w] IN
  /\ At(p, "rating", "read")
  /\ Keep(p, [row EXCEPT !.reviews = @ + 1], "select")
  /\ UNCHANGED <<day, profile, funded, bonuses, changes, overlap>>

Select(p) ==
  /\ proc[p].pc = "select"
  /\ proc' = [proc EXCEPT ![p].pc = "update",
                ![p].dirty = Changed(profile[proc[p].w], proc[p].entity)]
  /\ UNCHANGED <<day, profile, funded, bonuses, changes, overlap>>

\* The handler took today's date when it read the row.
DatedToday(pr) == \/ pr.op = "toggle" /\ pr.entity.toggleDay = day
                  \/ pr.op = "rate" /\ pr.entity.rateDay = day

Update(p) ==
  LET w == proc[p].w IN
  /\ proc[p].pc = "update"
  /\ profile' = [profile EXCEPT ![w] = Updated(@, proc[p].entity, proc[p].dirty)]
  /\ changes' = IF DatedToday(proc[p])
                  THEN [changes EXCEPT ![proc[p].op][w] = @ + 1] ELSE changes
  /\ Done(p)
  /\ UNCHANGED <<day, funded, bonuses, overlap>>

\* A fee of another booking takes the balance below 12 rupees.
Spend(w) ==
  /\ funded[w]
  /\ funded' = [funded EXCEPT ![w] = FALSE]
  /\ UNCHANGED <<day, profile, bonuses, changes, overlap, proc>>

\* Midnight.  A handler in flight keeps the date it took when it read the row.
NextDay ==
  /\ day < LastDay
  /\ day' = day + 1
  /\ changes' = [op \in {"toggle", "rate"} |-> [w \in Workers |-> 0]]
  /\ UNCHANGED <<profile, funded, bonuses, overlap, proc>>

Init ==
  /\ day = 1
  /\ profile = [w \in Workers |-> NewProfile]
  /\ funded = [w \in Workers |-> FALSE]
  /\ bonuses = [w \in Workers |-> 0]
  /\ changes = [op \in {"toggle", "rate"} |-> [w \in Workers |-> 0]]
  /\ overlap = FALSE
  /\ proc = [p \in Procs |-> Idle]

Next ==
  \/ \E p \in Procs : \/ \E op \in Calls, w \in Workers : Call(p, op, w)
                      \/ ToggleGoLive(p) \/ CheckBalance(p) \/ UpdateHourlyRate(p)
                      \/ CompletionReadsProfile(p) \/ GrantBonus(p)
                      \/ SubmitRating(p) \/ Select(p) \/ Update(p)
  \/ \E w \in Workers : Spend(w)
  \/ NextDay

Spec == Init /\ [][Next]_vars

-----------------------------------------------------------------------------
TypeOK ==
  /\ day \in 1..LastDay
  /\ profile \in [Workers -> Profile]
  /\ funded \in [Workers -> BOOLEAN]
  /\ bonuses \in [Workers -> Nat]
  /\ changes \in [{"toggle", "rate"} -> [Workers -> Nat]]
  /\ overlap \in BOOLEAN
  /\ proc \in [Procs -> Proc]

\* The flag that makes the balance a condition of going live is never set
\* before the bonus is in the wallet, whichever handlers save the row around
\* verifyCompletionOtp.
FlagFollowsBonus == \A w \in Workers : profile[w].isFirstJobDone => bonuses[w] >= 1

Limited == \A w \in Workers : changes.toggle[w] <= Limit /\ changes.rate[w] <= Limit

\* As long as handlers ran one at a time the counters and their dates admit Limit
\* changes of each date, every day anew, also by handlers that began before midnight
\* and save after it.  (Toggles in flight together count as one,
\* and an old row saved over a newer one takes changes back.)
SerialLimit == ~ overlap => Limited

-----------------------------------------------------------------------------
(* What a comment says and the code does not do. *)

\* "Rate limited to 2/day" (workers.service.ts:190): toggles of one day that succeed
\* are never more than the limit.  Those in flight together count as one.
DailyLimit == \A w \in Workers : changes.toggle[w] <= Limit
=============================================================================
