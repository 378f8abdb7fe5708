------------------------------ MODULE Bookings ------------------------------
(***************************************************************************)
(* The booking lifecycle of the NestJS backend: the rows of the bookings   *)
(* table, the request handlers of BookingsController / BookingsService and *)
(* the Bull jobs of BookingsProcessor that read and write them, and what   *)
(* the same handlers keep in Redis (the polled status cache, the worker's  *)
(* list of pending requests, the worker's availability).                   *)
(*                                                                         *)
(* A handler is asynchronous: every await lets other handlers run.  A      *)
(* process of Procs is one handler in flight; it keeps the entity it read  *)
(* and saves it in the two statements of module TypeOrm, Select and Update *)
(* below: a column read long ago overwrites a newer value of the row.      *)
(***************************************************************************)
EXTENDS Integers, FiniteSets, Sequences, TypeOrm

CONSTANTS
  Bookings,     \* the bookings customers may create
  Workers,      \* the workers they are addressed to
  Operator,     \* Operator[b] is the worker booking b is addressed to
  ByWallet,     \* the bookings whose paymentMethod is WALLET, not DIRECT
  Procs,        \* the handlers that can be in flight at the same time
  Requests,     \* the endpoints the clients call and the jobs Bull runs
  None,         \* no booking, no lock holder, nothing cached
  MaxStrikes,   \* the strikes after which a booking is forfeited (3)
  RedisMayFail, \* TRUE when a Redis write may fail (RedisService swallows it)
  MaxRestarts   \* how many times the backend may restart (bounds the model)

Endpoints == {"create", "accept", "reject", "decline", "cancel", "arrival",
              "completion", "paid", "refresh", "rate", "poll", "list"}
Jobs == {"timeout", "gps"}

ASSUME OperatorAssumption == Operator \in [Bookings -> Workers]
ASSUME PaymentAssumption == ByWallet \subseteq Bookings
ASSUME RequestsAssumption == Requests \subseteq Endpoints \cup Jobs
ASSUME StrikesAssumption == MaxStrikes \in Nat \ {0}
ASSUME NoneAssumption == None \notin Bookings /\ None \notin Procs
ASSUME FlagsAssumption == RedisMayFail \in BOOLEAN /\ MaxRestarts \in Nat

(***************************************************************************)
(* Rows.  "NONE" is the status of a booking that does not exist yet.       *)
(* PENDING, CUSTOM_REQUESTED, CONFIRMED and ARRIVED are in the enumeration *)
(* but no handler stores them and no client sends them.                    *)
(***************************************************************************)
Statuses == {"REQUESTED", "ACCEPTED", "ACTIVE", "COMPLETED", "CANCELLED", "REJECTED"}

Row == [status  : Statuses \cup {"NONE"},
        strikes : Nat,       \* gpsStrikes
        started : BOOLEAN,   \* startedAt is set
        paid    : BOOLEAN,   \* isPaid
        rated   : BOOLEAN]   \* rating is set
Columns == {"status", "strikes", "started", "paid", "rated"}

NoRow  == [status |-> "NONE", strikes |-> 0, started |-> FALSE,
           paid |-> FALSE, rated |-> FALSE]
\* Mutant: the status column keeps its default.
NewRowDefault == [NoRow EXCEPT !.status = "PENDING"]
NewRow == [NoRow EXCEPT !.status = "REQUESTED"]

VARIABLES
  db,       \* the bookings table
  lock,     \* the handler whose transaction holds the row's FOR UPDATE lock
  proc,     \* the handlers in flight
  jobs,     \* the Bull jobs queued or running: <<job, booking>>
  cache,    \* Redis booking:status:<id>, what customers poll
  pending,  \* Redis worker:pending:<id>, the requests a worker is shown
  worker,   \* Redis worker:status:<id>
  fees,     \* platform fees asked of the wallet service for each booking
  restarts  \* restarts so far

redis == <<cache, pending, worker>>
vars  == <<db, lock, proc, jobs, cache, pending, worker, fees, restarts>>

PC == {"idle", "read", "reread", "insert", "select", "update",
       "select2", "update2", "commit", "effects"}

Proc == [op : Endpoints \cup Jobs \cup {"none"},
         b : Bookings \cup {None},
         pc : PC,
         base : Row,                 \* the entity as the handler read it
         dirty : SUBSET Columns,     \* the columns save() will update
         siblings : SUBSET Bookings, \* the other requests accept found
         k : Nat]                    \* the next side effect to run

Idle == [op |-> "none", b |-> None, pc |-> "idle", base |-> NoRow,
         dirty |-> {}, siblings |-> {}, k |-> 0]
Handler(op, b) == [Idle EXCEPT !.op = op, !.b = b, !.pc = "read"]

InFlight(op, b) == \E p \in Procs : proc[p].op = op /\ proc[p].b = b
At(p, op, pc) == proc[p].op = op /\ proc[p].pc = pc
Goto(p, pc) == proc' = [proc EXCEPT ![p].pc = pc]

Of(w) == {b \in Bookings : Operator[b] = w}
Siblings(b) == Of(Operator[b]) \ {b}

(***************************************************************************)
(* What each handler leaves in the entity it saves, given what it read.    *)
(***************************************************************************)
Status(row, s) == [row EXCEPT !.status = s]

\* Mutant: what nobody answered or the worker declined is offered again.
OutcomeReoffered(op) ==
  CASE op \in {"reject", "decline", "timeout"} -> "REQUESTED"
    [] op = "arrival"    -> "ACTIVE"
    [] op = "completion" -> "COMPLETED"
    [] OTHER             -> "CANCELLED"

Outcome(op) ==
  CASE op \in {"reject", "decline"} -> "REJECTED"
    [] op = "arrival"    -> "ACTIVE"
    [] op = "completion" -> "COMPLETED"
    [] OTHER             -> "CANCELLED"   \* cancel, timeout, gps

Arrived(row) == [row EXCEPT !.started = TRUE]
Settled(row, b) == IF b \in ByWallet THEN [row EXCEPT !.paid = TRUE] ELSE row

Entity(pr) ==
  LET decided == Status(pr.base, Outcome(pr.op)) IN
  CASE pr.op \in {"reject", "decline", "cancel", "timeout"} -> decided
    [] pr.op = "arrival"    -> Arrived(decided)
    [] pr.op = "completion" -> Settled(decided, pr.b)
    [] pr.op = "paid"       -> [pr.base EXCEPT !.paid = TRUE]
    [] pr.op = "rate"       -> [pr.base EXCEPT !.rated = TRUE]
    [] pr.op = "gps"        -> IF pr.pc \in {"select", "update"}
                                 THEN [pr.base EXCEPT !.strikes = @ + 1]
                                 ELSE decided
    [] OTHER                -> pr.base  \* refresh: the OTP is not modelled

(***************************************************************************)
(* The side effects a handler runs, in order, after its row is written.    *)
(***************************************************************************)
\* Mutant: the strikes are compared before this one is added.
ForfeitsLate(pr) == pr.base.strikes >= MaxStrikes

Forfeits(pr) == pr.base.strikes + 1 >= MaxStrikes

Script(pr) ==
  CASE pr.op = "create"     -> <<"queueTimeout", "pend", "cacheStatus">>
    [] pr.op = "accept"     -> <<"fee", "busy", "unpend", "cacheStatus", "siblings", "queueGps">>
    [] pr.op = "reject"     -> <<"unpend", "cacheStatus">>
    [] pr.op \in {"decline", "cancel", "timeout"} -> <<"cacheStatus", "unpend">>
    [] pr.op = "arrival"    -> <<"cacheStatus">>
    [] pr.op = "completion" -> <<"cacheStatus", "release">>
    [] pr.op = "gps"        -> IF Forfeits(pr) THEN <<"cacheStatus", "release">>
                                               ELSE <<"queueGps">>
    [] pr.op = "poll"       -> <<"cacheStatus">>
    [] pr.op = "list"       -> <<"refill">>
    [] OTHER             -> <<>>

Announced(pr) ==   \* the status the handler writes to the cache
  CASE pr.op = "create"            -> "REQUESTED"
    [] pr.op = "accept"            -> "ACCEPTED"
    [] pr.op = "poll"              -> pr.base.status
    [] pr.op = "gps"               -> "CANCELLED"
    [] OTHER                       -> Entity(pr).status

(***************************************************************************)
(* A handler returns or throws.  A running job leaves the queue.           *)
(***************************************************************************)
Finish(p) ==
  /\ proc' = [proc EXCEPT ![p] = Idle]
  /\ jobs' = jobs \ {<<proc[p].op, proc[p].b>>}

Load(p, pc) == proc' = [proc EXCEPT ![p].base = db[proc[p].b], ![p].pc = pc]
RunEffects(p) == proc' = [proc EXCEPT ![p].pc = "effects", ![p].k = 1,
                                      ![p].dirty = {}]

ReadIf(p, op, S) ==   \* findOne, throw unless the status is in S
  /\ At(p, op, "read")
  /\ IF db[proc[p].b].status \in S
       THEN Load(p, "select") /\ UNCHANGED jobs
       ELSE Finish(p)
  /\ UNCHANGED <<db, lock, redis, fees, restarts>>

-----------------------------------------------------------------------------
(***************************************************************************)
(* Clients.  A request reaches the backend while the sender's screen still *)
(* shows the state it is for; the booking may change before it is handled. *)
(* The waiting screen goes by the polled status, the others by the row.    *)
(***************************************************************************)
Polled(b) == IF cache[b] = None THEN db[b].status ELSE cache[b]

CustomerMayCancel(b) == /\ db[b].status # "NONE" /\ ~ InFlight("create", b)
                        /\ Polled(b) = "REQUESTED"
WorkerSees(b) == db[b].status # "NONE"

ClientMay(op, b) ==
  CASE op = "create" -> db[b].status = "NONE" /\ ~ InFlight("create", b)
    [] op \in {"accept", "reject", "decline"} -> WorkerSees(b)
    [] op = "cancel" -> CustomerMayCancel(b)
    [] op = "arrival" -> db[b].status = "ACCEPTED"
    [] op \in {"completion", "refresh"} -> db[b].status = "ACTIVE"
    [] op = "paid" -> db[b].status = "COMPLETED" /\ b \notin ByWallet
    [] op = "rate" -> db[b].status = "COMPLETED"
    [] OTHER -> db[b].status # "NONE"

Request(p, op, b) ==
  /\ proc[p] = Idle
  /\ ClientMay(op, b)
  /\ proc' = [proc EXCEPT ![p] = Handler(op, b)]
  /\ UNCHANGED <<db, lock, jobs, redis, fees, restarts>>

\* Bull runs one job of each named processor at a time.
StartJob(p, job, b) ==
  /\ proc[p] = Idle
  /\ <<job, b>> \in jobs
  /\ \A q \in Procs : proc[q].op # job
  /\ proc' = [proc EXCEPT ![p] = Handler(job, b)]
  /\ UNCHANGED <<db, lock, jobs, redis, fees, restarts>>

-----------------------------------------------------------------------------
(* createBooking: refuse while the worker is mid-job, insert the row. *)
CreateCheck(p) ==
  /\ At(p, "create", "read")
  /\ IF \E x \in Of(Operator[proc[p].b]) : db[x].status = "ACTIVE"
       THEN Finish(p)
       ELSE Goto(p, "insert") /\ UNCHANGED jobs
  /\ UNCHANGED <<db, lock, redis, fees, restarts>>

CreateInsert(p) ==
  /\ At(p, "create", "insert")
  /\ db' = [db EXCEPT ![proc[p].b] = NewRow]
  /\ RunEffects(p)
  /\ UNCHANGED <<lock, jobs, redis, fees, restarts>>

\* Mutant: the row lock is one that several transactions can hold.
AcceptLockShared(p) ==
  LET b == proc[p].b IN
  /\ At(p, "accept", "read")
  /\ IF db[b].status = "REQUESTED"
       THEN /\ lock' = [lock EXCEPT ![b] = p]
            /\ proc' = [proc EXCEPT ![p].pc = "commit", ![p].siblings = {}]
            /\ UNCHANGED jobs
       ELSE Finish(p) /\ UNCHANGED lock
  /\ UNCHANGED <<db, redis, fees, restarts>>

\* Mutant: the status is not checked under the lock.
AcceptLockUnchecked(p) ==
  LET b == proc[p].b IN
  /\ At(p, "accept", "read")
  /\ lock[b] = None
  /\ lock' = [lock EXCEPT ![b] = p]
  /\ proc' = [proc EXCEPT ![p].pc = "commit"]
  /\ UNCHANGED <<db, jobs, redis, fees, restarts>>

(* acceptBooking, the transaction: lock the row, check it, find the other  *)
(* requests of the worker; then cancel those by id and commit.  The new    *)
(* status is invisible to the others, and their updates of the row wait,   *)
(* until the commit.                                                       *)
AcceptLock(p) ==
  LET b == proc[p].b IN
  /\ At(p, "accept", "read")
  /\ lock[b] = None
  /\ IF db[b].status = "REQUESTED"
       THEN /\ lock' = [lock EXCEPT ![b] = p]
            /\ proc' = [proc EXCEPT ![p].pc = "commit",
                 ![p].siblings = {x \in Siblings(b) : db[x].status = "REQUESTED"}]
            /\ UNCHANGED jobs
       ELSE Finish(p) /\ UNCHANGED lock
  /\ UNCHANGED <<db, redis, fees, restarts>>

\* Mutant: the other requests are announced CANCELLED but not updated.
AcceptCommitAlone(p) ==
  /\ At(p, "accept", "commit")
  /\ db' = [db EXCEPT ![proc[p].b] = Status(@, "ACCEPTED")]
  /\ lock' = [lock EXCEPT ![proc[p].b] = None]
  /\ RunEffects(p)
  /\ UNCHANGED <<jobs, redis, fees, restarts>>

\* Mutant: the transaction is not ended.
AcceptCommitOpen(p) ==
  /\ At(p, "accept", "commit")
  /\ db' = [db EXCEPT ![proc[p].b] = Status(@, "ACCEPTED")]
  /\ RunEffects(p)
  /\ UNCHANGED <<lock, jobs, redis, fees, restarts>>

AcceptCommit(p) ==
  LET b == proc[p].b
      S == proc[p].siblings IN
  /\ At(p, "accept", "commit")
  /\ \A x \in S : lock[x] = None
  /\ db' = [x \in Bookings |-> IF x = b THEN Status(db[x], "ACCEPTED")
                               ELSE IF x \in S THEN Status(db[x], "CANCELLED")
                               ELSE db[x]]
  /\ lock' = [lock EXCEPT ![b] = None]
  /\ RunEffects(p)
  /\ UNCHANGED <<jobs, redis, fees, restarts>>

\* PostgreSQL aborts one of a set of transactions that wait for each other.
WaitsFor(p, q) == At(q, "accept", "commit") /\ proc[q].b \in proc[p].siblings
Deadlocked(p) == \E Q \in SUBSET Procs :
                    /\ p \in Q
                    /\ \A q \in Q : /\ At(q, "accept", "commit")
                                    /\ \E r \in Q : WaitsFor(q, r)
AcceptAbort(p) ==
  /\ At(p, "accept", "commit")
  /\ Deadlocked(p)
  /\ lock' = [lock EXCEPT ![proc[p].b] = None]
  /\ Finish(p)
  /\ UNCHANGED <<db, redis, fees, restarts>>

(* The other handlers read first, without a lock. *)
RejectBooking(p)       == ReadIf(p, "reject", {"REQUESTED"})
DeclineBooking(p)      == ReadIf(p, "decline", Statuses)  \* PATCH :id/status
CancelBooking(p)       == ReadIf(p, "cancel", Statuses)   \* PATCH :id/status
VerifyArrivalOtp(p)    == ReadIf(p, "arrival", Statuses)
VerifyCompletionOtp(p) == ReadIf(p, "completion", {"ACTIVE"})
MarkPaid(p)            == ReadIf(p, "paid", Statuses)
RefreshCompletionOtp(p) == ReadIf(p, "refresh", Statuses)
SubmitRating(p)        == ReadIf(p, "rate", {"COMPLETED"})

\* Mutant: the check is the wrong way round.
TimeoutCheckInverted(p) ==
  /\ At(p, "timeout", "read")
  /\ IF db[proc[p].b].status # "REQUESTED"
       THEN Goto(p, "reread") /\ UNCHANGED jobs
       ELSE Finish(p)
  /\ UNCHANGED <<db, lock, redis, fees, restarts>>

\* requestTimeout checks the status, then updateStatus reads the row again.
TimeoutCheck(p) ==
  /\ At(p, "timeout", "read")
  /\ IF db[proc[p].b].status = "REQUESTED"
       THEN Goto(p, "reread") /\ UNCHANGED jobs
       ELSE Finish(p)
  /\ UNCHANGED <<db, lock, redis, fees, restarts>>

TimeoutCancel(p) ==
  /\ At(p, "timeout", "reread")
  /\ Load(p, "select")
  /\ UNCHANGED <<db, lock, jobs, redis, fees, restarts>>

\* tenMinuteGpsCheck: the worker is near, or is not and gets a strike.
GpsCheck(p) ==
  /\ At(p, "gps", "read")
  /\ \/ db[proc[p].b].status = "ACCEPTED" /\ Goto(p, "reread") /\ UNCHANGED jobs
     \/ Finish(p)   \* not ACCEPTED any more, or within five kilometres
  /\ UNCHANGED <<db, lock, redis, fees, restarts>>

AddGpsStrike(p) ==
  /\ At(p, "gps", "reread")
  /\ IF db[proc[p].b].status = "ACCEPTED"
       THEN Load(p, "select") /\ UNCHANGED jobs
       ELSE Finish(p)
  /\ UNCHANGED <<db, lock, redis, fees, restarts>>

\* The poll of a customer: a cache hit changes nothing; a miss reads the row.
PollStatus(p) ==
  LET b == proc[p].b IN
  /\ At(p, "poll", "read")
  /\ IF cache[b] # None
       THEN Finish(p)
       ELSE /\ proc' = [proc EXCEPT ![p].base = db[b], ![p].pc = "effects", ![p].k = 1]
            /\ UNCHANGED jobs
  /\ UNCHANGED <<db, lock, redis, fees, restarts>>

\* findPendingForWorker: an empty list is refilled from the table.  b stands
\* for its worker.
FindPendingForWorker(p) ==
  LET w == Operator[proc[p].b] IN
  /\ At(p, "list", "read")
  /\ IF pending[w] # {}
       THEN Finish(p)
       ELSE /\ proc' = [proc EXCEPT ![p].pc = "effects", ![p].k = 1,
                 ![p].siblings = {x \in Of(w) : db[x].status = "REQUESTED"}]
            /\ UNCHANGED jobs
  /\ UNCHANGED <<db, lock, redis, fees, restarts>>

-----------------------------------------------------------------------------
(***************************************************************************)
(* repository.save(entity), in its two statements.                         *)
(***************************************************************************)
Select(p) ==
  /\ proc[p].pc \in {"select", "select2"}
  /\ proc' = [proc EXCEPT
       ![p].dirty = Changed(db[proc[p].b], Entity(proc[p])),
       ![p].pc = IF proc[p].pc = "select" THEN "update" ELSE "update2"]
  /\ UNCHANGED <<db, lock, jobs, redis, fees, restarts>>

Update(p) ==
  LET b == proc[p].b
      e == Entity(proc[p]) IN
  /\ proc[p].pc \in {"update", "update2"}
  /\ proc[p].dirty # {} => lock[b] = None   \* the UPDATE waits for the lock
  /\ db' = [db EXCEPT ![b] = Updated(@, e, proc[p].dirty)]
  /\ IF At(p, "gps", "update") /\ Forfeits(proc[p])   \* save() once more
       THEN /\ proc' = [proc EXCEPT ![p].pc = "select2", ![p].base = e, ![p].dirty = {}]
            /\ UNCHANGED jobs
       ELSE IF Script(proc[p]) = <<>> THEN Finish(p)
       ELSE RunEffects(p) /\ UNCHANGED jobs
  /\ UNCHANGED <<lock, redis, fees, restarts>>

-----------------------------------------------------------------------------
(***************************************************************************)
(* Side effects, one at a time.  A failed Redis write is logged only.      *)
(***************************************************************************)
NextEffect(p, e) ==   \* the handler's next side effect is e
  /\ proc[p].pc = "effects"
  /\ proc[p].k <= Len(Script(proc[p]))
  /\ Script(proc[p])[proc[p].k] = e

Advance(p) ==
  IF proc[p].k = Len(Script(proc[p]))
    THEN Finish(p)
    ELSE proc' = [proc EXCEPT ![p].k = @ + 1] /\ UNCHANGED jobs

\* A job that adds its own successor is replaced in the queue by it.  When the
\* queue cannot be reached createBooking and the job throw; acceptBooking logs it,
\* and this is its last side effect.
Enqueue(p, job, e) ==
  LET pr == proc[p] IN
  /\ NextEffect(p, e)
  /\ \/ /\ jobs' = jobs \cup {<<job, pr.b>>}
        /\ proc' = [proc EXCEPT ![p] = IF pr.k = Len(Script(pr)) THEN Idle
                                       ELSE [pr EXCEPT !.k = @ + 1]]
     \/ RedisMayFail /\ Finish(p)
  /\ UNCHANGED <<db, lock, redis, fees, restarts>>

QueueTimeout(p) == Enqueue(p, "timeout", "queueTimeout")
QueueGpsCheck(p) == Enqueue(p, "gps", "queueGps")

\* Mutant: the handler goes on without asking the fee.
DeductBookingFeeNever(p) ==
  /\ NextEffect(p, "fee")
  /\ Advance(p)
  /\ UNCHANGED <<db, lock, redis, fees, restarts>>

DeductBookingFee(p) ==
  /\ NextEffect(p, "fee")
  /\ fees' = [fees EXCEPT ![proc[p].b] = @ + 1]
  /\ Advance(p)
  /\ UNCHANGED <<db, lock, redis, restarts>>

CacheBookingStatus(p) ==
  /\ NextEffect(p, "cacheStatus")
  /\ \/ cache' = [cache EXCEPT ![proc[p].b] = Announced(proc[p])]
     \/ RedisMayFail /\ UNCHANGED cache
  /\ Advance(p)
  /\ UNCHANGED <<db, lock, pending, worker, fees, restarts>>

\* Mutant: the request takes the place of the list.
AddPendingBookingReplaces(p) ==
  LET w == Operator[proc[p].b] IN
  /\ NextEffect(p, "pend")
  /\ pending' = [pending EXCEPT ![w] = {proc[p].b}]
  /\ Advance(p)
  /\ UNCHANGED <<db, lock, cache, worker, fees, restarts>>

AddPendingBooking(p) ==
  LET w == Operator[proc[p].b] IN
  /\ NextEffect(p, "pend")
  /\ \/ pending' = [pending EXCEPT ![w] = @ \cup {proc[p].b}]
     \/ RedisMayFail /\ UNCHANGED pending
  /\ Advance(p)
  /\ UNCHANGED <<db, lock, cache, worker, fees, restarts>>

RemovePendingBooking(p) ==
  LET w == Operator[proc[p].b] IN
  /\ NextEffect(p, "unpend")
  /\ \/ pending' = [pending EXCEPT ![w] = @ \ {proc[p].b}]
     \/ RedisMayFail /\ UNCHANGED pending
  /\ Advance(p)
  /\ UNCHANGED <<db, lock, cache, worker, fees, restarts>>

SetWorkerStatus(p, e, s) ==
  /\ NextEffect(p, e)
  /\ \/ worker' = [worker EXCEPT ![Operator[proc[p].b]] = s]
     \/ RedisMayFail /\ UNCHANGED worker
  /\ Advance(p)
  /\ UNCHANGED <<db, lock, cache, pending, fees, restarts>>

MarkBusy(p)      == SetWorkerStatus(p, "busy", "busy")
ReleaseWorker(p) == SetWorkerStatus(p, "release", "available")

\* Each cancelled request leaves the list and is announced CANCELLED; what fails
\* for one of them is logged.
CancelOne(p, x) ==
  /\ proc' = [proc EXCEPT ![p].siblings = @ \ {x}]
  /\ \/ pending' = [pending EXCEPT ![Operator[x]] = @ \ {x}]
     \/ RedisMayFail /\ UNCHANGED pending
  /\ \/ cache' = [cache EXCEPT ![x] = "CANCELLED"]
     \/ RedisMayFail /\ UNCHANGED cache
  /\ UNCHANGED jobs

CancelSiblings(p) ==
  /\ NextEffect(p, "siblings")
  /\ \/ \E x \in proc[p].siblings : CancelOne(p, x)
     \/ proc[p].siblings = {} /\ Advance(p) /\ UNCHANGED <<cache, pending>>
  /\ UNCHANGED <<db, lock, worker, fees, restarts>>

\* The requests found in the table are added to the list one by one.
RefillOne(p, x) ==
  /\ proc' = [proc EXCEPT ![p].siblings = @ \ {x}]
  /\ \/ pending' = [pending EXCEPT ![Operator[x]] = @ \cup {x}]
     \/ RedisMayFail /\ UNCHANGED pending
  /\ UNCHANGED jobs

Refill(p) ==
  /\ NextEffect(p, "refill")
  /\ \/ \E x \in proc[p].siblings : RefillOne(p, x)
     \/ proc[p].siblings = {} /\ Advance(p) /\ UNCHANGED pending
  /\ UNCHANGED <<db, lock, cache, worker, fees, restarts>>

-----------------------------------------------------------------------------
\* worker:pending lives 120 seconds after the last request was added, longer
\* than the 90 seconds after which requestTimeout is due.
ExpirePending(w) ==
  /\ pending[w] # {}
  /\ \A b \in Of(w) : <<"timeout", b>> \notin jobs /\ ~ InFlight("create", b)
  /\ pending' = [pending EXCEPT ![w] = {}]
  /\ UNCHANGED <<db, lock, proc, jobs, cache, worker, fees, restarts>>

ExpireStatus(b) ==
  /\ cache[b] # None
  /\ cache' = [cache EXCEPT ![b] = None]
  /\ UNCHANGED <<db, lock, proc, jobs, pending, worker, fees, restarts>>

\* The backend restarts: handlers vanish, their transactions roll back, the
\* jobs they ran stall and are run again.
Crash ==
  /\ restarts < MaxRestarts
  /\ restarts' = restarts + 1
  /\ \E p \in Procs : proc[p] # Idle
  /\ proc' = [p \in Procs |-> Idle]
  /\ lock' = [b \in Bookings |-> None]
  /\ UNCHANGED <<db, jobs, redis, fees>>

-----------------------------------------------------------------------------
Init ==
  /\ db = [b \in Bookings |-> NoRow]
  /\ lock = [b \in Bookings |-> None]
  /\ proc = [p \in Procs |-> Idle]
  /\ jobs = {}
  /\ cache = [b \in Bookings |-> None]
  /\ pending = [w \in Workers |-> {}]
  /\ worker = [w \in Workers |-> "available"]
  /\ fees = [b \in Bookings |-> 0]
  /\ restarts = 0

Transaction(p) == AcceptLock(p) \/ AcceptCommit(p) \/ AcceptAbort(p)
Read(p) == \/ CreateCheck(p) \/ RejectBooking(p) \/ DeclineBooking(p)
           \/ CancelBooking(p) \/ VerifyArrivalOtp(p) \/ VerifyCompletionOtp(p)
           \/ MarkPaid(p) \/ RefreshCompletionOtp(p) \/ SubmitRating(p)
           \/ TimeoutCheck(p) \/ TimeoutCancel(p)
           \/ GpsCheck(p) \/ AddGpsStrike(p) \/ PollStatus(p)
           \/ FindPendingForWorker(p)
Save(p) == CreateInsert(p) \/ Select(p) \/ Update(p)
Effect(p) == \/ QueueTimeout(p) \/ QueueGpsCheck(p) \/ DeductBookingFee(p)
             \/ CacheBookingStatus(p) \/ AddPendingBooking(p)
             \/ RemovePendingBooking(p) \/ MarkBusy(p) \/ ReleaseWorker(p)
             \/ CancelSiblings(p) \/ Refill(p)
Step(p) == Transaction(p) \/ Read(p) \/ Save(p) \/ Effect(p)

RunJob(p) == \E job \in Jobs \cap Requests, b \in Bookings : StartJob(p, job, b)

Next ==
  \/ \E p \in Procs : Step(p) \/ RunJob(p)
  \/ \E p \in Procs, op \in Endpoints \cap Requests, b \in Bookings : Request(p, op, b)
  \/ \E w \in Workers : ExpirePending(w)
  \/ \E b \in Bookings : ExpireStatus(b)
  \/ Crash

Spec == Init /\ [][Next]_vars

\* Handlers and queued jobs make progress; clients and restarts need not.  The
\* lock of a row is queued for in PostgreSQL, so a statement that finds the row
\* free again and again gets its turn; and a job has a slot of its own in Bull,
\* which the clients' requests cannot keep taken as they can keep one of Procs.
Fairness == \A p \in Procs : WF_vars(Step(p)) /\ SF_vars(Update(p)) /\ SF_vars(RunJob(p))
FairSpec == Spec /\ Fairness

-----------------------------------------------------------------------------
(***************************************************************************)
(* Properties.                                                             *)
(***************************************************************************)
TypeOK ==
  /\ db \in [Bookings -> Row]
  /\ lock \in [Bookings -> Procs \cup {None}]
  /\ proc \in [Procs -> Proc]
  /\ jobs \subseteq Jobs \X Bookings
  /\ cache \in [Bookings -> Statuses \cup {"NONE", None}]
  /\ pending \in [Workers -> SUBSET Bookings]
  /\ worker \in [Workers -> {"available", "busy"}]
  /\ fees \in [Bookings -> Nat]
  /\ restarts \in Nat

\* What acceptBooking checked stays true until it commits: while its
\* transaction is open nobody, not even another acceptBooking that cancels the
\* booking as a sibling or a handler that saves an old entity, moves the row
\* from REQUESTED.
LockedRowIsRequested ==
  \A p \in Procs : At(p, "accept", "commit") =>
     /\ lock[proc[p].b] = p
     /\ db[proc[p].b].status = "REQUESTED"

\* However often the worker taps Accept, and whatever overwrites the row
\* afterwards, the platform fee of a booking is asked of the wallet once.
FeeOnce == \A b \in Bookings : fees[b] <= 1

\* The bookings whose fee acceptBooking is about to ask.
FeeDue(p) == proc[p].op = "accept" /\ proc[p].pc = "effects" /\ proc[p].k <= 1
Owed == {b \in Bookings : \E p \in Procs : FeeDue(p) /\ proc[p].b = b}

\* No job is done for free: whatever order the handlers save in, a booking that is
\* accepted, active or completed, or was paid, has its fee asked, or the
\* acceptBooking that will ask it is in flight; only a restart loses it.
JobsAreCharged ==
  \A b \in Bookings :
    db[b].status \in {"ACCEPTED", "ACTIVE", "COMPLETED"} \/ db[b].paid =>
      fees[b] = 1 \/ restarts > 0 \/ b \in Owed

\* A request that left REQUESTED is never offered again, although old entities
\* of it are saved at any time.
NeverRequestedAgain ==
  [][\A b \in Bookings : db[b].status \notin {"NONE", "REQUESTED"}
        => db'[b].status \notin {"NONE", "REQUESTED"}]_vars

Phase(s) == CASE s = "NONE"      -> "none"
              [] s = "REQUESTED" -> "asked"
              [] OTHER           -> "answered"

Offered == INSTANCE Offer WITH phase <- [b \in Bookings |-> Phase(db[b].status)],
                               owed <- Owed, charged <- fees

\* The handlers, with their unlocked reads, late saves and restarts, keep the
\* promise of module Offer: a booking is asked and answered once, taken only while
\* asked, and charged only after it was taken and once for that.
OfferKept == Offered!Spec

\* What a customer polls never runs ahead of the table: an answer is announced
\* only once it is stored, for the siblings that acceptBooking cancels too.
AnswersAreStored ==
  \A b \in Bookings : cache[b] \notin {None, "REQUESTED"}
                        => db[b].status \notin {"NONE", "REQUESTED"}

\* A worker who stays away is forfeited at the third strike; each restart of the
\* backend between the strike and the forfeit can cost one strike more.
StrikesBounded == \A b \in Bookings : db[b].strikes <= MaxStrikes + restarts

Quiet(w) == \A p \in Procs : proc[p].b = None \/ Operator[proc[p].b] # w

\* A request that is waiting is shown to its worker: GET /bookings/pending
\* returns the Redis list, or the table's requests when the list is empty, so a
\* waiting request may not be missing from a list that holds others.
WaitingRequestIsShown ==
  \A b \in Bookings :
    (db[b].status = "REQUESTED" /\ Quiet(Operator[b])) =>
       (pending[Operator[b]] = {} \/ b \in pending[Operator[b]])

\* A request does not wait for ever: it is answered, cancelled or timed out.
RequestIsDecided ==
  \A b \in Bookings : db[b].status = "REQUESTED" ~> db[b].status # "REQUESTED"

\* No row stays locked: acceptBooking's transactions that wait for each other
\* are broken up.
LocksAreReleased == \A b \in Bookings : lock[b] # None ~> lock[b] = None

-----------------------------------------------------------------------------
(* What a comment or a doc says and the code does not do. *)

\* bookings.processor.ts:115: the timeout cancels a booking only if it "is still
\* REQUESTED (no worker accepted yet)".
TimeoutSparesAccepted ==
  [][\A p \in Procs : At(p, "timeout", "update") /\ Update(p) =>
        db[proc[p].b].status \notin {"ACCEPTED", "ACTIVE", "COMPLETED"}]_vars

\* docs/BUSINESS_LOGIC_AND_ISSUES.md:327: verifyArrivalOtp "sets ACTIVE, records
\* startedAt", from which verifyCompletionOtp bills: a completed booking, or one paid
\* or rated after it, has its start.  A handler that read the row before the arrival
\* and saves it afterwards (cancel, decline, reject, timeout, GPS strike) takes it back.
DoneWasStarted ==
  \A b \in Bookings : db[b].status = "COMPLETED" \/ db[b].paid \/ db[b].rated
                        => db[b].started
=============================================================================
