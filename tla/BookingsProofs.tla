--------------------------- MODULE BookingsProofs ---------------------------
(***************************************************************************)
(* What TLAPS proves of module Bookings for every number of bookings,      *)
(* workers, handlers in flight, strikes and restarts: the invariant Inv of *)
(* locks, saves and fees; that the handlers implement module Offer; and,   *)
(* each with the invariant it needs beside Inv, that jobs are charged,     *)
(* polls answered after the table, strikes bounded and waiting requests    *)
(* shown.                                                                  *)
(***************************************************************************)
EXTENDS Bookings, TLAPS

Decided(s) == s \notin {"NONE", "REQUESTED"}

\* A handler in flight has a booking, which exists unless it is being created.
HandlerOk(v, rows) ==
  /\ v.op = "none" <=> v.pc = "idle"
  /\ v.pc # "idle" => v.b \in Bookings
  /\ v.pc = "effects" => v.k >= 1
  /\ v.op = "none" \/ (v.op = "create" /\ v.pc \in {"read", "insert"})
       \/ rows[v.b].status # "NONE"
  /\ \A x \in v.siblings : rows[x].status # "NONE"
HandlerInv == \A p \in Procs : HandlerOk(proc[p], db)

JobInv == \A j \in jobs : db[j[2]].status # "NONE"

Creating(p) == proc[p].op = "create" /\ proc[p].pc \in {"read", "insert"}

\* One handler at most is creating a booking, and the row is not there yet.
CreateInv ==
  \A p \in Procs : Creating(p) =>
    /\ db[proc[p].b].status = "NONE"
    /\ \A q \in Procs : proc[q].op = "create" /\ proc[q].b = proc[p].b => q = p

Owns(v, b) == v.op = "accept" /\ v.pc = "commit" /\ v.b = b

\* The lock of a row is held by the transaction that found it REQUESTED.
LockInv ==
  /\ LockedRowIsRequested
  /\ \A b \in Bookings : lock[b] # None =>
       Owns(proc[lock[b]], b)

\* An entity that is being saved has left REQUESTED, as has the row that
\* markPaid, refreshCompletionOtp and submitRating were called for.
Saving(p) == proc[p].pc \in {"select", "update", "select2", "update2"}
SaveInv ==
  \A p \in Procs :
    /\ Saving(p) => /\ Decided(Entity(proc[p]).status)
                    /\ proc[p].op # "accept"
    /\ proc[p].op \in {"paid", "refresh", "rate"} => Decided(db[proc[p].b].status)

\* The fee is asked by the handler that decided the booking, as its first side
\* effect, or it has been asked, or nobody is going to ask it.
FeeInv ==
  /\ \A b \in Bookings : fees[b] # 0 => fees[b] = 1 /\ Decided(db[b].status)
  /\ \A p \in Procs : FeeDue(p) =>
       /\ fees[proc[p].b] = 0
       /\ Decided(db[proc[p].b].status)
       /\ \A q \in Procs : FeeDue(q) /\ proc[q].b = proc[p].b => q = p

Inv == /\ TypeOK /\ HandlerInv /\ JobInv /\ CreateInv /\ LockInv /\ SaveInv /\ FeeInv

-----------------------------------------------------------------------------
\* What a handler saves is a row.
LEMMA EntityIsRow ==
  ASSUME NEW pr \in Proc PROVE Entity(pr) \in Row
<1>1. pr.base \in Row
  BY DEF Proc
<1>2. ASSUME NEW s \in Statuses PROVE Status(pr.base, s) \in Row
  BY <1>1 DEF Status, Row
<1>3. Outcome(pr.op) \in Statuses
  BY DEF Outcome, Statuses
<1>4. Status(pr.base, Outcome(pr.op)) \in Row
  BY <1>2, <1>3
<1>5. ASSUME NEW row \in Row PROVE Arrived(row) \in Row /\ Settled(row, pr.b) \in Row
  BY DEF Arrived, Settled, Row
<1>6. [pr.base EXCEPT !.strikes = @ + 1] \in Row
  BY <1>1 DEF Row
<1>7. [pr.base EXCEPT !.paid = TRUE] \in Row /\ [pr.base EXCEPT !.rated = TRUE] \in Row
  BY <1>1 DEF Row
<1>q. QED BY <1>1, <1>4, <1>5, <1>6, <1>7 DEF Entity

\* An UPDATE leaves a row, with the stored status or the entity's; one of no
\* columns leaves the row as it was.
LEMMA UpdatedIsRow ==
  ASSUME NEW row \in Row, NEW e \in Row, NEW cols
  PROVE  /\ Updated(row, e, cols) \in Row
         /\ Updated(row, e, cols).status \in {row.status, e.status}
         /\ cols = {} => Updated(row, e, cols) = row
BY DEF Row, Updated

\* No handler in flight is a legal value of proc.
LEMMA IdleIsProc == Idle \in Proc
BY DEF Idle, Proc, NoRow, Row, PC, Statuses

\* What is written to the cache is a status.
LEMMA AnnouncedIsStatus ==
  ASSUME NEW pr \in Proc PROVE Announced(pr) \in Statuses \cup {"NONE"}
BY EntityIsRow DEF Announced, Proc, Row, Statuses

\* The types survive a handler's return,
LEMMA FinishTyped ==
  ASSUME TypeOK, NEW p \in Procs, Finish(p)
  PROVE  proc' \in [Procs -> Proc] /\ jobs' \subseteq Jobs \X Bookings
BY IdleIsProc DEF TypeOK, Finish

\* a side effect,
LEMMA EffectType ==
  ASSUME TypeOK, HandlerInv, NEW p \in Procs, Effect(p)
  PROVE  TypeOK'
<1> USE OperatorAssumption
<1>1. proc[p] \in Proc /\ proc[p].b \in Bookings
  BY DEF TypeOK, HandlerInv, HandlerOk, Effect, QueueTimeout, QueueGpsCheck, Enqueue, DeductBookingFee,
     CacheBookingStatus, AddPendingBooking, RemovePendingBooking, MarkBusy, ReleaseWorker,
     SetWorkerStatus, CancelSiblings, Refill, NextEffect
<1>2. ASSUME Advance(p) PROVE proc' \in [Procs -> Proc] /\ jobs' \subseteq Jobs \X Bookings
  <2>1. CASE Finish(p)
    BY <2>1, FinishTyped
  <2>2. CASE proc' = [proc EXCEPT ![p].k = @ + 1] /\ UNCHANGED jobs
    <3>1. [proc[p] EXCEPT !.k = @ + 1] \in Proc
      BY <1>1 DEF Proc
    <3>2. proc' = [proc EXCEPT ![p] = [proc[p] EXCEPT !.k = @ + 1]]
      BY <2>2
    <3>q. QED BY <2>2, <3>1, <3>2 DEF TypeOK
  <2>q. QED BY <1>2, <2>1, <2>2 DEF Advance
<1>t. ASSUME NEW x PROVE [proc EXCEPT ![p].siblings = @ \ {x}] \in [Procs -> Proc]
  BY <1>1 DEF TypeOK, Proc
<1>3. CASE QueueTimeout(p) \/ QueueGpsCheck(p)
  <2> DEFINE next == IF proc[p].k = Len(Script(proc[p])) THEN Idle
                     ELSE [proc[p] EXCEPT !.k = @ + 1]
  <2>1. PICK job \in Jobs :
          /\ \/ jobs' = jobs \cup {<<job, proc[p].b>>} /\ proc' = [proc EXCEPT ![p] = next]
             \/ Finish(p)
          /\ UNCHANGED <<db, lock, redis, fees, restarts>>
    BY <1>3 DEF QueueTimeout, QueueGpsCheck, Enqueue, Jobs
  <2>2. next \in Proc
    <3>1. [proc[p] EXCEPT !.k = @ + 1] \in Proc
      BY <1>1 DEF Proc
    <3>q. QED BY <3>1, IdleIsProc
  <2>3. proc' \in [Procs -> Proc]
    BY <2>1, <2>2, FinishTyped DEF TypeOK
  <2>4. jobs' \subseteq Jobs \X Bookings
    BY <1>1, <2>1, FinishTyped DEF TypeOK
  <2>q. QED BY <2>1, <2>3, <2>4 DEF TypeOK, redis
<1>4. CASE DeductBookingFee(p)
  BY <1>1, <1>2, <1>4 DEF DeductBookingFee, TypeOK, redis
<1>5. CASE CacheBookingStatus(p)
  BY <1>1, <1>2, <1>5, AnnouncedIsStatus DEF CacheBookingStatus, TypeOK
<1>6. CASE AddPendingBooking(p) \/ RemovePendingBooking(p)
  BY <1>1, <1>2, <1>6 DEF AddPendingBooking, RemovePendingBooking, TypeOK
<1>7. CASE MarkBusy(p) \/ ReleaseWorker(p)
  BY <1>1, <1>2, <1>7 DEF MarkBusy, ReleaseWorker, SetWorkerStatus, TypeOK
<1>8. CASE CancelSiblings(p)
  <2>1. CASE Advance(p) /\ UNCHANGED <<cache, pending>>
    BY <1>2, <1>8, <2>1 DEF CancelSiblings, TypeOK
  <2>2. ASSUME NEW x \in proc[p].siblings, CancelOne(p, x) PROVE TypeOK'
    <3>1. x \in Bookings
      BY <1>1 DEF Proc
    <3>2. proc' \in [Procs -> Proc]
      BY <1>t, <2>2 DEF CancelOne
    <3>3. pending' \in [Workers -> SUBSET Bookings]
      BY <2>2, <3>1 DEF CancelOne, TypeOK
    <3>4. cache' \in [Bookings -> Statuses \cup {"NONE", None}]
      BY <2>2, <3>1 DEF CancelOne, TypeOK, Statuses
    <3>q. QED BY <1>8, <2>2, <3>2, <3>3, <3>4 DEF CancelSiblings, CancelOne, TypeOK
  <2>q. QED BY <1>8, <2>1, <2>2 DEF CancelSiblings
<1>9. CASE Refill(p)
  <2>1. CASE Advance(p) /\ UNCHANGED pending
    BY <1>2, <1>9, <2>1 DEF Refill, TypeOK
  <2>2. ASSUME NEW x \in proc[p].siblings, RefillOne(p, x) PROVE TypeOK'
    <3>1. x \in Bookings
      BY <1>1 DEF Proc
    <3>2. proc' \in [Procs -> Proc]
      BY <1>t, <2>2 DEF RefillOne
    <3>3. pending' \in [Workers -> SUBSET Bookings]
      BY <2>2, <3>1 DEF RefillOne, TypeOK
    <3>q. QED BY <1>9, <2>2, <3>2, <3>3 DEF Refill, RefillOne, TypeOK
  <2>q. QED BY <1>9, <2>1, <2>2 DEF Refill
<1>q. QED BY <1>3, <1>4, <1>5, <1>6, <1>7, <1>8, <1>9 DEF Effect

\* the reading of an entity,
LEMMA LoadTyped ==
  ASSUME TypeOK, NEW p \in Procs, proc[p].b \in Bookings, NEW pc \in PC, Load(p, pc)
  PROVE  proc' \in [Procs -> Proc]
<1>1. proc[p] \in Proc /\ db[proc[p].b] \in Row
  BY DEF TypeOK
<1>2. [proc[p] EXCEPT !.base = db[proc[p].b], !.pc = pc] \in Proc
  BY <1>1 DEF Proc
<1>3. proc' = [proc EXCEPT ![p] = [proc[p] EXCEPT !.base = db[proc[p].b], !.pc = pc]]
  BY <1>1 DEF Load, TypeOK, Proc
<1>q. QED BY <1>2, <1>3 DEF TypeOK

\* a step to the next statement,
LEMMA GotoTyped ==
  ASSUME TypeOK, NEW p \in Procs, NEW pc \in PC, Goto(p, pc)
  PROVE  proc' \in [Procs -> Proc]
<1>1. proc[p] \in Proc
  BY DEF TypeOK
<1>2. [proc[p] EXCEPT !.pc = pc] \in Proc
  BY <1>1 DEF Proc
<1>q. QED BY <1>2 DEF Goto, TypeOK

\* the start of the side effects,
LEMMA RunEffectsTyped ==
  ASSUME TypeOK, NEW p \in Procs, RunEffects(p)
  PROVE  proc' \in [Procs -> Proc]
<1>1. proc[p] \in Proc
  BY DEF TypeOK
<1>2. [proc[p] EXCEPT !.pc = "effects", !.k = 1, !.dirty = {}] \in Proc
  BY <1>1 DEF Proc, PC
<1>3. proc' = [proc EXCEPT ![p] = [proc[p] EXCEPT !.pc = "effects", !.k = 1, !.dirty = {}]]
  BY <1>1 DEF RunEffects, TypeOK, Proc
<1>q. QED BY <1>2, <1>3 DEF TypeOK

\* each handler's reads,
LEMMA ReadType ==
  ASSUME TypeOK, HandlerInv, NEW p \in Procs, Read(p)
  PROVE  TypeOK'
<1>1. proc[p] \in Proc /\ proc[p].b \in Bookings
  BY DEF TypeOK, HandlerInv, HandlerOk, Read, At, CreateCheck, ReadIf, RejectBooking, DeclineBooking, CancelBooking,
     VerifyArrivalOtp, VerifyCompletionOtp, MarkPaid, RefreshCompletionOtp, SubmitRating,
     TimeoutCheck, TimeoutCancel, GpsCheck, AddGpsStrike, PollStatus, FindPendingForWorker
<1>2. {"insert", "select", "reread"} \subseteq PC
  BY DEF PC
<1>3. CASE CreateCheck(p)
  BY <1>1, <1>2, <1>3, FinishTyped, GotoTyped DEF CreateCheck, TypeOK, redis
<1>4. ASSUME NEW op, NEW S, ReadIf(p, op, S) PROVE TypeOK'
  BY <1>1, <1>2, <1>4, FinishTyped, LoadTyped DEF ReadIf, TypeOK, redis
<1>5. CASE TimeoutCheck(p)
  BY <1>1, <1>2, <1>5, FinishTyped, GotoTyped DEF TimeoutCheck, TypeOK, redis
<1>6. CASE TimeoutCancel(p)
  BY <1>1, <1>2, <1>6, LoadTyped DEF TimeoutCancel, TypeOK, redis
<1>7. CASE GpsCheck(p)
  BY <1>1, <1>2, <1>7, FinishTyped, GotoTyped DEF GpsCheck, TypeOK, redis
<1>8. CASE AddGpsStrike(p)
  BY <1>1, <1>2, <1>8, FinishTyped, LoadTyped DEF AddGpsStrike, TypeOK, redis
<1>9. CASE PollStatus(p)
  <2>1. CASE Finish(p)
    BY <1>9, <2>1, FinishTyped DEF PollStatus, TypeOK, redis
  <2>2. CASE ~ Finish(p)
    <3>1. [proc[p] EXCEPT !.base = db[proc[p].b], !.pc = "effects", !.k = 1] \in Proc
      BY <1>1 DEF TypeOK, Proc, PC
    <3>2. proc' = [proc EXCEPT ![p] =
             [proc[p] EXCEPT !.base = db[proc[p].b], !.pc = "effects", !.k = 1]]
      BY <1>1, <1>9, <2>2 DEF PollStatus, TypeOK, Proc
    <3>q. QED BY <1>9, <2>2, <3>1, <3>2 DEF PollStatus, TypeOK, redis
  <2>q. QED BY <2>1, <2>2
<1>10. CASE FindPendingForWorker(p)
  <2> DEFINE S == {x \in Of(Operator[proc[p].b]) : db[x].status = "REQUESTED"}
  <2>1. CASE Finish(p)
    BY <1>10, <2>1, FinishTyped DEF FindPendingForWorker, TypeOK, redis
  <2>2. CASE ~ Finish(p)
    <3>1. [proc[p] EXCEPT !.pc = "effects", !.k = 1, !.siblings = S] \in Proc
      BY <1>1 DEF Proc, PC, Of
    <3>2. proc' = [proc EXCEPT ![p] =
             [proc[p] EXCEPT !.pc = "effects", !.k = 1, !.siblings = S]]
      BY <1>1, <1>10, <2>2 DEF FindPendingForWorker, TypeOK, Proc
    <3>q. QED BY <1>10, <2>2, <3>1, <3>2 DEF FindPendingForWorker, TypeOK, redis
  <2>q. QED BY <2>1, <2>2
<1>q. QED
  BY <1>3, <1>4, <1>5, <1>6, <1>7, <1>8, <1>9, <1>10
  DEF Read, RejectBooking, DeclineBooking, CancelBooking, VerifyArrivalOtp, VerifyCompletionOtp, MarkPaid,
      RefreshCompletionOtp, SubmitRating

\* each statement of acceptBooking's transaction,
LEMMA TransactionType ==
  ASSUME TypeOK, HandlerInv, NEW p \in Procs, Transaction(p)
  PROVE  TypeOK'
<1>1. proc[p] \in Proc /\ proc[p].b \in Bookings /\ proc[p].siblings \in SUBSET Bookings
  BY DEF TypeOK, HandlerInv, HandlerOk, Transaction, AcceptLock, AcceptCommit, AcceptAbort, At, Proc
<1>2. CASE AcceptLock(p)
  <2> DEFINE S == {x \in Siblings(proc[p].b) : db[x].status = "REQUESTED"}
  <2>1. CASE db[proc[p].b].status = "REQUESTED"
    <3>1. [proc[p] EXCEPT !.pc = "commit", !.siblings = S] \in Proc
      BY <1>1 DEF Proc, PC, Siblings, Of
    <3>2. proc' = [proc EXCEPT ![p] = [proc[p] EXCEPT !.pc = "commit", !.siblings = S]]
      BY <1>1, <1>2, <2>1 DEF AcceptLock, TypeOK, Proc
    <3>q. QED BY <1>1, <1>2, <2>1, <3>1, <3>2 DEF AcceptLock, TypeOK, redis
  <2>2. CASE db[proc[p].b].status # "REQUESTED"
    BY <1>2, <2>2, FinishTyped DEF AcceptLock, TypeOK, redis
  <2>q. QED BY <2>1, <2>2
<1>3. CASE AcceptCommit(p)
  <2>1. \A x \in Bookings, s \in Statuses : Status(db[x], s) \in Row
    BY DEF TypeOK, Status, Row
  <2>2. db' \in [Bookings -> Row]
    BY <1>3, <2>1 DEF AcceptCommit, TypeOK, Statuses
  <2>q. QED BY <1>1, <1>3, <2>2, RunEffectsTyped DEF AcceptCommit, TypeOK, redis
<1>4. CASE AcceptAbort(p)
  BY <1>1, <1>4, FinishTyped DEF AcceptAbort, TypeOK, redis
<1>q. QED BY <1>2, <1>3, <1>4 DEF Transaction

\* the insert and both statements of save(),
LEMMA SaveType ==
  ASSUME TypeOK, HandlerInv, NEW p \in Procs, Save(p)
  PROVE  TypeOK'
<1>1. proc[p] \in Proc /\ proc[p].b \in Bookings /\ db[proc[p].b] \in Row
  BY DEF TypeOK, HandlerInv, HandlerOk, Save, CreateInsert, Select, Update, At
<1>2. Entity(proc[p]) \in Row
  BY <1>1, EntityIsRow
<1>3. CASE CreateInsert(p)
  <2>1. NewRow \in Row
    BY DEF NewRow, NoRow, Row, Statuses
  <2>q. QED BY <1>1, <1>3, <2>1, RunEffectsTyped DEF CreateInsert, TypeOK, redis
<1>4. CASE Select(p)
  <2> DEFINE cols == Changed(db[proc[p].b], Entity(proc[p]))
             pc == IF proc[p].pc = "select" THEN "update" ELSE "update2"
  <2>1. cols \subseteq Columns
    BY <1>1 DEF Changed, Row, Columns
  <2>2. pc \in PC
    BY DEF PC
  <2>3. [proc[p] EXCEPT !.dirty = cols, !.pc = pc] \in Proc
    <3> HIDE DEF cols, pc
    <3>q. QED BY <1>1, <2>1, <2>2 DEF Proc
  <2>4. proc' = [proc EXCEPT ![p] = [proc[p] EXCEPT !.dirty = cols, !.pc = pc]]
    BY <1>1, <1>4 DEF Select, TypeOK, Proc
  <2>q. QED BY <1>4, <2>3, <2>4 DEF Select, TypeOK, redis
<1>5. CASE Update(p)
  <2>1. db' \in [Bookings -> Row]
    BY <1>1, <1>2, <1>5, UpdatedIsRow DEF Update, TypeOK
  <2>2. proc' \in [Procs -> Proc] /\ jobs' \subseteq Jobs \X Bookings
    <3>1. CASE At(p, "gps", "update") /\ Forfeits(proc[p])
      <4>1. [proc[p] EXCEPT !.pc = "select2", !.base = Entity(proc[p]), !.dirty = {}] \in Proc
        BY <1>1, <1>2 DEF Proc, PC
      <4>2. proc' = [proc EXCEPT ![p] =
               [proc[p] EXCEPT !.pc = "select2", !.base = Entity(proc[p]), !.dirty = {}]]
        BY <1>1, <1>5, <3>1 DEF Update, TypeOK, Proc
      <4>q. QED BY <1>5, <3>1, <4>1, <4>2 DEF Update, TypeOK
    <3>2. CASE ~ (At(p, "gps", "update") /\ Forfeits(proc[p]))
      BY <1>5, <3>2, FinishTyped, RunEffectsTyped DEF Update, TypeOK
    <3>q. QED BY <3>1, <3>2
  <2>q. QED BY <1>5, <2>1, <2>2 DEF Update, TypeOK, redis
<1>q. QED BY <1>3, <1>4, <1>5 DEF Save

\* A handler that has just begun is a legal value of proc.
LEMMA HandlerIsProc ==
  ASSUME NEW op \in Endpoints \cup Jobs, NEW b \in Bookings
  PROVE  Handler(op, b) \in Proc
BY DEF Handler, Idle, Proc, PC, NoRow, Row, Statuses

\* The types survive requests, jobs, expiries and restarts.
LEMMA EnvironmentType ==
  ASSUME TypeOK, HandlerInv,
         \/ \E p \in Procs : RunJob(p)
         \/ \E p \in Procs, op \in Endpoints \cap Requests, b \in Bookings : Request(p, op, b)
         \/ \E w \in Workers : ExpirePending(w)
         \/ \E b \in Bookings : ExpireStatus(b)
         \/ Crash
         \/ UNCHANGED vars
  PROVE  TypeOK'
<1>1. ASSUME NEW p \in Procs, RunJob(p) PROVE TypeOK'
  BY <1>1, HandlerIsProc DEF RunJob, StartJob, TypeOK, redis
<1>2. ASSUME NEW p \in Procs, NEW op \in Endpoints \cap Requests, NEW b \in Bookings,
             Request(p, op, b)
      PROVE  TypeOK'
  BY <1>2, HandlerIsProc DEF Request, TypeOK, redis
<1>3. ASSUME NEW w \in Workers, ExpirePending(w) PROVE TypeOK'
  BY <1>3 DEF ExpirePending, TypeOK
<1>4. ASSUME NEW b \in Bookings, ExpireStatus(b) PROVE TypeOK'
  BY <1>4 DEF ExpireStatus, TypeOK
<1>5. CASE Crash
  BY <1>5, IdleIsProc DEF Crash, TypeOK, redis
<1>6. CASE UNCHANGED vars
  BY <1>6 DEF vars, redis, TypeOK
<1>q. QED BY <1>1, <1>2, <1>3, <1>4, <1>5, <1>6

\* Every step keeps the types.
LEMMA TypeStep ==
  ASSUME TypeOK, HandlerInv, [Next]_vars PROVE TypeOK'
BY EffectType, ReadType, TransactionType, SaveType, EnvironmentType DEF Next, Step

-----------------------------------------------------------------------------
(***************************************************************************)
(* What the steps of a handler do to the state, for the other invariants.  *)
(***************************************************************************)
Same(p) == proc'[p].op = proc[p].op /\ proc'[p].b = proc[p].b
Alone(p) == \A q \in Procs : q # p => proc'[q] = proc[q]

\* Shapes: what the invariant needs to know of each action.  Advance ends the
\* handler or moves it to its next side effect.
LEMMA AdvanceShape ==
  ASSUME TypeOK, NEW p \in Procs, Advance(p)
  PROVE  /\ Alone(p)
         /\ jobs' \subseteq jobs
         /\ \/ proc'[p] = Idle
            \/ proc'[p] = [proc[p] EXCEPT !.k = @ + 1]
<1>1. proc \in [Procs -> Proc] /\ proc[p] \in Proc
  BY DEF TypeOK
<1>2. CASE Finish(p)
  BY <1>1, <1>2 DEF Finish, Alone
<1>3. CASE proc' = [proc EXCEPT ![p].k = @ + 1] /\ UNCHANGED jobs
  BY <1>1, <1>3 DEF Alone
<1>q. QED BY <1>2, <1>3 DEF Advance

\* A side effect leaves the table alone and asks a fee only where the script
\* of the handler says so.
LEMMA EffectShape ==
  ASSUME TypeOK, HandlerInv, NEW p \in Procs, Effect(p)
  PROVE  /\ UNCHANGED <<db, lock>>
         /\ proc[p].pc = "effects"
         /\ Alone(p)
         /\ \/ proc'[p] = Idle
            \/ /\ Same(p)
               /\ proc'[p].pc = "effects"
               /\ proc'[p].base = proc[p].base
               /\ proc'[p].siblings \subseteq proc[p].siblings
               /\ proc'[p].k \in {proc[p].k, proc[p].k + 1}
         /\ jobs' \subseteq jobs \cup {<<job, proc[p].b>> : job \in Jobs}
         /\ \/ fees' = fees
            \/ /\ NextEffect(p, "fee")
               /\ fees' = [fees EXCEPT ![proc[p].b] = @ + 1]
               /\ proc'[p] = Idle \/ proc'[p].k = proc[p].k + 1
<1>1. proc \in [Procs -> Proc] /\ proc[p] \in Proc
  BY DEF TypeOK
<1>2. CASE QueueTimeout(p) \/ QueueGpsCheck(p)
  <2> DEFINE next == IF proc[p].k = Len(Script(proc[p])) THEN Idle
                     ELSE [proc[p] EXCEPT !.k = @ + 1]
  <2>1. PICK job \in Jobs :
          /\ proc[p].pc = "effects"
          /\ \/ jobs' = jobs \cup {<<job, proc[p].b>>} /\ proc' = [proc EXCEPT ![p] = next]
             \/ Finish(p)
          /\ UNCHANGED <<db, lock, fees>>
    BY <1>2 DEF QueueTimeout, QueueGpsCheck, Enqueue, NextEffect, Jobs
  <2>2. CASE Finish(p)
    BY <1>1, <2>1, <2>2 DEF Finish, Alone
  <2>3. CASE ~ Finish(p)
    <3>1. Alone(p) /\ proc'[p] = next
      BY <1>1, <2>1, <2>3 DEF Alone
    <3>2. proc'[p] = Idle \/ proc'[p] = [proc[p] EXCEPT !.k = @ + 1]
      BY <3>1
    <3>q. QED BY <1>1, <2>1, <2>3, <3>1, <3>2 DEF Same, Proc
  <2>q. QED BY <2>2, <2>3
<1>3. CASE DeductBookingFee(p)
  <2>1. /\ NextEffect(p, "fee") /\ Advance(p)
        /\ fees' = [fees EXCEPT ![proc[p].b] = @ + 1]
        /\ UNCHANGED <<db, lock>>
    BY <1>3 DEF DeductBookingFee
  <2>q. QED BY <1>1, <2>1, AdvanceShape DEF NextEffect, Same, Proc
<1>4. CASE \/ CacheBookingStatus(p) \/ AddPendingBooking(p) \/ RemovePendingBooking(p)
           \/ MarkBusy(p) \/ ReleaseWorker(p)
  <2>1. proc[p].pc = "effects" /\ Advance(p) /\ UNCHANGED <<db, lock, fees>>
    BY <1>4 DEF CacheBookingStatus, AddPendingBooking, RemovePendingBooking, MarkBusy,
       ReleaseWorker, SetWorkerStatus, NextEffect
  <2>q. QED BY <1>1, <2>1, AdvanceShape DEF Same, Proc
<1>5. CASE CancelSiblings(p) \/ Refill(p)
  <2>1. proc[p].pc = "effects" /\ UNCHANGED <<db, lock, fees>>
    BY <1>5 DEF CancelSiblings, Refill, NextEffect
  <2>2. CASE Advance(p)
    BY <1>1, <2>1, <2>2, AdvanceShape DEF Same, Proc
  <2>3. CASE ~ Advance(p)
    <3>1. PICK x : proc' = [proc EXCEPT ![p].siblings = @ \ {x}] /\ UNCHANGED jobs
      BY <1>5, <2>3 DEF CancelSiblings, Refill, CancelOne, RefillOne
    <3>q. QED BY <1>1, <2>1, <3>1 DEF Same, Alone, Proc
  <2>q. QED BY <2>2, <2>3
<1>q. QED BY <1>2, <1>3, <1>4, <1>5 DEF Effect

Readers == {"reject", "decline", "cancel", "arrival", "completion", "paid", "refresh", "rate",
            "timeout", "gps"}

\* A read ends the handler, passes it on, or keeps the entity it found; it
\* writes nothing.
LEMMA ReadShape ==
  ASSUME TypeOK, HandlerInv, NEW p \in Procs, Read(p)
  PROVE  /\ UNCHANGED <<db, lock, fees>>
         /\ proc[p].pc \in {"read", "reread"}
         /\ Alone(p)
         /\ jobs' \subseteq jobs
         /\ \/ proc'[p] = Idle
            \/ /\ Same(p)
               /\ proc[p].op # "accept"
               /\ proc'[p].pc \in {"insert", "reread", "select", "effects"}
               /\ proc'[p].pc = "insert" => proc[p].op = "create"
               /\ proc[p].op = "create" => proc[p].pc = "read" /\ proc'[p].pc = "insert"
               /\ proc'[p].pc = "select" =>
                    /\ proc[p].op \in Readers
                    /\ proc'[p].base = db[proc[p].b]
                    /\ proc[p].op = "gps" => db[proc[p].b].status = "ACCEPTED"
               /\ proc'[p].pc = "effects" => proc'[p].k = 1
               /\ \A x \in proc'[p].siblings :
                    x \in proc[p].siblings \/ db[x].status = "REQUESTED"
<1>1. proc \in [Procs -> Proc] /\ proc[p] \in Proc
  BY DEF TypeOK
<1>2. ASSUME Finish(p) PROVE Alone(p) /\ jobs' \subseteq jobs /\ proc'[p] = Idle
  BY <1>1, <1>2 DEF Finish, Alone
<1>3. ASSUME NEW pc, Goto(p, pc)
      PROVE  /\ Alone(p) /\ Same(p) /\ proc'[p].pc = pc
             /\ proc'[p].siblings = proc[p].siblings
  BY <1>1, <1>3 DEF Goto, Alone, Same, Proc
<1>4. ASSUME NEW pc, Load(p, pc)
      PROVE  /\ Alone(p) /\ Same(p) /\ proc'[p].pc = pc
             /\ proc'[p].siblings = proc[p].siblings /\ proc'[p].base = db[proc[p].b]
  BY <1>1, <1>4 DEF Load, Alone, Same, Proc
<1>5. CASE CreateCheck(p)
  BY <1>2, <1>3, <1>5 DEF CreateCheck, At
<1>6. ASSUME NEW op \in Readers \ {"timeout", "gps"}, NEW S, ReadIf(p, op, S)
      PROVE  /\ UNCHANGED <<db, lock, fees>> /\ At(p, op, "read") /\ jobs' \subseteq jobs
             /\ Finish(p) \/ Load(p, "select")
  BY <1>2, <1>6 DEF ReadIf
<1>7. CASE \E op \in Readers \ {"timeout", "gps"}, S \in SUBSET Statuses : ReadIf(p, op, S)
  BY <1>2, <1>4, <1>6, <1>7 DEF At, Readers
<1>8. CASE TimeoutCheck(p)
  BY <1>2, <1>3, <1>8 DEF TimeoutCheck, At
<1>9. CASE TimeoutCancel(p)
  BY <1>4, <1>9 DEF TimeoutCancel, At, Readers
<1>10. CASE GpsCheck(p)
  BY <1>2, <1>3, <1>10 DEF GpsCheck, At
<1>11. CASE AddGpsStrike(p)
  BY <1>2, <1>4, <1>11 DEF AddGpsStrike, At, Readers
<1>12. CASE PollStatus(p)
  <2>1. CASE Finish(p)
    BY <1>2, <1>12, <2>1 DEF PollStatus, At
  <2>2. CASE ~ Finish(p)
    BY <1>1, <1>12, <2>2 DEF PollStatus, At, Alone, Same, Proc
  <2>q. QED BY <2>1, <2>2
<1>13. CASE FindPendingForWorker(p)
  <2>1. CASE Finish(p)
    BY <1>2, <1>13, <2>1 DEF FindPendingForWorker, At
  <2>2. CASE ~ Finish(p)
    BY <1>1, <1>13, <2>2 DEF FindPendingForWorker, At, Alone, Same, Proc
  <2>q. QED BY <2>1, <2>2
<1>14. ASSUME \/ RejectBooking(p) \/ DeclineBooking(p) \/ CancelBooking(p) \/ VerifyArrivalOtp(p)
              \/ VerifyCompletionOtp(p) \/ MarkPaid(p) \/ RefreshCompletionOtp(p)
              \/ SubmitRating(p)
       PROVE  \E op \in Readers \ {"timeout", "gps"}, S \in SUBSET Statuses : ReadIf(p, op, S)
  BY <1>14 DEF RejectBooking, DeclineBooking, CancelBooking, VerifyArrivalOtp, VerifyCompletionOtp, MarkPaid,
     RefreshCompletionOtp, SubmitRating, Readers, Statuses
<1>q. QED
  BY <1>5, <1>7, <1>8, <1>9, <1>10, <1>11, <1>12, <1>13, <1>14 DEF Read

\* The UPDATE of save() writes the entity's columns to an unlocked row, or
\* nothing; gps goes on to save once more.
LEMMA UpdateShape ==
  ASSUME TypeOK, HandlerInv, NEW p \in Procs, Update(p)
  PROVE  /\ UNCHANGED <<lock, fees>>
         /\ proc[p].pc \in {"update", "update2"}
         /\ Alone(p)
         /\ jobs' \subseteq jobs
         /\ \A b \in Bookings : b # proc[p].b => db'[b] = db[b]
         /\ db'[proc[p].b].status \in {db[proc[p].b].status, Entity(proc[p]).status}
         /\ lock[proc[p].b] # None => db'[proc[p].b] = db[proc[p].b]
         /\ \/ proc'[p] = Idle
            \/ /\ Same(p)
               /\ proc'[p].siblings = proc[p].siblings
               /\ \/ /\ proc'[p].pc = "select2"
                     /\ proc[p].op = "gps"
                  \/ proc'[p].pc = "effects" /\ proc'[p].k = 1
<1>1. /\ proc \in [Procs -> Proc] /\ proc[p] \in Proc /\ proc[p].b \in Bookings
      /\ db \in [Bookings -> Row] /\ db[proc[p].b] \in Row
  BY DEF TypeOK, HandlerInv, HandlerOk, Update
<1>2. Entity(proc[p]) \in Row
  BY <1>1, EntityIsRow
<1>3. /\ \A b \in Bookings : b # proc[p].b => db'[b] = db[b]
      /\ db'[proc[p].b] = Updated(db[proc[p].b], Entity(proc[p]), proc[p].dirty)
  BY <1>1 DEF Update
<1>4. /\ db'[proc[p].b].status \in {db[proc[p].b].status, Entity(proc[p]).status}
      /\ lock[proc[p].b] # None => db'[proc[p].b] = db[proc[p].b]
  BY <1>1, <1>2, <1>3, UpdatedIsRow DEF Update
<1>5. /\ Alone(p) /\ jobs' \subseteq jobs
      /\ \/ proc'[p] = Idle
         \/ /\ Same(p)
            /\ proc'[p].siblings = proc[p].siblings
            /\ \/ proc'[p].pc = "select2" /\ proc[p].op = "gps"
               \/ proc'[p].pc = "effects" /\ proc'[p].k = 1
  <2>1. CASE At(p, "gps", "update") /\ Forfeits(proc[p])
    BY <1>1, <2>1 DEF Update, Alone, Same, At, Proc
  <2>2. CASE Finish(p)
    BY <1>1, <2>2 DEF Finish, Alone
  <2>3. CASE RunEffects(p) /\ UNCHANGED jobs
    BY <1>1, <2>3 DEF RunEffects, Alone, Same, Proc
  <2>q. QED BY <2>1, <2>2, <2>3 DEF Update
<1>q. QED BY <1>3, <1>4, <1>5 DEF Update

\* The steps by which a handler writes, locks or begins, seen from the others.
LEMMA OtherShape ==
  ASSUME TypeOK, HandlerInv, NEW p \in Procs,
         \/ AcceptLock(p) \/ AcceptCommit(p) \/ AcceptAbort(p)
         \/ CreateInsert(p) \/ Select(p) \/ RunJob(p)
         \/ \E op \in Endpoints \cap Requests, b \in Bookings : Request(p, op, b)
  PROVE  Alone(p) /\ UNCHANGED fees /\ jobs' \subseteq jobs
<1>1. proc \in [Procs -> Proc]
  BY DEF TypeOK
<1>q. QED
  BY <1>1 DEF AcceptLock, AcceptCommit, AcceptAbort, CreateInsert, Select, RunJob, StartJob,
     Request, Finish, RunEffects, Alone

\* A step of the environment, or none.
Environment == (\E w \in Workers : ExpirePending(w)) \/ (\E b \in Bookings : ExpireStatus(b))

\* Expiries touch neither rows, locks, handlers, jobs nor fees.
LEMMA EnvironmentShape ==
  ASSUME Environment \/ UNCHANGED vars
  PROVE  UNCHANGED <<db, lock, proc, jobs, fees>>
BY DEF Environment, ExpirePending, ExpireStatus, vars

-----------------------------------------------------------------------------
(***************************************************************************)
(* A row once inserted stays, and a booking that left REQUESTED does not   *)
(* come back to it: acceptBooking decides only bookings that exist, and    *)
(* what the other handlers save has left REQUESTED.                        *)
(***************************************************************************)
Forward == \A b \in Bookings :
             /\ db[b].status # "NONE" => db'[b].status # "NONE"
             /\ Decided(db[b].status) => Decided(db'[b].status)

\* No step takes a row back to REQUESTED or NONE.
LEMMA ForwardStep ==
  ASSUME Inv, [Next]_vars PROVE Forward
<1>1. TypeOK /\ HandlerInv /\ SaveInv /\ CreateInv
  BY DEF Inv
<1>2. CASE UNCHANGED db
  BY <1>2 DEF Forward, Decided
<1>3. ASSUME NEW p \in Procs, CreateInsert(p) PROVE Forward
  <2>1. db[proc[p].b].status = "NONE"
    BY <1>1, <1>3 DEF CreateInv, Creating, CreateInsert, At
  <2>q. QED BY <1>1, <1>3, <2>1 DEF CreateInsert, TypeOK, Forward, Decided
<1>4. ASSUME NEW p \in Procs, AcceptCommit(p) PROVE Forward
  <2>1. \A b \in Bookings : db'[b].status \in {db[b].status, "ACCEPTED", "CANCELLED"}
    BY <1>1, <1>4 DEF AcceptCommit, Status, TypeOK, Row
  <2>q. QED BY <2>1 DEF Forward, Decided
<1>5. ASSUME NEW p \in Procs, Update(p) PROVE Forward
  BY <1>1, <1>5, UpdateShape DEF SaveInv, Saving, Forward, Decided
<1>6. ASSUME NEW p \in Procs, Effect(p) PROVE UNCHANGED db
  BY <1>1, <1>6, EffectShape
<1>7. ASSUME NEW p \in Procs, Read(p) PROVE UNCHANGED db
  BY <1>1, <1>7, ReadShape
<1>8. ASSUME NEW p \in Procs, AcceptLock(p) \/ AcceptAbort(p) \/ Select(p) \/ RunJob(p)
      PROVE  UNCHANGED db
  BY <1>8 DEF AcceptLock, AcceptAbort, Select, RunJob, StartJob
<1>9. ASSUME \E p \in Procs, op \in Endpoints \cap Requests, b \in Bookings : Request(p, op, b)
      PROVE  UNCHANGED db
  BY <1>9 DEF Request
<1>10. CASE Crash
  BY <1>2, <1>10 DEF Crash
<1>11. CASE Environment \/ UNCHANGED vars
  BY <1>2, <1>11, EnvironmentShape
<1>q. QED
  BY <1>2, <1>3, <1>4, <1>5, <1>6, <1>7, <1>8, <1>9, <1>10, <1>11
  DEF Next, Step, Transaction, Save, Environment

-----------------------------------------------------------------------------
\* The fields of an idle handler,
LEMMA IdleIs == Idle.op = "none" /\ Idle.pc = "idle" /\ Idle.b = None /\ Idle.siblings = {}
BY DEF Idle

\* and of one that has begun.
LEMMA HandlerIs ==
  ASSUME NEW op, NEW b
  PROVE  LET h == Handler(op, b) IN
         /\ h.op = op /\ h.b = b /\ h.pc = "read" /\ h.siblings = {} /\ h.base = NoRow
BY DEF Handler, Idle

\* A handler that a client's request or a job has started.
Begun(p) == \E op \in Endpoints \cup Jobs, b \in Bookings :
              /\ proc[p] = Idle
              /\ proc'[p] = Handler(op, b)
              /\ op = "create" => db[b].status = "NONE" /\ ~ InFlight("create", b)
              /\ op # "create" => db[b].status # "NONE"
              /\ op \in {"paid", "refresh", "rate"} => Decided(db[b].status)

\* A request or job begins in an idle handler, for a booking that exists unless
\* it creates it.
LEMMA BeginShape ==
  ASSUME TypeOK, JobInv, NEW p \in Procs,
         RunJob(p) \/ \E op \in Endpoints \cap Requests, b \in Bookings : Request(p, op, b)
  PROVE  /\ Begun(p) /\ Alone(p)
         /\ UNCHANGED <<db, lock, jobs, fees>>
<1>1. proc \in [Procs -> Proc]
  BY DEF TypeOK
<1>2. ASSUME NEW job \in Jobs, NEW b \in Bookings, StartJob(p, job, b)
      PROVE  Begun(p) /\ Alone(p) /\ UNCHANGED <<db, lock, jobs, fees>>
  <2>1. db[b].status # "NONE"
    BY <1>2 DEF StartJob, JobInv
  <2>q. QED BY <1>1, <1>2, <2>1 DEF StartJob, Begun, Alone, Jobs
<1>3. ASSUME NEW op \in Endpoints, NEW b \in Bookings, Request(p, op, b)
      PROVE  Begun(p) /\ Alone(p) /\ UNCHANGED <<db, lock, jobs, fees>>
  <2>1. /\ op = "create" => db[b].status = "NONE" /\ ~ InFlight("create", b)
        /\ op # "create" => db[b].status # "NONE"
        /\ op \in {"paid", "refresh", "rate"} => Decided(db[b].status)
    BY <1>3 DEF Request, ClientMay, CustomerMayCancel, WorkerSees, Decided
  <2>q. QED BY <1>1, <1>3, <2>1 DEF Request, Begun, Alone
<1>q. QED BY <1>2, <1>3 DEF RunJob

\* The two states a handler can be in after each of the remaining steps.
LEMMA LockShape ==
  ASSUME TypeOK, HandlerInv, NEW p \in Procs, AcceptLock(p)
  PROVE  /\ At(p, "accept", "read") /\ lock[proc[p].b] = None
         /\ Alone(p) /\ UNCHANGED <<db, fees>> /\ jobs' \subseteq jobs
         /\ \/ proc'[p] = Idle /\ UNCHANGED lock
            \/ /\ db[proc[p].b].status = "REQUESTED"
               /\ lock' = [lock EXCEPT ![proc[p].b] = p]
               /\ Same(p) /\ proc'[p].pc = "commit"
               /\ \A x \in proc'[p].siblings : db[x].status = "REQUESTED"
<1>1. proc \in [Procs -> Proc] /\ proc[p] \in Proc
  BY DEF TypeOK
<1>2. CASE Finish(p) /\ UNCHANGED lock
  BY <1>1, <1>2, OtherShape DEF Finish, AcceptLock
<1>3. CASE db[proc[p].b].status = "REQUESTED"
  BY <1>1, <1>3, OtherShape DEF AcceptLock, Same, Proc
<1>q. QED BY <1>2, <1>3 DEF AcceptLock

\* acceptBooking's commit: the row becomes ACCEPTED, no other locked row changes,
\* the lock goes.
LEMMA CommitShape ==
  ASSUME TypeOK, HandlerInv, NEW p \in Procs, AcceptCommit(p)
  PROVE  /\ At(p, "accept", "commit") /\ proc[p].b \in Bookings
         /\ Alone(p) /\ UNCHANGED <<jobs, fees>>
         /\ lock' = [lock EXCEPT ![proc[p].b] = None]
         /\ db'[proc[p].b].status = "ACCEPTED"
         /\ \A b \in Bookings : lock[b] # None => b = proc[p].b \/ db'[b] = db[b]
         /\ Same(p) /\ proc'[p].pc = "effects" /\ proc'[p].k = 1
         /\ proc'[p].siblings = proc[p].siblings
<1>1. proc \in [Procs -> Proc] /\ proc[p] \in Proc /\ proc[p].b \in Bookings
  BY DEF TypeOK, HandlerInv, HandlerOk, AcceptCommit, At
<1>2. db'[proc[p].b].status = "ACCEPTED"
  BY <1>1 DEF AcceptCommit, Status, TypeOK, Row
<1>3. \A b \in Bookings : lock[b] # None => b = proc[p].b \/ db'[b] = db[b]
  BY DEF AcceptCommit
<1>4. Same(p) /\ proc'[p].pc = "effects" /\ proc'[p].k = 1 /\ proc'[p].siblings = proc[p].siblings
  BY <1>1 DEF AcceptCommit, RunEffects, Same, Proc
<1>q. QED BY <1>1, <1>2, <1>3, <1>4, OtherShape DEF AcceptCommit

\* A transaction that is broken up changes no row.
LEMMA AbortShape ==
  ASSUME TypeOK, HandlerInv, NEW p \in Procs, AcceptAbort(p)
  PROVE  /\ At(p, "accept", "commit") /\ proc'[p] = Idle
         /\ Alone(p) /\ UNCHANGED <<db, fees>> /\ jobs' \subseteq jobs
         /\ lock' = [lock EXCEPT ![proc[p].b] = None]
<1>1. proc \in [Procs -> Proc]
  BY DEF TypeOK
<1>q. QED BY <1>1, OtherShape DEF AcceptAbort, Finish

\* createBooking's insert.
LEMMA InsertShape ==
  ASSUME TypeOK, HandlerInv, NEW p \in Procs, CreateInsert(p)
  PROVE  /\ At(p, "create", "insert") /\ proc[p].b \in Bookings
         /\ Alone(p) /\ UNCHANGED <<lock, jobs, fees>>
         /\ db' = [db EXCEPT ![proc[p].b] = NewRow]
         /\ Same(p) /\ proc'[p].pc = "effects" /\ proc'[p].k = 1
         /\ proc'[p].siblings = proc[p].siblings
<1>1. proc \in [Procs -> Proc] /\ proc[p] \in Proc /\ proc[p].b \in Bookings
  BY DEF TypeOK, HandlerInv, HandlerOk, CreateInsert, At
<1>2. Same(p) /\ proc'[p].pc = "effects" /\ proc'[p].k = 1 /\ proc'[p].siblings = proc[p].siblings
  BY <1>1 DEF CreateInsert, RunEffects, Same, Proc
<1>q. QED BY <1>1, <1>2, OtherShape DEF CreateInsert

\* The SELECT of save() only notes the changed columns.
LEMMA SelectShape ==
  ASSUME TypeOK, HandlerInv, NEW p \in Procs, Select(p)
  PROVE  /\ Alone(p) /\ UNCHANGED <<db, lock, jobs, fees>>
         /\ Same(p) /\ proc'[p].base = proc[p].base
         /\ proc'[p].siblings = proc[p].siblings
         /\ \/ proc[p].pc = "select" /\ proc'[p].pc = "update"
            \/ proc[p].pc = "select2" /\ proc'[p].pc = "update2"
<1>1. proc \in [Procs -> Proc] /\ proc[p] \in Proc
  BY DEF TypeOK
<1>2. /\ Same(p) /\ proc'[p].base = proc[p].base /\ proc'[p].siblings = proc[p].siblings
      /\ proc'[p].pc = IF proc[p].pc = "select" THEN "update" ELSE "update2"
  BY <1>1 DEF Select, Same, Proc
<1>q. QED BY <1>2, OtherShape DEF Select

\* A restart loses every handler and every lock.
LEMMA CrashShape ==
  ASSUME Crash
  PROVE  /\ \A q \in Procs : proc'[q] = Idle
         /\ \A b \in Bookings : lock'[b] = None
         /\ UNCHANGED <<db, jobs, fees>>
BY DEF Crash

-----------------------------------------------------------------------------
Begins(p) ==
  RunJob(p) \/ \E op \in Endpoints \cap Requests, b \in Bookings : Request(p, op, b)

\* Every step is one of these.
LEMMA Cases ==
  ASSUME [Next]_vars
  PROVE  \/ \E p \in Procs :
              \/ Effect(p) \/ Read(p) \/ AcceptLock(p) \/ AcceptCommit(p) \/ AcceptAbort(p)
              \/ CreateInsert(p) \/ Select(p) \/ Update(p) \/ Begins(p)
         \/ Crash
         \/ Environment \/ UNCHANGED vars
BY DEF Next, Step, Transaction, Save, Environment, Begins

\* HandlerInv and JobInv are preserved.
LEMMA HandlerStep ==
  ASSUME Inv, [Next]_vars PROVE HandlerInv' /\ JobInv'
<1>1. TypeOK /\ HandlerInv /\ JobInv /\ Forward
  BY ForwardStep DEF Inv
<1>2. \A q \in Procs : proc[q] \in Proc
  BY <1>1 DEF TypeOK
<1>3. HandlerOk(Idle, db')
  BY IdleIs DEF HandlerOk
<1>4. \A q \in Procs : HandlerOk(proc[q], db')
  <2>1. \A x \in Bookings : db[x].status # "NONE" => db'[x].status # "NONE"
    BY <1>1 DEF Forward
  <2>2. ASSUME NEW q \in Procs PROVE HandlerOk(proc[q], db')
    <3>1. HandlerOk(proc[q], db) /\ proc[q].siblings \subseteq Bookings
      BY <1>1, <1>2 DEF HandlerInv, Proc
    <3>q. QED BY <2>1, <3>1 DEF HandlerOk
  <2>q. QED BY <2>2
<1>5. ASSUME \A q \in Procs : HandlerOk(proc'[q], db') PROVE HandlerInv'
  BY <1>5 DEF HandlerInv
<1>6. ASSUME NEW p \in Procs, Alone(p), HandlerOk(proc'[p], db') PROVE HandlerInv'
  <2>1. \A q \in Procs : HandlerOk(proc'[q], db')
    BY <1>4, <1>6 DEF Alone
  <2>q. QED BY <1>5, <2>1
<1>7. ASSUME jobs' \subseteq jobs PROVE JobInv'
  <2>1. \A j \in jobs : j[2] \in Bookings
    BY <1>1 DEF TypeOK
  <2>q. QED BY <1>1, <1>7, <2>1 DEF JobInv, Forward
<1>8. ASSUME NEW p \in Procs, Effect(p) PROVE HandlerInv' /\ JobInv'
  <2>1. db'[proc[p].b].status # "NONE"
    BY <1>4, <1>8, <1>1, EffectShape DEF HandlerOk
  <2>2. JobInv'
    BY <1>1, <1>8, <2>1, EffectShape DEF JobInv, Forward, TypeOK
  <2>3. HandlerOk(proc'[p], db')
    BY <1>2, <1>3, <1>4, <1>8, <2>1, <1>1, EffectShape DEF HandlerOk, Same, Proc
  <2>q. QED BY <1>1, <1>6, <1>8, <2>2, <2>3, EffectShape
<1>9. ASSUME NEW p \in Procs, Read(p) PROVE HandlerInv' /\ JobInv'
  <2>1. \A x \in proc'[p].siblings : db'[x].status # "NONE"  \/ proc'[p] = Idle
    <3>1. \A x : db[x].status = "REQUESTED" => db'[x].status # "NONE"
      BY <1>1, <1>9, ReadShape 
    <3>q. QED BY <1>1, <1>4, <1>9, <3>1, ReadShape, IdleIs DEF HandlerOk
  <2>2. HandlerOk(proc'[p], db')
    <3>1. CASE proc'[p] = Idle
      BY <1>3, <3>1
    <3>2. CASE proc'[p] # Idle
      <4>1. /\ HandlerOk(proc[p], db') /\ Same(p) /\ UNCHANGED db
            /\ proc[p].pc \in {"read", "reread"}
            /\ proc'[p].pc \in {"insert", "reread", "select", "effects"}
            /\ proc[p].op = "create" => proc[p].pc = "read"
            /\ proc'[p].pc = "effects" => proc'[p].k = 1
            /\ \A x \in proc'[p].siblings : db'[x].status # "NONE"
        BY <1>1, <1>4, <1>9, <2>1, <3>2, ReadShape
      <4>2. proc[p].op = "create" => proc'[p].pc = "insert"
        BY <1>1, <1>9, <3>2, ReadShape
      <4>q. QED BY <4>1, <4>2 DEF HandlerOk, Same
    <3>q. QED BY <3>1, <3>2
  <2>q. QED BY <1>1, <1>6, <1>7, <1>9, <2>2, ReadShape
<1>10. ASSUME NEW p \in Procs, AcceptLock(p) PROVE HandlerInv' /\ JobInv'
  <2>1. HandlerOk(proc'[p], db')
    BY <1>3, <1>4, <1>10, <1>1, LockShape DEF HandlerOk, Same, At
  <2>q. QED BY <1>1, <1>6, <1>7, <1>10, <2>1, LockShape
<1>11. ASSUME NEW p \in Procs, AcceptCommit(p) PROVE HandlerInv' /\ JobInv'
  <2>1. HandlerOk(proc'[p], db')
    BY <1>4, <1>11, <1>1, CommitShape DEF HandlerOk, Same, At
  <2>q. QED BY <1>1, <1>6, <1>7, <1>11, <2>1, CommitShape
<1>12. ASSUME NEW p \in Procs, AcceptAbort(p) PROVE HandlerInv' /\ JobInv'
  BY <1>1, <1>3, <1>6, <1>7, <1>12, AbortShape
<1>13. ASSUME NEW p \in Procs, CreateInsert(p) PROVE HandlerInv' /\ JobInv'
  <2>1. db'[proc[p].b].status # "NONE"
    BY <1>1, <1>13, InsertShape DEF TypeOK, NewRow, NoRow
  <2>2. HandlerOk(proc'[p], db')
    BY <1>4, <1>13, <1>1, <2>1, InsertShape DEF HandlerOk, Same, At
  <2>q. QED BY <1>1, <1>6, <1>7, <1>13, <2>2, InsertShape
<1>14. ASSUME NEW p \in Procs, Select(p) PROVE HandlerInv' /\ JobInv'
  <2>1. HandlerOk(proc'[p], db')
    BY <1>4, <1>14, <1>1, SelectShape DEF HandlerOk, Same
  <2>q. QED BY <1>1, <1>6, <1>7, <1>14, <2>1, SelectShape
<1>15. ASSUME NEW p \in Procs, Update(p) PROVE HandlerInv' /\ JobInv'
  <2>1. HandlerOk(proc'[p], db')
    BY <1>3, <1>4, <1>15, <1>1, UpdateShape DEF HandlerOk, Same
  <2>q. QED BY <1>1, <1>6, <1>7, <1>15, <2>1, UpdateShape
<1>16. ASSUME NEW p \in Procs, Begins(p) PROVE HandlerInv' /\ JobInv'
  <2>1. Begun(p) /\ Alone(p) /\ UNCHANGED <<db, jobs>>
    BY <1>1, <1>16, BeginShape DEF Begins
  <2>2. PICK op \in Endpoints \cup Jobs, b \in Bookings :
          proc'[p] = Handler(op, b) /\ (op # "create" => db[b].status # "NONE")
    BY <2>1 DEF Begun
  <2>3. HandlerOk(proc'[p], db')
    BY <2>1, <2>2, HandlerIs DEF HandlerOk, Endpoints, Jobs
  <2>q. QED BY <1>6, <1>7, <2>1, <2>3
<1>17. CASE Crash
  BY <1>3, <1>5, <1>7, <1>17, CrashShape
<1>18. CASE Environment \/ UNCHANGED vars
  BY <1>4, <1>5, <1>7, <1>18, EnvironmentShape
<1>q. QED
  BY <1>8, <1>9, <1>10, <1>11, <1>12, <1>13, <1>14, <1>15, <1>16, <1>17, <1>18, Cases

\* CreateInv is preserved.
LEMMA CreateStep ==
  ASSUME Inv, [Next]_vars PROVE CreateInv'
<1>1. TypeOK /\ HandlerInv /\ JobInv /\ CreateInv /\ SaveInv
  BY DEF Inv
<1>2. \A q \in Procs : Creating(q) => proc[q].b \in Bookings
  BY <1>1 DEF HandlerInv, HandlerOk, Creating
<1> DEFINE Still(q) == /\ Creating(q) \/ ~ Creating(q)'
                       /\ proc'[q].op = "create" => proc[q].op = "create"
                       /\ Creating(q)' \/ proc'[q].op = "create" => proc'[q].b = proc[q].b
\* A step that leaves the table alone and starts no createBooking.
<1>3. ASSUME UNCHANGED db, \A q \in Procs : Still(q) PROVE CreateInv'
  BY <1>1, <1>3 DEF CreateInv, Creating
<1>4. ASSUME NEW p \in Procs, Alone(p), Still(p), UNCHANGED db PROVE CreateInv'
  <2>1. \A q \in Procs : Still(q)
    BY <1>4 DEF Alone, Creating
  <2>q. QED BY <1>3, <1>4, <2>1
<1>5. ASSUME NEW p \in Procs, Alone(p), ~ Creating(p)',
             proc'[p].op = "create" => proc[p].op = "create" /\ proc'[p].b = proc[p].b,
             \A q \in Procs : q # p /\ Creating(q) => db'[proc[q].b] = db[proc[q].b]
      PROVE  CreateInv'
  BY <1>1, <1>5 DEF CreateInv, Creating, Alone
<1>6. ASSUME NEW p \in Procs, Effect(p) PROVE CreateInv'
  BY <1>1, <1>4, <1>6, EffectShape, IdleIs DEF Creating, Same
<1>7. ASSUME NEW p \in Procs, Read(p) PROVE CreateInv'
  BY <1>1, <1>4, <1>7, ReadShape, IdleIs DEF Creating, Same
<1>8. ASSUME NEW p \in Procs, AcceptLock(p) PROVE CreateInv'
  BY <1>1, <1>4, <1>8, LockShape, IdleIs DEF Creating, Same, At
<1>9. ASSUME NEW p \in Procs, AcceptCommit(p) PROVE CreateInv'
  <2>1. ASSUME NEW q \in Procs, Creating(q) PROVE db'[proc[q].b] = db[proc[q].b]
    <3>1. proc[q].b \in Bookings /\ db[proc[q].b].status = "NONE"
      BY <1>1, <1>2, <2>1 DEF CreateInv
    <3>2. \A x \in proc[p].siblings \cup {proc[p].b} : db[x].status # "NONE"
      BY <1>1, <1>9, CommitShape DEF HandlerInv, HandlerOk, At
    <3>q. QED BY <1>9, <3>1, <3>2 DEF AcceptCommit
  <2>2. proc'[p].op = "accept" /\ Alone(p)
    BY <1>1, <1>9, CommitShape DEF At, Same
  <2>q. QED BY <1>5, <2>1, <2>2 DEF Creating
<1>10. ASSUME NEW p \in Procs, AcceptAbort(p) PROVE CreateInv'
  BY <1>1, <1>4, <1>10, AbortShape, IdleIs DEF Creating
<1>11. ASSUME NEW p \in Procs, CreateInsert(p) PROVE CreateInv'
  <2>1. \A q \in Procs : q # p /\ Creating(q) => proc[q].b # proc[p].b
    BY <1>1, <1>11, InsertShape DEF CreateInv, Creating, At
  <2>2. \A q \in Procs : q # p /\ Creating(q) => db'[proc[q].b] = db[proc[q].b]
    BY <1>1, <1>2, <1>11, <2>1, InsertShape DEF TypeOK
  <2>q. QED BY <1>1, <1>5, <1>11, <2>2, InsertShape DEF Creating, Same, At
<1>12. ASSUME NEW p \in Procs, Select(p) PROVE CreateInv'
  BY <1>1, <1>4, <1>12, SelectShape DEF Creating, Same
<1>13. ASSUME NEW p \in Procs, Update(p) PROVE CreateInv'
  <2>1. proc[p].b \in Bookings /\ db[proc[p].b].status # "NONE" /\ ~ Creating(p)
    BY <1>1, <1>13, UpdateShape DEF HandlerInv, HandlerOk, Creating
  <2>2. \A q \in Procs : q # p /\ Creating(q) => db'[proc[q].b] = db[proc[q].b]
    BY <1>1, <1>2, <1>13, <2>1, UpdateShape DEF CreateInv
  <2>q. QED BY <1>1, <1>5, <1>13, <2>2, UpdateShape, IdleIs DEF Creating, Same
<1>14. ASSUME NEW p \in Procs, Begins(p) PROVE CreateInv'
  <2>1. Begun(p) /\ Alone(p) /\ UNCHANGED db
    BY <1>1, <1>14, BeginShape DEF Begins
  <2>2. PICK op \in Endpoints \cup Jobs, b \in Bookings :
          /\ proc[p] = Idle
          /\ proc'[p] = Handler(op, b)
          /\ op = "create" => db[b].status = "NONE" /\ ~ InFlight("create", b)
    BY <2>1 DEF Begun
  <2>3. CASE op = "create"
    BY <1>1, <2>1, <2>2, <2>3, IdleIs, HandlerIs DEF CreateInv, Creating, InFlight, Alone
  <2>4. CASE op # "create"
    BY <1>4, <2>1, <2>2, <2>4, HandlerIs DEF Creating
  <2>q. QED BY <2>3, <2>4
<1>15. CASE Crash
  BY <1>3, <1>15, CrashShape, IdleIs DEF Creating
<1>16. CASE Environment \/ UNCHANGED vars
  BY <1>3, <1>16, EnvironmentShape DEF Creating
<1>q. QED
  BY <1>6, <1>7, <1>8, <1>9, <1>10, <1>11, <1>12, <1>13, <1>14, <1>15, <1>16, Cases

-----------------------------------------------------------------------------
\* LockInv is preserved.
LEMMA LockStep ==
  ASSUME Inv, [Next]_vars PROVE LockInv'
<1>1. TypeOK /\ HandlerInv /\ JobInv /\ CreateInv /\ LockInv
  BY DEF Inv
<1> DEFINE Holds(q) == At(q, "accept", "commit")
<1>2. \A q \in Procs : Holds(q) => /\ proc[q].b \in Bookings /\ lock[proc[q].b] = q
                                  /\ db[proc[q].b].status = "REQUESTED"
  BY <1>1 DEF HandlerInv, HandlerOk, LockInv, LockedRowIsRequested, At
\* A step by a handler that holds no lock, before or after, and leaves the
\* locked rows alone.
<1>3. ASSUME NEW p \in Procs, Alone(p), UNCHANGED lock, ~ Holds(p), ~ Holds(p)',
             \A q \in Procs : Holds(q) => db'[proc[q].b] = db[proc[q].b]
      PROVE  LockInv'
  <2>1. ASSUME NEW q \in Procs, Holds(q)'
        PROVE  lock'[proc'[q].b] = q /\ db'[proc'[q].b].status = "REQUESTED"
    BY <1>2, <1>3, <2>1 DEF Alone, At
  <2>2. ASSUME NEW b \in Bookings, lock'[b] # None
        PROVE  Owns(proc'[lock'[b]], b)
    BY <1>1, <1>3, <2>2 DEF LockInv, Alone, At, TypeOK, Owns
  <2>q. QED BY <1>3, <2>1, <2>2 DEF LockInv, LockedRowIsRequested, At
\* The transaction of p ends.
<1>4. ASSUME NEW p \in Procs, Alone(p), Holds(p), ~ Holds(p)',
             lock' = [lock EXCEPT ![proc[p].b] = None],
             \A q \in Procs : q # p /\ Holds(q) => db'[proc[q].b] = db[proc[q].b]
      PROVE  LockInv'
  <2>1. ASSUME NEW q \in Procs, Holds(q)'
        PROVE  lock'[proc'[q].b] = q /\ db'[proc'[q].b].status = "REQUESTED"
    <3>1. q # p /\ proc'[q] = proc[q] /\ Holds(q)
      BY <1>4, <2>1 DEF Alone, At
    <3>2. proc[q].b # proc[p].b
      BY <1>2, <1>4, <3>1
    <3>q. QED BY <1>1, <1>2, <1>4, <3>1, <3>2 DEF TypeOK
  <2>2. ASSUME NEW b \in Bookings, lock'[b] # None
        PROVE  Owns(proc'[lock'[b]], b)
    <3>1. b # proc[p].b /\ lock'[b] = lock[b] /\ lock[b] \in Procs
      BY <1>1, <1>4, <2>2 DEF TypeOK
    <3>2. Owns(proc[lock[b]], b)
      BY <1>1, <2>2, <3>1 DEF LockInv
    <3>q. QED BY <1>4, <3>1, <3>2 DEF Alone, At, Owns
  <2>q. QED BY <2>1, <2>2 DEF LockInv, LockedRowIsRequested, At
<1>5. ASSUME NEW p \in Procs, Effect(p) PROVE LockInv'
  BY <1>1, <1>3, <1>5, EffectShape, IdleIs DEF At
<1>6. ASSUME NEW p \in Procs, Read(p) PROVE LockInv'
  BY <1>1, <1>3, <1>6, ReadShape, IdleIs DEF At
<1>7. ASSUME NEW p \in Procs, AcceptLock(p) PROVE LockInv'
  <2>1. /\ At(p, "accept", "read") /\ lock[proc[p].b] = None /\ proc[p].b \in Bookings
        /\ Alone(p) /\ UNCHANGED db
    BY <1>1, <1>7, LockShape DEF HandlerInv, HandlerOk, At
  <2>2. CASE proc'[p] = Idle /\ UNCHANGED lock
    BY <1>3, <2>1, <2>2, IdleIs DEF At
  <2>3. CASE /\ db[proc[p].b].status = "REQUESTED"
             /\ lock' = [lock EXCEPT ![proc[p].b] = p]
             /\ Same(p) /\ proc'[p].pc = "commit"
    <3>1. ASSUME NEW q \in Procs, Holds(q)'
          PROVE  lock'[proc'[q].b] = q /\ db'[proc'[q].b].status = "REQUESTED"
      <4>1. CASE q = p
        BY <1>1, <2>1, <2>3, <4>1 DEF Same, TypeOK
      <4>2. CASE q # p
        <5>1. Holds(q) /\ proc'[q] = proc[q]
          BY <2>1, <3>1, <4>2 DEF Alone, At
        <5>2. lock[proc[q].b] = q /\ proc[q].b \in Bookings /\ q # None
          BY <1>2, <5>1, NoneAssumption
        <5>q. QED BY <1>1, <1>2, <2>1, <2>3, <5>1, <5>2 DEF TypeOK
      <4>q. QED BY <4>1, <4>2
    <3>2. ASSUME NEW b \in Bookings, lock'[b] # None
          PROVE  Owns(proc'[lock'[b]], b)
      <4>1. CASE b = proc[p].b
        BY <1>1, <2>1, <2>3, <4>1 DEF Same, TypeOK, At, Owns
      <4>2. CASE b # proc[p].b
        <5>1. lock'[b] = lock[b] /\ lock[b] \in Procs
          BY <1>1, <2>3, <3>2, <4>2 DEF TypeOK
        <5>2. Owns(proc[lock[b]], b)
          BY <1>1, <3>2, <5>1 DEF LockInv
        <5>q. QED BY <2>1, <5>1, <5>2 DEF Alone, At, Owns
      <4>q. QED BY <4>1, <4>2
    <3>q. QED BY <3>1, <3>2 DEF LockInv, LockedRowIsRequested, At
  <2>q. QED BY <1>1, <1>7, <2>2, <2>3, LockShape
<1>8. ASSUME NEW p \in Procs, AcceptCommit(p) PROVE LockInv'
  <2>1. \A q \in Procs : q # p /\ Holds(q) => db'[proc[q].b] = db[proc[q].b]
    BY <1>1, <1>2, <1>8, CommitShape, NoneAssumption
  <2>q. QED BY <1>1, <1>4, <1>8, <2>1, CommitShape DEF At
<1>9. ASSUME NEW p \in Procs, AcceptAbort(p) PROVE LockInv'
  BY <1>1, <1>4, <1>9, AbortShape, IdleIs DEF At
<1>10. ASSUME NEW p \in Procs, CreateInsert(p) PROVE LockInv'
  <2>1. db[proc[p].b].status = "NONE"
    BY <1>1, <1>10, InsertShape DEF CreateInv, Creating, At
  <2>2. \A q \in Procs : Holds(q) => db'[proc[q].b] = db[proc[q].b]
    BY <1>1, <1>2, <1>10, <2>1, InsertShape DEF TypeOK
  <2>q. QED BY <1>1, <1>3, <1>10, <2>2, InsertShape DEF At, Same
<1>11. ASSUME NEW p \in Procs, Select(p) PROVE LockInv'
  BY <1>1, <1>3, <1>11, SelectShape DEF At
<1>12. ASSUME NEW p \in Procs, Update(p) PROVE LockInv'
  <2>1. \A q \in Procs : Holds(q) => db'[proc[q].b] = db[proc[q].b]
    BY <1>1, <1>2, <1>12, UpdateShape, NoneAssumption
  <2>q. QED BY <1>1, <1>3, <1>12, <2>1, UpdateShape, IdleIs DEF At
<1>13. ASSUME NEW p \in Procs, Begins(p) PROVE LockInv'
  <2>1. Begun(p) /\ Alone(p) /\ UNCHANGED <<db, lock>>
    BY <1>1, <1>13, BeginShape DEF Begins
  <2>2. ~ Holds(p) /\ proc'[p].pc = "read"
    BY <2>1, IdleIs, HandlerIs DEF Begun, At
  <2>q. QED BY <1>3, <2>1, <2>2 DEF At
<1>14. CASE Crash
  BY <1>14, CrashShape, IdleIs DEF LockInv, LockedRowIsRequested, At
<1>15. CASE Environment \/ UNCHANGED vars
  BY <1>1, <1>15, EnvironmentShape DEF LockInv, LockedRowIsRequested, At
<1>q. QED
  BY <1>5, <1>6, <1>7, <1>8, <1>9, <1>10, <1>11, <1>12, <1>13, <1>14, <1>15, Cases

-----------------------------------------------------------------------------
\* SaveInv of one handler.
Late == {"paid", "refresh", "rate"}
SaveOk(v, rows) ==
  /\ v.pc \in {"select", "update", "select2", "update2"} =>
       Decided(Entity(v).status) /\ v.op # "accept"
  /\ v.op \in Late => Decided(rows[v.b].status)

\* SaveInv, handler by handler,
LEMMA SaveInvIs == SaveInv <=> \A p \in Procs : SaveOk(proc[p], db)
BY DEF SaveInv, SaveOk, Saving, Late

\* and in the next state.
LEMMA SaveInvNext == SaveInv' <=> \A p \in Procs : SaveOk(proc'[p], db')
BY DEF SaveInv, SaveOk, Saving, Late

\* An entity that is about to be saved has left REQUESTED.
LEMMA LoadedEntity ==
  ASSUME NEW v \in Proc, v.op \in Readers, v.pc = "select",
         v.op \in Late \cup {"gps"} => Decided(v.base.status)
  PROVE  Decided(Entity(v).status)
<1>1. v.base \in Row
  BY DEF Proc
<1>2. CASE v.op \in {"paid", "refresh", "rate", "gps"}
  BY <1>1, <1>2 DEF Entity, Outcome, Arrived, Settled, Row, Late
<1>3. CASE v.op \notin {"paid", "refresh", "rate", "gps"}
  BY <1>1, <1>3 DEF Entity, Outcome, Arrived, Settled, Status, Row, Decided, Readers
<1>q. QED BY <1>2, <1>3

\* So has the one that tenMinuteGpsCheck saves the second time.
LEMMA ForfeitEntity ==
  ASSUME NEW v \in Proc, v.op = "gps", v.pc \in {"select2", "update2"}
  PROVE  Decided(Entity(v).status)
<1>1. v.base \in Row
  BY DEF Proc
<1>q. QED BY <1>1 DEF Entity, Outcome, Arrived, Settled, Status, Row, Decided

\* SaveInv is preserved.
LEMMA SaveStep ==
  ASSUME Inv, [Next]_vars PROVE SaveInv'
<1>1. TypeOK /\ HandlerInv /\ JobInv /\ SaveInv /\ Forward
  BY ForwardStep DEF Inv
<1>2. TypeOK'
  BY <1>1, TypeStep
<1>3. \A q \in Procs : proc[q] \in Proc /\ proc'[q] \in Proc
  BY <1>1, <1>2 DEF TypeOK
<1>4. \A q \in Procs : SaveOk(proc[q], db')
  <2>1. ASSUME NEW q \in Procs PROVE SaveOk(proc[q], db')
    <3>1. SaveOk(proc[q], db)
      BY <1>1, SaveInvIs
    <3>2. proc[q].op \in Late => proc[q].b \in Bookings
      BY <1>1 DEF HandlerInv, HandlerOk, Late
    <3>q. QED BY <1>1, <3>1, <3>2 DEF Forward, SaveOk
  <2>q. QED BY <2>1
<1>5. SaveOk(Idle, db')
  BY IdleIs DEF SaveOk, Late
<1>6. ASSUME NEW p \in Procs, Alone(p), SaveOk(proc'[p], db') PROVE SaveInv'
  BY <1>4, <1>6, SaveInvNext DEF Alone
\* A handler that goes on for the same booking and saves nothing yet.
<1>7. ASSUME NEW p \in Procs, Alone(p), Same(p),
             proc'[p].pc \notin {"select", "update", "select2", "update2"}
      PROVE  SaveInv'
  BY <1>4, <1>6, <1>7 DEF SaveOk, Same
<1>8. ASSUME NEW p \in Procs, Effect(p) PROVE SaveInv'
  BY <1>1, <1>5, <1>6, <1>7, <1>8, EffectShape
<1>9. ASSUME NEW p \in Procs, Read(p) PROVE SaveInv'
  <2>1. CASE proc'[p] = Idle \/ proc'[p].pc # "select"
    BY <1>1, <1>5, <1>6, <1>7, <1>9, <2>1, ReadShape
  <2>2. CASE proc'[p] # Idle /\ proc'[p].pc = "select"
    <3>1. /\ Alone(p) /\ Same(p) /\ UNCHANGED db /\ proc[p].op \in Readers
          /\ proc'[p].base = db[proc[p].b]
          /\ proc[p].op = "gps" => db[proc[p].b].status = "ACCEPTED"
      BY <1>1, <1>9, <2>2, ReadShape
    <3>2. proc[p].op \in Late => Decided(db[proc[p].b].status)
      BY <1>4, <3>1 DEF SaveOk
    <3>3. Decided(Entity(proc'[p]).status)
      BY <1>3, <2>2, <3>1, <3>2, LoadedEntity DEF Same, Decided
    <3>4. SaveOk(proc'[p], db')
      BY <3>1, <3>2, <3>3 DEF SaveOk, Same, Readers
    <3>q. QED BY <1>6, <3>1, <3>4
  <2>q. QED BY <2>1, <2>2
<1>10. ASSUME NEW p \in Procs, AcceptLock(p) PROVE SaveInv'
  BY <1>1, <1>5, <1>6, <1>7, <1>10, LockShape
<1>11. ASSUME NEW p \in Procs, AcceptCommit(p) PROVE SaveInv'
  BY <1>1, <1>7, <1>11, CommitShape
<1>12. ASSUME NEW p \in Procs, AcceptAbort(p) PROVE SaveInv'
  BY <1>1, <1>5, <1>6, <1>12, AbortShape
<1>13. ASSUME NEW p \in Procs, CreateInsert(p) PROVE SaveInv'
  BY <1>1, <1>7, <1>13, InsertShape
<1>14. ASSUME NEW p \in Procs, Select(p) PROVE SaveInv'
  <2>1. /\ proc'[p].op = proc[p].op /\ proc'[p].base = proc[p].base
        /\ \/ proc[p].pc = "select" /\ proc'[p].pc = "update"
           \/ proc[p].pc = "select2" /\ proc'[p].pc = "update2"
    BY <1>1, <1>14, SelectShape DEF Same
  <2>2. Entity(proc[p]) = Entity(proc'[p])
    BY <2>1 DEF Entity, Outcome, Arrived, Settled
  <2>3. SaveOk(proc'[p], db')
    BY <1>1, <1>4, <1>14, <2>2, SelectShape DEF SaveOk, Same
  <2>q. QED BY <1>1, <1>6, <1>14, <2>3, SelectShape
<1>15. ASSUME NEW p \in Procs, Update(p) PROVE SaveInv'
  <2>1. CASE proc'[p] = Idle \/ proc'[p].pc # "select2"
    BY <1>1, <1>5, <1>6, <1>7, <1>15, <2>1, UpdateShape
  <2>2. CASE proc'[p] # Idle /\ proc'[p].pc = "select2"
    <3>1. Alone(p) /\ Same(p) /\ proc[p].op = "gps"
      BY <1>1, <1>15, <2>2, UpdateShape
    <3>2. SaveOk(proc'[p], db')
      BY <1>3, <2>2, <3>1, ForfeitEntity DEF SaveOk, Same, Late
    <3>q. QED BY <1>6, <3>1, <3>2
  <2>q. QED BY <2>1, <2>2
<1>16. ASSUME NEW p \in Procs, Begins(p) PROVE SaveInv'
  <2>1. Begun(p) /\ Alone(p) /\ UNCHANGED db
    BY <1>1, <1>16, BeginShape DEF Begins
  <2>2. SaveOk(proc'[p], db')
    BY <2>1, HandlerIs DEF Begun, SaveOk, Late
  <2>q. QED BY <1>6, <2>1, <2>2
<1>17. CASE Crash
  BY <1>5, <1>17, CrashShape, SaveInvNext
<1>18. CASE Environment \/ UNCHANGED vars
  BY <1>4, <1>18, EnvironmentShape, SaveInvNext
<1>q. QED
  BY <1>8, <1>9, <1>10, <1>11, <1>12, <1>13, <1>14, <1>15, <1>16, <1>17, <1>18, Cases

-----------------------------------------------------------------------------
\* Only acceptBooking asks a fee, and first of all.
LEMMA FeeIsFirst ==
  ASSUME NEW v \in Proc, v.k >= 1, v.k <= Len(Script(v)), Script(v)[v.k] = "fee"
  PROVE  v.op = "accept" /\ v.k = 1
<1>1. v.k \in Nat
  BY DEF Proc
<1>2. CASE v.op = "accept"
  BY <1>1, <1>2 DEF Script
<1>3. CASE v.op = "create"
  BY <1>1, <1>3 DEF Script
<1>4. CASE v.op \in {"reject", "decline", "cancel", "timeout", "arrival", "completion", "poll", "list"}
  BY <1>1, <1>4 DEF Script
<1>5. CASE v.op = "gps"
  BY <1>1, <1>5 DEF Script
<1>6. CASE v.op \notin {"accept", "create", "reject", "decline", "cancel", "timeout", "arrival",
                       "completion", "poll", "list", "gps"}
  BY <1>1, <1>6 DEF Script
<1>q. QED BY <1>2, <1>3, <1>4, <1>5, <1>6

\* FeeInv is preserved.
LEMMA FeeStep ==
  ASSUME Inv, [Next]_vars PROVE FeeInv'
<1>1. TypeOK /\ HandlerInv /\ JobInv /\ LockInv /\ SaveInv /\ FeeInv /\ Forward
  BY ForwardStep DEF Inv
<1>2. \A q \in Procs : proc[q] \in Proc /\ (FeeDue(q) => proc[q].b \in Bookings)
  BY <1>1 DEF TypeOK, HandlerInv, HandlerOk, FeeDue
<1>3. \A b \in Bookings : fees[b] # 0 => fees[b] = 1 /\ Decided(db'[b].status)
  BY <1>1 DEF FeeInv, Forward
\* No handler comes to owe a fee.
<1>4. ASSUME UNCHANGED fees,
             \A q \in Procs : FeeDue(q)' => FeeDue(q) /\ proc'[q].b = proc[q].b
      PROVE  FeeInv'
  BY <1>1, <1>2, <1>3, <1>4 DEF FeeInv, Forward
<1>5. ASSUME NEW p \in Procs, Alone(p), UNCHANGED fees,
             FeeDue(p)' => FeeDue(p) /\ proc'[p].b = proc[p].b
      PROVE  FeeInv'
  BY <1>4, <1>5 DEF Alone, FeeDue
<1>6. ASSUME NEW p \in Procs, Effect(p) PROVE FeeInv'
  <2>1. CASE fees' = fees
    BY <1>1, <1>2, <1>5, <1>6, <2>1, EffectShape, IdleIs DEF FeeDue, Same, Proc
  <2>2. CASE fees' # fees
    <3>1. /\ NextEffect(p, "fee") /\ Alone(p)
          /\ fees' = [fees EXCEPT ![proc[p].b] = @ + 1]
          /\ proc'[p] = Idle \/ proc'[p].k = proc[p].k + 1
      BY <1>1, <1>6, <2>2, EffectShape
    <3>2. FeeDue(p)
      BY <1>1, <1>2, <3>1, FeeIsFirst DEF NextEffect, FeeDue, HandlerInv, HandlerOk
    <3>3. ~ FeeDue(p)'
      BY <1>1, <1>2, <3>1, IdleIs DEF FeeDue, HandlerInv, HandlerOk, NextEffect, Proc
    <3>4. /\ fees'[proc[p].b] = 1
          /\ \A b \in Bookings : b # proc[p].b => fees'[b] = fees[b]
      BY <1>1, <1>2, <3>1, <3>2 DEF FeeInv, TypeOK
    <3>5. \A b \in Bookings : fees'[b] # 0 => fees'[b] = 1 /\ Decided(db'[b].status)
      BY <1>1, <1>2, <1>3, <3>2, <3>4 DEF FeeInv, Forward
    <3>6. ASSUME NEW q \in Procs, FeeDue(q)'
          PROVE  /\ fees'[proc'[q].b] = 0 /\ Decided(db'[proc'[q].b].status)
                 /\ \A r \in Procs : FeeDue(r)' /\ proc'[r].b = proc'[q].b => r = q
      <4>1. q # p /\ proc'[q] = proc[q] /\ FeeDue(q)
        BY <3>1, <3>3, <3>6 DEF Alone, FeeDue
      <4>2. proc[q].b # proc[p].b
        BY <1>1, <3>2, <4>1 DEF FeeInv
      <4>3. \A r \in Procs : FeeDue(r)' => FeeDue(r) /\ proc'[r] = proc[r]
        BY <3>1, <3>3 DEF Alone, FeeDue
      <4>q. QED BY <1>1, <1>2, <3>4, <4>1, <4>2, <4>3 DEF FeeInv, Forward
    <3>q. QED BY <3>5, <3>6 DEF FeeInv
  <2>q. QED BY <2>1, <2>2
<1>7. ASSUME NEW p \in Procs, Read(p) PROVE FeeInv'
  BY <1>1, <1>5, <1>7, ReadShape, IdleIs DEF FeeDue, Same
<1>8. ASSUME NEW p \in Procs, AcceptLock(p) PROVE FeeInv'
  BY <1>1, <1>5, <1>8, LockShape, IdleIs DEF FeeDue
\* acceptBooking commits: nobody owed or was asked the fee of a booking that
\* was still REQUESTED.
<1>9. ASSUME NEW p \in Procs, AcceptCommit(p) PROVE FeeInv'
  <2>1. /\ At(p, "accept", "commit") /\ Alone(p) /\ Same(p) /\ UNCHANGED fees
        /\ proc[p].b \in Bookings /\ db'[proc[p].b].status = "ACCEPTED"
    BY <1>1, <1>9, CommitShape
  <2>2. db[proc[p].b].status = "REQUESTED"
    BY <1>1, <2>1 DEF LockInv, LockedRowIsRequested
  <2>3. /\ fees[proc[p].b] = 0
        /\ \A q \in Procs : FeeDue(q) => proc[q].b # proc[p].b
    BY <1>1, <2>1, <2>2 DEF FeeInv, Decided
  <2>4. \A q \in Procs : q # p /\ FeeDue(q)' => FeeDue(q) /\ proc'[q].b = proc[q].b
    BY <2>1 DEF Alone, FeeDue
  <2>5. ASSUME NEW q \in Procs, FeeDue(q)'
        PROVE  /\ fees'[proc'[q].b] = 0 /\ Decided(db'[proc'[q].b].status)
               /\ \A r \in Procs : FeeDue(r)' /\ proc'[r].b = proc'[q].b => r = q
    <3>1. CASE q = p
      BY <2>1, <2>3, <2>4, <3>1 DEF Same, Decided
    <3>2. CASE q # p
      BY <1>1, <1>2, <2>1, <2>3, <2>4, <2>5, <3>2 DEF FeeInv, Forward, Same
    <3>q. QED BY <3>1, <3>2
  <2>q. QED BY <1>3, <2>1, <2>5 DEF FeeInv
<1>10. ASSUME NEW p \in Procs, AcceptAbort(p) PROVE FeeInv'
  BY <1>1, <1>5, <1>10, AbortShape, IdleIs DEF FeeDue
<1>11. ASSUME NEW p \in Procs, CreateInsert(p) PROVE FeeInv'
  BY <1>1, <1>5, <1>11, InsertShape DEF FeeDue, Same, At
<1>12. ASSUME NEW p \in Procs, Select(p) PROVE FeeInv'
  BY <1>1, <1>5, <1>12, SelectShape DEF FeeDue
<1>13. ASSUME NEW p \in Procs, Update(p) PROVE FeeInv'
  <2>1. proc[p].op # "accept"
    BY <1>1, <1>13, UpdateShape DEF SaveInv, Saving
  <2>q. QED BY <1>1, <1>5, <1>13, <2>1, UpdateShape, IdleIs DEF FeeDue, Same
<1>14. ASSUME NEW p \in Procs, Begins(p) PROVE FeeInv'
  <2>1. Begun(p) /\ Alone(p) /\ UNCHANGED fees
    BY <1>1, <1>14, BeginShape DEF Begins
  <2>q. QED BY <1>5, <2>1, HandlerIs DEF Begun, FeeDue
<1>15. CASE Crash
  BY <1>4, <1>15, CrashShape, IdleIs DEF FeeDue
<1>16. CASE Environment \/ UNCHANGED vars
  BY <1>4, <1>16, EnvironmentShape DEF FeeDue
<1>q. QED
  BY <1>6, <1>7, <1>8, <1>9, <1>10, <1>11, <1>12, <1>13, <1>14, <1>15, <1>16, Cases

-----------------------------------------------------------------------------
\* The invariant holds initially
LEMMA InitInv == Init => Inv
<1> SUFFICES ASSUME Init PROVE Inv
  OBVIOUS
<1>1. \A p \in Procs : proc[p] = Idle
  BY DEF Init
<1>2. TypeOK
  <2>1. NoRow \in Row
    BY DEF NoRow, Row, Statuses
  <2>q. QED BY <2>1, IdleIsProc DEF Init, TypeOK
<1>3. HandlerInv /\ JobInv /\ CreateInv
  BY <1>1, IdleIs DEF Init, HandlerInv, HandlerOk, JobInv, CreateInv, Creating
<1>4. LockInv /\ SaveInv /\ FeeInv
  BY <1>1, IdleIs DEF Init, LockInv, LockedRowIsRequested, At, SaveInv, Saving, FeeInv, FeeDue
<1>q. QED BY <1>2, <1>3, <1>4 DEF Inv

\* and in every step.
LEMMA StepInv == Inv /\ [Next]_vars => Inv'
<1> SUFFICES ASSUME Inv, [Next]_vars PROVE Inv'
  OBVIOUS
<1>1. TypeOK'
  BY TypeStep DEF Inv
<1>q. QED BY <1>1, HandlerStep, CreateStep, LockStep, SaveStep, FeeStep DEF Inv

\* Whatever the handlers, jobs, restarts and Redis failures, the state of the
\* booking handlers satisfies the invariant.
THEOREM Invariance == Spec => []Inv
BY InitInv, StepInv, PTL DEF Spec

\* Every variable keeps its type.
THEOREM TypeCorrect == Spec => []TypeOK
<1>1. Inv => TypeOK
  BY DEF Inv
<1>q. QED BY <1>1, Invariance, PTL

\* What acceptBooking found under the row lock holds until it commits.
THEOREM LockHolds == Spec => []LockedRowIsRequested
<1>1. Inv => LockedRowIsRequested
  BY DEF Inv, LockInv
<1>q. QED BY <1>1, Invariance, PTL

\* The platform fee of a booking is asked once at most.
THEOREM FeeAskedOnce == Spec => []FeeOnce
<1>1. Inv => FeeOnce
  BY DEF Inv, FeeInv, FeeOnce, TypeOK
<1>q. QED BY <1>1, Invariance, PTL

\* A booking that was decided is never offered again.
THEOREM NeverReopened == Spec => NeverRequestedAgain
<1>1. Inv /\ [Next]_vars =>
        \A b \in Bookings : db[b].status \notin {"NONE", "REQUESTED"}
                             => db'[b].status \notin {"NONE", "REQUESTED"}
  BY ForwardStep DEF Forward, Decided
<1>q. QED BY <1>1, Invariance, PTL DEF Spec, NeverRequestedAgain

-----------------------------------------------------------------------------
(***************************************************************************)
(* The handlers of module Bookings implement module Offer.                 *)
(***************************************************************************)
\* The other requests that acceptBooking is about to cancel are the worker's.
SiblingInv == \A p \in Procs : At(p, "accept", "commit") =>
                \A x \in proc[p].siblings : Operator[x] = Operator[proc[p].b]

\* The three phases tell apart what the promise is about.
LEMMA PhaseIs ==
  ASSUME NEW s
  PROVE  /\ Phase(s) = "none" <=> s = "NONE"
         /\ Phase(s) = "asked" <=> s = "REQUESTED"
         /\ Phase(s) = "answered" <=> Decided(s)
         /\ Phase(s) \in {"none", "asked", "answered"}
BY DEF Phase, Decided

\* acceptBooking finds its siblings among the worker's bookings.
LEMMA LockSiblings ==
  ASSUME TypeOK, NEW p \in Procs, AcceptLock(p), proc'[p] # Idle
  PROVE  \A x \in proc'[p].siblings : Operator[x] = Operator[proc[p].b]
<1>1. proc \in [Procs -> Proc] /\ proc[p] \in Proc
  BY DEF TypeOK
<1>2. db[proc[p].b].status = "REQUESTED"
  BY <1>1 DEF AcceptLock, Finish
<1>3. proc'[p].siblings = {x \in Siblings(proc[p].b) : db[x].status = "REQUESTED"}
  BY <1>1, <1>2 DEF AcceptLock, Proc
<1>q. QED BY <1>3 DEF Siblings, Of

\* SiblingInv is preserved: acceptBooking does not look for siblings twice.
LEMMA SiblingStep ==
  ASSUME Inv, SiblingInv, [Next]_vars PROVE SiblingInv'
<1>1. TypeOK /\ HandlerInv /\ JobInv
  BY DEF Inv
<1>2. ASSUME NEW p \in Procs, Alone(p), proc'[p].pc # "commit" PROVE SiblingInv'
  BY <1>2 DEF SiblingInv, At, Alone
<1>3. ASSUME NEW p \in Procs, AcceptLock(p) PROVE SiblingInv'
  <2>1. CASE proc'[p] = Idle
    BY <1>1, <1>2, <1>3, <2>1, LockShape, IdleIs
  <2>2. CASE proc'[p] # Idle
    BY <1>1, <1>3, <2>2, LockShape, LockSiblings DEF SiblingInv, At, Alone, Same
  <2>q. QED BY <2>1, <2>2
<1>4. ASSUME NEW p \in Procs, Effect(p) PROVE SiblingInv'
  BY <1>1, <1>2, <1>4, EffectShape, IdleIs
<1>5. ASSUME NEW p \in Procs, Read(p) PROVE SiblingInv'
  BY <1>1, <1>2, <1>5, ReadShape, IdleIs
<1>6. ASSUME NEW p \in Procs, AcceptCommit(p) \/ CreateInsert(p) PROVE SiblingInv'
  BY <1>1, <1>2, <1>6, CommitShape, InsertShape
<1>7. ASSUME NEW p \in Procs, AcceptAbort(p) PROVE SiblingInv'
  BY <1>1, <1>2, <1>7, AbortShape, IdleIs
<1>8. ASSUME NEW p \in Procs, Select(p) PROVE SiblingInv'
  BY <1>1, <1>2, <1>8, SelectShape
<1>9. ASSUME NEW p \in Procs, Update(p) PROVE SiblingInv'
  BY <1>1, <1>2, <1>9, UpdateShape, IdleIs
<1>10. ASSUME NEW p \in Procs, Begins(p) PROVE SiblingInv'
  <2>1. Begun(p) /\ Alone(p)
    BY <1>1, <1>10, BeginShape DEF Begins
  <2>q. QED BY <1>2, <2>1, HandlerIs DEF Begun
<1>11. CASE Crash
  BY <1>11, CrashShape, IdleIs DEF SiblingInv, At
<1>12. CASE Environment \/ UNCHANGED vars
  BY <1>12, EnvironmentShape DEF SiblingInv, At
<1>q. QED
  BY <1>3, <1>4, <1>5, <1>6, <1>7, <1>8, <1>9, <1>10, <1>11, <1>12, Cases

-----------------------------------------------------------------------------
(***************************************************************************)
(* What each step is for the promise.  Phases are compared booking by      *)
(* booking, and the fee is owed while some handler is about to ask it.     *)
(***************************************************************************)
LEMMA OwedSame ==
  ASSUME HandlerInv, NEW p \in Procs, Alone(p),
         ~ FeeDue(p), ~ FeeDue(p)'
  PROVE  Owed' = Owed
BY DEF Owed, FeeDue, Alone

\* Where no row changes its phase, no fee is asked or comes due, the promise stutters.
LEMMA Stutters ==
  ASSUME UNCHANGED fees, Owed' = Owed,
         \A b \in Bookings : Phase(db'[b].status) = Phase(db[b].status)
  PROVE  UNCHANGED Offered!vars
BY DEF Offered!vars

\* createBooking asks.
LEMMA InsertAsks ==
  ASSUME Inv, NEW p \in Procs, CreateInsert(p)
  PROVE  Offered!Ask(proc[p].b)
<1> DEFINE b == proc[p].b
<1>1. /\ TypeOK /\ HandlerInv /\ b \in Bookings /\ UNCHANGED fees
      /\ db[b].status = "NONE"
      /\ db' = [db EXCEPT ![b] = NewRow]
  BY InsertShape DEF Inv, CreateInv, Creating, At
<1>2. Owed' = Owed
  BY <1>1, InsertShape, OwedSame DEF FeeDue, At, Same
<1>3. NewRow.status = "REQUESTED"
  BY DEF NewRow, NoRow
<1>4. \A x \in Bookings : db'[x].status = IF x = b THEN "REQUESTED" ELSE db[x].status
  BY <1>1, <1>3 DEF TypeOK
<1>5. ASSUME NEW x \in Bookings
      PROVE  Phase(db'[x].status) = IF x = b THEN "asked" ELSE Phase(db[x].status)
  BY <1>4, PhaseIs
<1>7. [x \in Bookings |-> Phase(db'[x].status)]
        = [[x \in Bookings |-> Phase(db[x].status)] EXCEPT ![b] = "asked"]
  BY <1>1, <1>5
<1>6. [x \in Bookings |-> Phase(db[x].status)][b] = "none"
  BY <1>1, PhaseIs
<1>q. QED BY <1>1, <1>2, <1>6, <1>7 DEF Offered!Ask

\* acceptBooking's commit takes the booking and closes the siblings that still wait.
LEMMA CommitTakes ==
  ASSUME Inv, SiblingInv, NEW p \in Procs, AcceptCommit(p)
  PROVE  Offered!Take(proc[p].b)
<1> DEFINE b == proc[p].b
           ph == [x \in Bookings |-> Phase(db[x].status)]
           S == {x \in proc[p].siblings : db[x].status = "REQUESTED"}
<1>1. /\ TypeOK /\ HandlerInv /\ LockInv /\ FeeInv
      /\ At(p, "accept", "commit") /\ b \in Bookings /\ proc[p].siblings \subseteq Bookings
  BY CommitShape DEF Inv, TypeOK, Proc
<1>2. db[b].status = "REQUESTED" /\ ph[b] = "asked"
  BY <1>1, PhaseIs DEF LockInv, LockedRowIsRequested
<1>3. S \in SUBSET {x \in Bookings : Operator[x] = Operator[b] /\ ph[x] = "asked"}
  BY <1>1, PhaseIs DEF SiblingInv
<1>4. ASSUME NEW x \in Bookings
      PROVE  db'[x].status = IF x = b THEN "ACCEPTED"
                             ELSE IF x \in proc[p].siblings THEN "CANCELLED"
                             ELSE db[x].status
  BY <1>1 DEF AcceptCommit, Status, TypeOK, Row
<1>5. ASSUME NEW x \in proc[p].siblings PROVE db[x].status # "NONE"
  BY <1>1 DEF HandlerInv, HandlerOk
<1>6. ASSUME NEW x \in Bookings
      PROVE  Phase(db'[x].status) = IF x \in S \cup {b} THEN "answered" ELSE ph[x]
  <2>1. CASE x = b
    BY <1>4, <2>1, PhaseIs DEF Decided
  <2>2. CASE x # b /\ x \in proc[p].siblings
    BY <1>4, <1>5, <2>2, PhaseIs DEF Decided
  <2>3. CASE x # b /\ x \notin proc[p].siblings
    BY <1>4, <2>3
  <2>q. QED BY <2>1, <2>2, <2>3
<1>7. [x \in Bookings |-> Phase(db'[x].status)]
        = [x \in Bookings |-> IF x \in S \cup {b} THEN "answered" ELSE ph[x]]
  BY <1>6
<1>8. Owed' = Owed \cup {b}
  <2>1. Alone(p) /\ Same(p) /\ ~ FeeDue(p) /\ FeeDue(p)'
    BY <1>1, CommitShape DEF FeeDue, At, Same
  <2>q. QED BY <1>1, <2>1 DEF Owed, FeeDue, Alone, Same
<1>9. UNCHANGED fees
  BY <1>1, CommitShape
<1>q. QED
  <2> HIDE DEF S
  <2>q. QED BY <1>2, <1>3, <1>7, <1>8, <1>9 DEF Offered!Take, Offered!Answer, Offered!Asked

\* The UPDATE of a save() closes a request that was still asked, or answers
\* nothing: it never asks again.
LEMMA UpdateCloses ==
  ASSUME Inv, [Next]_vars, NEW p \in Procs, Update(p)
  PROVE  Offered!Close(proc[p].b) \/ UNCHANGED Offered!vars
<1> DEFINE b == proc[p].b
           ph == [x \in Bookings |-> Phase(db[x].status)]
<1>1. /\ TypeOK /\ HandlerInv /\ UNCHANGED fees /\ b \in Bookings
      /\ \A x \in Bookings : x # b => db'[x] = db[x]
      /\ db'[b].status \in {db[b].status, Entity(proc[p]).status}
      /\ Decided(Entity(proc[p]).status) /\ proc[p].op # "accept"
      /\ proc[p].pc \in {"update", "update2"} /\ Alone(p)
      /\ proc'[p] = Idle \/ Same(p)
  BY UpdateShape DEF Inv, HandlerInv, HandlerOk, SaveInv, Saving
<1>2. Owed' = Owed
  BY <1>1, OwedSame, IdleIs DEF FeeDue, Same
<1>3. db[b].status # "NONE"
  BY <1>1 DEF HandlerInv, HandlerOk
<1>4. CASE Phase(db'[b].status) = Phase(db[b].status)
  <2>1. \A x \in Bookings : Phase(db'[x].status) = Phase(db[x].status)
    BY <1>1, <1>4
  <2>q. QED BY <1>1, <1>2, <2>1, Stutters
<1>5. CASE Phase(db'[b].status) # Phase(db[b].status)
  <2>1. ph[b] = "asked" /\ Phase(db'[b].status) = "answered"
    BY <1>1, <1>3, <1>5, ForwardStep, PhaseIs DEF Forward, Decided
  <2>2. \A x \in Bookings : Phase(db'[x].status) = IF x = b THEN "answered" ELSE ph[x]
    BY <1>1, <2>1
  <2>3. [x \in Bookings |-> Phase(db'[x].status)]
          = [x \in Bookings |-> IF x \in {b} THEN "answered" ELSE ph[x]]
    BY <2>2
  <2>q. QED BY <1>1, <1>2, <2>1, <2>3 DEF Offered!Close, Offered!Answer
<1>q. QED BY <1>4, <1>5

\* While a fee is due, asking it is the only side effect that can run.
LEMMA DueIsNext ==
  ASSUME HandlerInv, NEW p \in Procs, proc[p] \in Proc, FeeDue(p), Effect(p)
  PROVE  DeductBookingFee(p)
<1>1. proc[p].k = 1 /\ proc[p].op = "accept" /\ proc[p].pc = "effects"
  BY DEF FeeDue, HandlerInv, HandlerOk, Proc
<1>2. Script(proc[p])[1] = "fee"
  BY <1>1 DEF Script
<1>3. ASSUME NEW e, NextEffect(p, e) PROVE e = "fee"
  BY <1>1, <1>2, <1>3 DEF NextEffect
<1>q. QED
  BY <1>3 DEF Effect, QueueTimeout, QueueGpsCheck, Enqueue, CacheBookingStatus, AddPendingBooking,
     RemovePendingBooking, MarkBusy, ReleaseWorker, SetWorkerStatus, CancelSiblings, Refill

\* A side effect charges what is owed, or changes nothing of the promise.
LEMMA EffectCharges ==
  ASSUME Inv, NEW p \in Procs, Effect(p)
  PROVE  Offered!Charge(proc[p].b) \/ UNCHANGED Offered!vars
<1> DEFINE b == proc[p].b
<1>1. /\ TypeOK /\ HandlerInv /\ FeeInv /\ proc[p] \in Proc /\ proc[p].pc = "effects"
      /\ UNCHANGED db /\ Alone(p) /\ proc[p].k >= 1 /\ b \in Bookings
      /\ proc'[p] = Idle \/ (Same(p) /\ proc'[p].k \in {proc[p].k, proc[p].k + 1})
  BY EffectShape DEF Inv, TypeOK, HandlerInv, HandlerOk
<1>2. \A x \in Bookings : Phase(db'[x].status) = Phase(db[x].status)
  BY <1>1
<1>3. CASE FeeDue(p)
  <2>1. DeductBookingFee(p)
    BY <1>1, <1>3, DueIsNext
  <2>2. fees' = [fees EXCEPT ![b] = @ + 1]
    BY <2>1 DEF DeductBookingFee
  <2>3. fees'[b] # fees[b]
    BY <1>1, <2>2 DEF TypeOK
  <2>4. proc'[p] = Idle \/ proc'[p].k = proc[p].k + 1
    BY <1>1, <2>3, EffectShape
  <2>5. ~ FeeDue(p)'
    BY <1>1, <2>4, IdleIs DEF FeeDue, Proc
  <2>6. ASSUME NEW x \in Bookings PROVE x \in Owed' <=> x \in Owed \ {b}
    <3>1. ASSUME NEW q \in Procs, FeeDue(q)', proc'[q].b = x
          PROVE  x \in Owed \ {b}
      <4>1. q # p /\ proc'[q] = proc[q] /\ FeeDue(q)
        BY <1>1, <2>5, <3>1 DEF Alone, FeeDue
      <4>2. proc[q].b # b
        BY <1>1, <1>3, <4>1 DEF FeeInv
      <4>q. QED BY <3>1, <4>1, <4>2 DEF Owed
    <3>2. ASSUME NEW q \in Procs, FeeDue(q), proc[q].b = x, x # b
          PROVE  x \in Owed'
      <4>1. q # p /\ proc'[q] = proc[q]
        BY <1>1, <3>2 DEF Alone
      <4>2. FeeDue(q)'
        BY <3>2, <4>1 DEF FeeDue
      <4>q. QED BY <3>2, <4>1, <4>2 DEF Owed
    <3>q. QED BY <3>1, <3>2 DEF Owed
  <2>7. Owed' = Owed \ {b}
    BY <2>6 DEF Owed
  <2>8. b \in Owed
    BY <1>1, <1>3 DEF Owed
  <2>9. UNCHANGED [x \in Bookings |-> Phase(db[x].status)]
    BY <1>2
  <2>q. QED BY <2>2, <2>7, <2>8, <2>9 DEF Offered!Charge
<1>4. CASE ~ FeeDue(p)
  <2>1. ~ NextEffect(p, "fee")
    BY <1>1, <1>4, FeeIsFirst DEF NextEffect, FeeDue
  <2>2. UNCHANGED fees
    BY <1>1, <2>1, EffectShape
  <2>3. ~ FeeDue(p)'
    BY <1>1, <1>4, EffectShape, IdleIs DEF FeeDue, Same, Proc
  <2>q. QED BY <1>1, <1>2, <1>4, <2>2, <2>3, OwedSame, Stutters
<1>q. QED BY <1>3, <1>4

\* A restart forgets what is due.
LEMMA CrashForgets ==
  ASSUME Crash PROVE Offered!Forget
<1>1. /\ \A q \in Procs : proc'[q] = Idle
      /\ UNCHANGED <<db, fees>>
  BY CrashShape
<1>2. Owed' = {}
  BY <1>1, IdleIs DEF Owed, FeeDue
<1>q. QED BY <1>1, <1>2 DEF Offered!Forget

\* Every step of the handlers is a step of the promise or leaves it alone.
LEMMA OfferStep ==
  ASSUME Inv, SiblingInv, [Next]_vars PROVE [Offered!Next]_Offered!vars
<1>1. TypeOK /\ HandlerInv /\ JobInv
  BY DEF Inv
<1>2. \A q \in Procs : proc[q].pc # "idle" => proc[q].b \in Bookings
  BY <1>1 DEF HandlerInv, HandlerOk
\* The handler neither owed a fee nor comes to owe one.
<1>3. ASSUME NEW p \in Procs, Alone(p), UNCHANGED <<db, fees>>,
             proc[p].pc # "effects",
             proc'[p] = Idle \/ proc'[p].op # "accept" \/ proc'[p].pc # "effects"
      PROVE  UNCHANGED Offered!vars
  BY <1>1, <1>3, OwedSame, Stutters, IdleIs DEF FeeDue
<1>4. ASSUME NEW p \in Procs, Effect(p) PROVE [Offered!Next]_Offered!vars
  BY <1>1, <1>2, <1>4, EffectCharges, EffectShape DEF Offered!Next
<1>5. ASSUME NEW p \in Procs, Read(p) PROVE UNCHANGED Offered!vars
  BY <1>1, <1>3, <1>5, ReadShape DEF Same
<1>6. ASSUME NEW p \in Procs, AcceptLock(p) PROVE UNCHANGED Offered!vars
  BY <1>1, <1>3, <1>6, LockShape DEF At
<1>7. ASSUME NEW p \in Procs, AcceptCommit(p) PROVE Offered!Next
  BY <1>1, <1>7, CommitTakes, CommitShape DEF Offered!Next
<1>8. ASSUME NEW p \in Procs, AcceptAbort(p) PROVE UNCHANGED Offered!vars
  BY <1>1, <1>3, <1>8, AbortShape DEF At
<1>9. ASSUME NEW p \in Procs, CreateInsert(p) PROVE Offered!Next
  BY <1>1, <1>9, InsertAsks, InsertShape DEF Offered!Next
<1>10. ASSUME NEW p \in Procs, Select(p) PROVE UNCHANGED Offered!vars
  BY <1>1, <1>3, <1>10, SelectShape
<1>11. ASSUME NEW p \in Procs, Update(p) PROVE [Offered!Next]_Offered!vars
  <2>1. proc[p].b \in Bookings
    BY <1>1, <1>2, <1>11, UpdateShape
  <2>q. QED BY <1>11, <2>1, UpdateCloses DEF Offered!Next
<1>12. ASSUME NEW p \in Procs, Begins(p) PROVE UNCHANGED Offered!vars
  <2>1. Begun(p) /\ Alone(p) /\ UNCHANGED <<db, fees>>
    BY <1>1, <1>12, BeginShape DEF Begins
  <2>2. proc[p].pc # "effects" /\ proc'[p].pc = "read"
    BY <2>1, IdleIs, HandlerIs DEF Begun
  <2>q. QED BY <1>3, <2>1, <2>2
<1>13. CASE Crash
  BY <1>13, CrashForgets DEF Offered!Next
<1>14. CASE Environment \/ UNCHANGED vars
  BY <1>14, EnvironmentShape, Stutters DEF Owed, FeeDue
<1>q. QED
  BY <1>4, <1>5, <1>6, <1>7, <1>8, <1>9, <1>10, <1>11, <1>12, <1>13, <1>14, Cases

\* Initially nothing is asked, owed or charged.
LEMMA OfferInit == Init => Offered!Init /\ SiblingInv
<1> SUFFICES ASSUME Init PROVE Offered!Init /\ SiblingInv
  OBVIOUS
<1>1. \A p \in Procs : proc[p] = Idle
  BY DEF Init
<1>2. \A b \in Bookings : Phase(db[b].status) = "none"
  BY PhaseIs DEF Init, NoRow
<1>3. Owed = {}
  BY <1>1, IdleIs DEF Owed, FeeDue
<1>4. SiblingInv
  BY <1>1, IdleIs DEF SiblingInv, At
<1>q. QED BY <1>2, <1>3, <1>4 DEF Offered!Init, Init

\* The booking handlers keep the promise of module Offer, for every number of
\* bookings, workers, handlers in flight, Redis failures and restarts.
THEOREM Refinement == Spec => OfferKept
<1>1. Inv /\ SiblingInv /\ [Next]_vars => Inv' /\ SiblingInv'
  BY StepInv, SiblingStep
<1>2. Inv /\ SiblingInv /\ [Next]_vars => [Offered!Next]_Offered!vars
  BY OfferStep
<1>q. QED BY InitInv, OfferInit, <1>1, <1>2, PTL DEF Spec, OfferKept, Offered!Spec

-----------------------------------------------------------------------------
(***************************************************************************)
(* More of what the steps do: to the restarts, the entities in flight and  *)
(* the jobs.                                                               *)
(***************************************************************************)
LEMMA RestartsGrow ==
  ASSUME [Next]_vars PROVE restarts' = restarts \/ (Crash /\ restarts' = restarts + 1)
<1>1. ASSUME NEW p \in Procs, Effect(p) PROVE UNCHANGED restarts
  BY <1>1 DEF Effect, QueueTimeout, QueueGpsCheck, Enqueue, DeductBookingFee, CacheBookingStatus,
     AddPendingBooking, RemovePendingBooking, MarkBusy, ReleaseWorker, SetWorkerStatus,
     CancelSiblings, Refill
<1>2. ASSUME NEW p \in Procs, Read(p) PROVE UNCHANGED restarts
  BY <1>2 DEF Read, CreateCheck, ReadIf, RejectBooking, DeclineBooking, CancelBooking,
     VerifyArrivalOtp, VerifyCompletionOtp, MarkPaid, RefreshCompletionOtp, SubmitRating,
     TimeoutCheck, TimeoutCancel, GpsCheck, AddGpsStrike, PollStatus, FindPendingForWorker
<1>3. ASSUME NEW p \in Procs, \/ AcceptLock(p) \/ AcceptCommit(p) \/ AcceptAbort(p)
                              \/ CreateInsert(p) \/ Select(p) \/ Update(p) \/ Begins(p)
      PROVE  UNCHANGED restarts
  BY <1>3 DEF AcceptLock, AcceptCommit, AcceptAbort, CreateInsert, Select, Update, Begins, RunJob,
     StartJob, Request
<1>4. CASE Environment \/ UNCHANGED vars
  BY <1>4 DEF Environment, ExpirePending, ExpireStatus, vars
<1>q. QED BY <1>1, <1>2, <1>3, <1>4, Cases DEF Crash

\* The entity a handler holds is the row of its booking as it once was, but for
\* the strike that tenMinuteGpsCheck has added.
LEMMA BaseShape ==
  ASSUME TypeOK, HandlerInv, NEW p \in Procs,
         \/ Effect(p) \/ Read(p) \/ AcceptLock(p) \/ AcceptCommit(p) \/ AcceptAbort(p)
         \/ CreateInsert(p) \/ Select(p) \/ Update(p)
  PROVE  \/ proc'[p] = Idle
         \/ /\ Same(p)
            /\ \/ proc'[p].base \in {proc[p].base, db[proc[p].b]}
               \/ /\ Update(p) /\ At(p, "gps", "update") /\ Forfeits(proc[p])
                  /\ proc'[p].base = Entity(proc[p]) /\ proc'[p].pc = "select2"
<1>1. proc \in [Procs -> Proc] /\ proc[p] \in Proc
  BY DEF TypeOK
<1>2. CASE Effect(p)
  BY <1>2, EffectShape
<1>3. CASE Read(p)
  <2> SUFFICES proc'[p] = Idle \/ proc'[p].base \in {proc[p].base, db[proc[p].b]}
    BY <1>3, ReadShape
  <2>1. ASSUME Finish(p) PROVE proc'[p] = Idle
    BY <1>1, <2>1 DEF Finish
  <2>2. ASSUME NEW pc, Goto(p, pc) PROVE proc'[p].base = proc[p].base
    BY <1>1, <2>2 DEF Goto, Proc
  <2>3. ASSUME NEW pc, Load(p, pc) PROVE proc'[p].base = db[proc[p].b]
    BY <1>1, <2>3 DEF Load, Proc
  <2>4. CASE PollStatus(p)
    <3>1. CASE ~ Finish(p)
      BY <1>1, <2>4, <3>1 DEF PollStatus, Proc
    <3>q. QED BY <2>1, <3>1
  <2>5. CASE FindPendingForWorker(p)
    <3>1. CASE ~ Finish(p)
      BY <1>1, <2>5, <3>1 DEF FindPendingForWorker, Proc
    <3>q. QED BY <2>1, <3>1
  <2>6. CASE ~ (PollStatus(p) \/ FindPendingForWorker(p))
    <3>1. Finish(p) \/ (\E pc : Goto(p, pc)) \/ (\E pc : Load(p, pc))
      BY <1>3, <2>6 DEF Read, CreateCheck, ReadIf, RejectBooking, DeclineBooking, CancelBooking,
         VerifyArrivalOtp, VerifyCompletionOtp, MarkPaid, RefreshCompletionOtp, SubmitRating,
         TimeoutCheck, TimeoutCancel, GpsCheck, AddGpsStrike
    <3>q. QED BY <2>1, <2>2, <2>3, <3>1
  <2>q. QED BY <2>4, <2>5, <2>6
<1>4. CASE AcceptLock(p)
  <2>1. CASE Finish(p)
    BY <1>1, <2>1 DEF Finish
  <2>2. CASE ~ Finish(p)
    BY <1>1, <1>4, <2>2 DEF AcceptLock, Same, Proc
  <2>q. QED BY <2>1, <2>2
<1>5. CASE AcceptCommit(p) \/ CreateInsert(p)
  BY <1>1, <1>5 DEF AcceptCommit, CreateInsert, RunEffects, Same, Proc
<1>6. CASE AcceptAbort(p)
  BY <1>6, AbortShape
<1>7. CASE Select(p)
  BY <1>7, SelectShape
<1>8. CASE Update(p)
  <2>1. CASE At(p, "gps", "update") /\ Forfeits(proc[p])
    <3>1. proc' = [proc EXCEPT ![p].pc = "select2", ![p].base = Entity(proc[p]), ![p].dirty = {}]
      BY <1>8, <2>1 DEF Update
    <3>q. QED BY <1>1, <1>8, <2>1, <3>1 DEF Same, Proc
  <2>2. CASE Finish(p)
    BY <1>1, <2>2 DEF Finish
  <2>3. CASE RunEffects(p)
    BY <1>1, <2>3 DEF RunEffects, Same, Proc
  <2>q. QED BY <1>8, <2>1, <2>2, <2>3 DEF Update
<1>q. QED BY <1>2, <1>3, <1>4, <1>5, <1>6, <1>7, <1>8

\* createBooking alone queues the timeout; acceptBooking and tenMinuteGpsCheck the check.
LEMMA QueueIsOf ==
  ASSUME NEW v \in Proc, v.k >= 1, v.k <= Len(Script(v)),
         NEW e \in {"queueTimeout", "queueGps"}, Script(v)[v.k] = e
  PROVE  /\ e = "queueTimeout" => v.op = "create" /\ v.k = 1
         /\ e = "queueGps" => /\ v.op = "accept" \/ (v.op = "gps" /\ ~ Forfeits(v))
                              /\ v.k = Len(Script(v))
<1>1. v.k \in Nat
  BY DEF Proc
<1>2. CASE v.op = "accept"
  BY <1>1, <1>2 DEF Script
<1>3. CASE v.op = "create"
  BY <1>1, <1>3 DEF Script
<1>4. CASE v.op \in {"reject", "decline", "cancel", "timeout", "arrival", "completion", "poll", "list"}
  BY <1>1, <1>4 DEF Script
<1>5. CASE v.op = "gps"
  BY <1>1, <1>5 DEF Script
<1>6. CASE v.op \notin {"accept", "create", "reject", "decline", "cancel", "timeout", "arrival",
                       "completion", "poll", "list", "gps"}
  BY <1>1, <1>6 DEF Script
<1>q. QED BY <1>2, <1>3, <1>4, <1>5, <1>6

\* A side effect adds a job only where its script says so, and takes away its own at
\* most, when it ends.
LEMMA QueueShape ==
  ASSUME TypeOK, HandlerInv, NEW p \in Procs, Effect(p)
  PROVE  /\ \A j \in jobs' : \/ j \in jobs
                             \/ j = <<"timeout", proc[p].b>> /\ proc[p].op = "create"
                             \/ /\ j = <<"gps", proc[p].b>> /\ proc'[p] = Idle
                                /\ proc[p].op = "accept" \/ (proc[p].op = "gps" /\ ~ Forfeits(proc[p]))
         /\ \A j \in jobs : \/ j \in jobs'
                            \/ j = <<proc[p].op, proc[p].b>> /\ proc'[p] = Idle
<1>1. proc \in [Procs -> Proc] /\ proc[p] \in Proc
  BY DEF TypeOK
<1>2. Finish(p) => jobs' = jobs \ {<<proc[p].op, proc[p].b>>} /\ proc'[p] = Idle
  BY <1>1 DEF Finish
<1>3. CASE jobs' = jobs \/ Finish(p)
  BY <1>2, <1>3
<1>4. CASE ~ (jobs' = jobs \/ Finish(p))
  <2>1. ~ Advance(p)
    BY <1>4 DEF Advance
  <2>2. QueueTimeout(p) \/ QueueGpsCheck(p)
    BY <1>4, <2>1 DEF Effect, DeductBookingFee, CacheBookingStatus, AddPendingBooking,
       RemovePendingBooking, MarkBusy, ReleaseWorker, SetWorkerStatus, CancelSiblings, Refill,
       CancelOne, RefillOne
  <2>3. proc[p].k >= 1
    BY <2>2 DEF QueueTimeout, QueueGpsCheck, Enqueue, NextEffect, HandlerInv, HandlerOk
  <2>4. CASE QueueTimeout(p)
    <3>1. jobs' = jobs \cup {<<"timeout", proc[p].b>>} /\ NextEffect(p, "queueTimeout")
      BY <1>4, <2>4 DEF QueueTimeout, Enqueue
    <3>2. proc[p].op = "create"
      BY <1>1, <2>3, <3>1, QueueIsOf DEF NextEffect
    <3>q. QED BY <3>1, <3>2
  <2>5. CASE QueueGpsCheck(p)
    <3>1. jobs' = jobs \cup {<<"gps", proc[p].b>>} /\ NextEffect(p, "queueGps")
      BY <1>4, <2>5 DEF QueueGpsCheck, Enqueue
    <3>2. /\ proc[p].op = "accept" \/ (proc[p].op = "gps" /\ ~ Forfeits(proc[p]))
          /\ proc[p].k = Len(Script(proc[p]))
      BY <1>1, <2>3, <3>1, QueueIsOf DEF NextEffect
    <3>3. proc'[p] = Idle
      BY <1>1, <1>4, <2>5, <3>2 DEF QueueGpsCheck, Enqueue
    <3>q. QED BY <3>1, <3>2, <3>3
  <2>q. QED BY <2>2, <2>4, <2>5
<1>q. QED BY <1>3, <1>4

\* The other steps add no job.
LEMMA JobsShape ==
  ASSUME TypeOK, HandlerInv, NEW p \in Procs,
         \/ Read(p) \/ AcceptLock(p) \/ AcceptCommit(p) \/ AcceptAbort(p)
         \/ CreateInsert(p) \/ Select(p) \/ Update(p) \/ Begins(p)
  PROVE  \/ jobs' = jobs
         \/ jobs' = jobs \ {<<proc[p].op, proc[p].b>>} /\ proc'[p] = Idle /\ Finish(p)
<1>1. proc \in [Procs -> Proc]
  BY DEF TypeOK
<1>2. Finish(p) => jobs' = jobs \ {<<proc[p].op, proc[p].b>>} /\ proc'[p] = Idle
  BY <1>1 DEF Finish
<1>3. CASE Read(p)
  BY <1>2, <1>3 DEF Read, CreateCheck, ReadIf, RejectBooking, DeclineBooking, CancelBooking,
     VerifyArrivalOtp, VerifyCompletionOtp, MarkPaid, RefreshCompletionOtp, SubmitRating,
     TimeoutCheck, TimeoutCancel, GpsCheck, AddGpsStrike, PollStatus, FindPendingForWorker
<1>4. CASE ~ Read(p)
  BY <1>2, <1>4 DEF AcceptLock, AcceptCommit, AcceptAbort, CreateInsert, Select, Update, Begins,
     RunJob, StartJob, Request
<1>q. QED BY <1>3, <1>4

-----------------------------------------------------------------------------
(***************************************************************************)
(* No job is done for free.  What shows that a booking was accepted, in    *)
(* the table, in a handler's entity or among the jobs, goes with its fee.  *)
(***************************************************************************)
Paying == {b \in Bookings : fees[b] = 1 \/ restarts > 0 \/ b \in Owed}

Earned(row) == row.status \in {"ACCEPTED", "ACTIVE", "COMPLETED"} \/ row.paid

Working(v) == \/ v.op \in {"arrival", "completion", "paid", "refresh", "rate", "gps"}
              \/ v.op = "accept" /\ v.pc = "effects"
              \/ Earned(v.base)

ChargeInv ==
  /\ \A b \in Bookings : Earned(db[b]) => b \in Paying
  /\ \A p \in Procs : Working(proc[p]) => proc[p].b \in Paying
  /\ \A j \in jobs : j[1] = "gps" => j[2] \in Paying

\* A fee that is asked or due stays so, until a restart forgets it.
LEMMA PayingStays ==
  ASSUME Inv, SiblingInv, [Next]_vars PROVE Paying \subseteq Paying'
<1>1. TypeOK /\ HandlerInv /\ JobInv /\ SaveInv
  BY DEF Inv
<1>2. FeeInv'
  BY FeeStep
<1>3. restarts > 0 => restarts' > 0
  <2>1. restarts \in Nat /\ restarts' \in {restarts, restarts + 1}
    BY <1>1, RestartsGrow DEF TypeOK
  <2>q. QED BY <2>1
<1>4. ASSUME UNCHANGED fees, Owed \subseteq Owed' PROVE Paying \subseteq Paying'
  BY <1>3, <1>4 DEF Paying
<1>5. ASSUME NEW p \in Procs, Alone(p), UNCHANGED fees, ~ FeeDue(p), ~ FeeDue(p)'
      PROVE  Paying \subseteq Paying'
  BY <1>1, <1>4, <1>5, OwedSame
<1>6. ASSUME NEW p \in Procs, Effect(p) PROVE Paying \subseteq Paying'
  <2>1. CASE UNCHANGED Offered!vars
    BY <1>4, <2>1 DEF Offered!vars
  <2>2. CASE Offered!Charge(proc[p].b)
    <3>1. /\ proc[p].b \in Owed
          /\ fees' = [fees EXCEPT ![proc[p].b] = @ + 1]
          /\ Owed' = Owed \ {proc[p].b}
      BY <2>2 DEF Offered!Charge
    <3>2. \A b \in Bookings : b # proc[p].b => fees'[b] = fees[b]
      BY <1>1, <3>1 DEF TypeOK
    <3>3. proc[p].b \in Bookings => fees'[proc[p].b] = 1
      BY <1>1, <1>2, <3>1 DEF FeeInv, TypeOK
    <3>q. QED BY <1>3, <3>1, <3>2, <3>3 DEF Paying
  <2>q. QED BY <1>6, <2>1, <2>2, EffectCharges
<1>7. ASSUME NEW p \in Procs, AcceptCommit(p) PROVE Paying \subseteq Paying'
  BY <1>4, <1>7, CommitTakes DEF Offered!Take
<1>8. ASSUME NEW p \in Procs, CreateInsert(p) PROVE Paying \subseteq Paying'
  BY <1>4, <1>8, InsertAsks DEF Offered!Ask
<1>9. ASSUME NEW p \in Procs, Update(p) PROVE Paying \subseteq Paying'
  BY <1>4, <1>9, UpdateCloses DEF Offered!Close, Offered!vars
<1>10. ASSUME NEW p \in Procs, Read(p) PROVE Paying \subseteq Paying'
  BY <1>1, <1>5, <1>10, ReadShape, IdleIs DEF FeeDue, Same
<1>11. ASSUME NEW p \in Procs, AcceptLock(p) PROVE Paying \subseteq Paying'
  BY <1>1, <1>5, <1>11, LockShape, IdleIs DEF FeeDue, At
<1>12. ASSUME NEW p \in Procs, AcceptAbort(p) PROVE Paying \subseteq Paying'
  BY <1>1, <1>5, <1>12, AbortShape, IdleIs DEF FeeDue, At
<1>13. ASSUME NEW p \in Procs, Select(p) PROVE Paying \subseteq Paying'
  BY <1>1, <1>5, <1>13, SelectShape DEF FeeDue
<1>14. ASSUME NEW p \in Procs, Begins(p) PROVE Paying \subseteq Paying'
  <2>1. Begun(p) /\ Alone(p) /\ UNCHANGED fees
    BY <1>1, <1>14, BeginShape DEF Begins
  <2>2. ~ FeeDue(p) /\ ~ FeeDue(p)'
    BY <2>1, IdleIs, HandlerIs DEF Begun, FeeDue
  <2>q. QED BY <1>5, <2>1, <2>2
<1>15. CASE Crash
  <2>1. restarts' > 0
    BY <1>1, <1>15 DEF Crash, TypeOK
  <2>q. QED BY <2>1 DEF Paying
<1>16. CASE Environment \/ UNCHANGED vars
  <2>1. Owed' = Owed /\ UNCHANGED fees
    BY <1>16, EnvironmentShape DEF Owed, FeeDue
  <2>q. QED BY <1>4, <2>1
<1>q. QED
  BY <1>6, <1>7, <1>8, <1>9, <1>10, <1>11, <1>12, <1>13, <1>14, <1>15, <1>16, Cases

\* A handler saves as accepted, or paid, only what it read so or is at work on.
LEMMA EntityEarned ==
  ASSUME NEW v \in Proc, Earned(Entity(v)) PROVE Working(v)
<1>1. v.base \in Row
  BY DEF Proc
<1>2. CASE v.op \in {"arrival", "completion", "paid", "refresh", "rate", "gps"}
  BY <1>2 DEF Working
<1>3. CASE v.op \in {"reject", "decline", "cancel", "timeout"}
  BY <1>1, <1>3 DEF Working, Earned, Entity, Status, Outcome, Row
<1>4. CASE v.op \notin {"arrival", "completion", "paid", "refresh", "rate", "gps",
                       "reject", "decline", "cancel", "timeout"}
  BY <1>1, <1>4 DEF Working, Earned, Entity
<1>q. QED BY <1>2, <1>3, <1>4

\* A request for accepted work, or the GPS job, begins for a booking whose fee is asked.
LEMMA BeginsPaying ==
  ASSUME TypeOK, ChargeInv, NEW p \in Procs, Begins(p), Working(proc'[p])
  PROVE  proc'[p].b \in Paying
<1>1. proc \in [Procs -> Proc]
  BY DEF TypeOK
<1>2. ASSUME NEW op, NEW b, proc' = [proc EXCEPT ![p] = Handler(op, b)]
      PROVE  /\ proc'[p].b = b
             /\ op \in {"arrival", "completion", "paid", "refresh", "rate", "gps"}
  <2>1. proc'[p] = Handler(op, b)
    BY <1>1, <1>2
  <2>2. ~ Earned(NoRow)
    BY DEF Earned, NoRow
  <2>q. QED BY <2>1, <2>2, HandlerIs DEF Working
<1>3. ASSUME NEW job \in Jobs \cap Requests, NEW b \in Bookings, StartJob(p, job, b)
      PROVE  proc'[p].b \in Paying
  <2>1. /\ proc'[p].b = b /\ <<job, b>> \in jobs
        /\ job \in {"arrival", "completion", "paid", "refresh", "rate", "gps"}
    BY <1>2, <1>3 DEF StartJob
  <2>2. job = "gps"
    BY <2>1 DEF Jobs
  <2>q. QED BY <2>1, <2>2 DEF ChargeInv
<1>4. ASSUME NEW op \in Endpoints \cap Requests, NEW b \in Bookings, Request(p, op, b)
      PROVE  proc'[p].b \in Paying
  <2>1. /\ proc'[p].b = b /\ ClientMay(op, b)
        /\ op \in {"arrival", "completion", "paid", "refresh", "rate", "gps"}
    BY <1>2, <1>4 DEF Request
  <2>2. op # "gps"
    BY DEF Endpoints
  <2>3. Earned(db[b])
    BY <2>1, <2>2 DEF ClientMay, Earned
  <2>q. QED BY <2>1, <2>3 DEF ChargeInv
<1>q. QED BY <1>3, <1>4 DEF Begins, RunJob

\* ChargeInv is preserved: rows first,
LEMMA EarnedStep ==
  ASSUME Inv, SiblingInv, ChargeInv, [Next]_vars
  PROVE  \A b \in Bookings : Earned(db'[b]) => b \in Paying'
<1>1. TypeOK /\ HandlerInv /\ JobInv
  BY DEF Inv
<1>2. Paying \subseteq Paying'
  BY PayingStays
<1>3. ASSUME \A b \in Bookings : Earned(db'[b]) => Earned(db[b]) \/ b \in Paying'
      PROVE  \A b \in Bookings : Earned(db'[b]) => b \in Paying'
  BY <1>2, <1>3 DEF ChargeInv
<1>4. CASE UNCHANGED db
  BY <1>3, <1>4
<1>5. ASSUME NEW p \in Procs, CreateInsert(p)
      PROVE  \A b \in Bookings : Earned(db'[b]) => b \in Paying'
  <2>1. ~ Earned(NewRow)
    BY DEF Earned, NewRow, NoRow
  <2>2. \A b \in Bookings : db'[b] \in {db[b], NewRow}
    BY <1>1, <1>5, InsertShape DEF TypeOK
  <2>q. QED BY <1>3, <2>1, <2>2
<1>6. ASSUME NEW p \in Procs, AcceptCommit(p)
      PROVE  \A b \in Bookings : Earned(db'[b]) => b \in Paying'
  <2>1. proc[p].b \in Paying'
    BY <1>1, <1>6, CommitTakes, CommitShape DEF Offered!Take, Paying
  <2>2. ASSUME NEW b \in Bookings, b # proc[p].b, Earned(db'[b]) PROVE Earned(db[b])
    BY <1>1, <1>6, <2>2 DEF AcceptCommit, Status, TypeOK, Row, Earned
  <2>q. QED BY <1>3, <2>1, <2>2
<1>7. ASSUME NEW p \in Procs, Update(p)
      PROVE  \A b \in Bookings : Earned(db'[b]) => b \in Paying'
  <2>1. /\ proc[p] \in Proc /\ proc[p].b \in Bookings /\ db[proc[p].b] \in Row
        /\ Entity(proc[p]) \in Row
        /\ db'[proc[p].b] = Updated(db[proc[p].b], Entity(proc[p]), proc[p].dirty)
        /\ \A b \in Bookings : b # proc[p].b => db'[b] = db[b]
    BY <1>1, <1>7, EntityIsRow DEF TypeOK, HandlerInv, HandlerOk, Update
  <2>2. Earned(db'[proc[p].b]) => Earned(db[proc[p].b]) \/ Earned(Entity(proc[p]))
    BY <2>1 DEF Updated, Earned, Row
  <2>3. Earned(Entity(proc[p])) => proc[p].b \in Paying
    BY <2>1, EntityEarned DEF ChargeInv
  <2>q. QED BY <1>2, <1>3, <2>1, <2>2, <2>3
<1>8. ASSUME NEW p \in Procs,
             \/ Effect(p) \/ Read(p) \/ AcceptLock(p) \/ AcceptAbort(p) \/ Select(p) \/ Begins(p)
      PROVE  UNCHANGED db
  BY <1>1, <1>8, EffectShape, ReadShape, LockShape, AbortShape, SelectShape, BeginShape DEF Begins
<1>9. CASE Crash \/ Environment \/ UNCHANGED vars
  BY <1>4, <1>9, CrashShape, EnvironmentShape
<1>q. QED BY <1>4, <1>5, <1>6, <1>7, <1>8, <1>9, Cases

\* then handlers,
LEMMA WorkingStep ==
  ASSUME Inv, SiblingInv, ChargeInv, [Next]_vars
  PROVE  \A q \in Procs : Working(proc'[q]) => proc'[q].b \in Paying'
<1>1. TypeOK /\ HandlerInv /\ JobInv
  BY DEF Inv
<1>2. Paying \subseteq Paying'
  BY PayingStays
<1>3. ~ Working(Idle)
  BY DEF Working, Earned, Idle, NoRow
<1>4. ASSUME NEW p \in Procs, Alone(p), Working(proc'[p]) => proc'[p].b \in Paying'
      PROVE  \A q \in Procs : Working(proc'[q]) => proc'[q].b \in Paying'
  BY <1>2, <1>4 DEF ChargeInv, Alone
\* What an entity shows, the row it was read from showed, or the handler did.
<1>5. ASSUME NEW p \in Procs, Alone(p), proc[p].b \in Bookings,
             \/ Effect(p) \/ Read(p) \/ AcceptLock(p) \/ AcceptAbort(p)
             \/ CreateInsert(p) \/ Select(p) \/ Update(p),
             proc'[p].op = "accept" /\ proc'[p].pc = "effects" =>
               proc[p].op = "accept" /\ proc[p].pc = "effects"
      PROVE  \A q \in Procs : Working(proc'[q]) => proc'[q].b \in Paying'
  <2>1. CASE proc'[p] = Idle
    BY <1>3, <1>4, <1>5, <2>1
  <2>2. CASE proc'[p] # Idle
    <3>1. /\ proc[p] \in Proc
          /\ proc'[p].op = proc[p].op /\ proc'[p].b = proc[p].b
          /\ proc'[p].base \in {proc[p].base, db[proc[p].b], Entity(proc[p])}
      BY <1>1, <1>5, <2>2, BaseShape DEF Same, TypeOK
    <3>2. Earned(proc'[p].base) => proc[p].b \in Paying
      BY <1>5, <3>1, EntityEarned DEF ChargeInv, Working
    <3>3. Working(proc'[p]) => proc[p].b \in Paying
      BY <1>5, <3>1, <3>2 DEF ChargeInv, Working
    <3>q. QED BY <1>2, <1>4, <1>5, <3>1, <3>3
  <2>q. QED BY <2>1, <2>2
<1>6. ASSUME NEW p \in Procs,
             \/ Effect(p) \/ Read(p) \/ AcceptLock(p) \/ AcceptAbort(p)
             \/ CreateInsert(p) \/ Select(p) \/ Update(p)
      PROVE  proc[p].b \in Bookings
  <2>1. proc[p].pc # "idle"
    BY <1>1, <1>6, EffectShape, ReadShape, LockShape, AbortShape, InsertShape, SelectShape,
       UpdateShape DEF At
  <2>q. QED BY <1>1, <2>1 DEF HandlerInv, HandlerOk
<1>7. ASSUME NEW p \in Procs, Effect(p)
      PROVE  \A q \in Procs : Working(proc'[q]) => proc'[q].b \in Paying'
  BY <1>1, <1>5, <1>6, <1>7, EffectShape, IdleIs DEF Same
<1>8. ASSUME NEW p \in Procs, Read(p)
      PROVE  \A q \in Procs : Working(proc'[q]) => proc'[q].b \in Paying'
  BY <1>1, <1>5, <1>6, <1>8, ReadShape, IdleIs DEF Same
<1>9. ASSUME NEW p \in Procs, AcceptLock(p) \/ AcceptAbort(p) \/ Select(p)
      PROVE  \A q \in Procs : Working(proc'[q]) => proc'[q].b \in Paying'
  BY <1>1, <1>5, <1>6, <1>9, LockShape, AbortShape, SelectShape, IdleIs
<1>10. ASSUME NEW p \in Procs, CreateInsert(p)
       PROVE  \A q \in Procs : Working(proc'[q]) => proc'[q].b \in Paying'
  BY <1>1, <1>5, <1>6, <1>10, InsertShape DEF Same, At
<1>11. ASSUME NEW p \in Procs, Update(p)
       PROVE  \A q \in Procs : Working(proc'[q]) => proc'[q].b \in Paying'
  <2>1. proc[p].op # "accept"
    BY <1>1, <1>11, UpdateShape DEF Inv, SaveInv, Saving
  <2>q. QED BY <1>1, <1>5, <1>6, <1>11, <2>1, UpdateShape, IdleIs DEF Same
<1>12. ASSUME NEW p \in Procs, AcceptCommit(p)
       PROVE  \A q \in Procs : Working(proc'[q]) => proc'[q].b \in Paying'
  <2>1. proc[p].b \in Paying'
    BY <1>1, <1>12, CommitTakes, CommitShape DEF Offered!Take, Paying
  <2>q. QED BY <1>1, <1>4, <1>12, <2>1, CommitShape DEF Same
<1>13. ASSUME NEW p \in Procs, Begins(p)
       PROVE  \A q \in Procs : Working(proc'[q]) => proc'[q].b \in Paying'
  BY <1>1, <1>2, <1>4, <1>13, BeginsPaying, BeginShape DEF Begins
<1>14. CASE Crash
  BY <1>3, <1>14, CrashShape
<1>15. CASE Environment \/ UNCHANGED vars
  BY <1>2, <1>15, EnvironmentShape DEF ChargeInv
<1>q. QED
  BY <1>7, <1>8, <1>9, <1>10, <1>11, <1>12, <1>13, <1>14, <1>15, Cases

\* and jobs: the GPS check is queued by a handler of an accepted booking.
LEMMA JobsPaying ==
  ASSUME Inv, SiblingInv, ChargeInv, [Next]_vars
  PROVE  \A j \in jobs' : j[1] = "gps" => j[2] \in Paying'
<1>1. TypeOK /\ HandlerInv /\ JobInv
  BY DEF Inv
<1>2. Paying \subseteq Paying'
  BY PayingStays
<1>3. CASE jobs' \subseteq jobs
  BY <1>2, <1>3 DEF ChargeInv
<1>4. ASSUME NEW p \in Procs, Effect(p)
      PROVE  \A j \in jobs' : j[1] = "gps" => j[2] \in Paying'
  <2>1. proc[p].pc = "effects"
    BY <1>1, <1>4, EffectShape
  <2>2. ASSUME NEW j \in jobs', j[1] = "gps" PROVE j[2] \in Paying
    <3>1. CASE j \in jobs
      BY <2>2, <3>1 DEF ChargeInv
    <3>2. CASE j = <<"gps", proc[p].b>> /\ proc[p].op \in {"accept", "gps"}
      <4>1. Working(proc[p])
        BY <2>1, <3>2 DEF Working
      <4>q. QED BY <3>2, <4>1 DEF ChargeInv
    <3>q. QED BY <1>1, <1>4, <2>2, <3>1, <3>2, QueueShape
  <2>q. QED BY <1>2, <2>2
<1>5. ASSUME NEW p \in Procs,
             \/ Read(p) \/ AcceptLock(p) \/ AcceptCommit(p) \/ AcceptAbort(p)
             \/ CreateInsert(p) \/ Select(p) \/ Update(p) \/ Begins(p)
      PROVE  jobs' \subseteq jobs
  BY <1>1, <1>5, JobsShape
<1>6. CASE Crash \/ Environment \/ UNCHANGED vars
  BY <1>3, <1>6, CrashShape, EnvironmentShape
<1>q. QED BY <1>3, <1>4, <1>5, <1>6, Cases

\* Whatever the handlers save, and in whatever order, a booking that is accepted,
\* active, completed or paid has its fee asked or due, unless a restart lost it.
THEOREM NoJobForFree == Spec => []JobsAreCharged
<1>1. Init => ChargeInv
  <2> SUFFICES ASSUME Init PROVE ChargeInv
    OBVIOUS
  <2>1. ~ Earned(NoRow) /\ ~ Working(Idle)
    BY DEF Working, Earned, Idle, NoRow
  <2>q. QED BY <2>1 DEF Init, ChargeInv
<1>2. Inv /\ SiblingInv /\ ChargeInv /\ [Next]_vars => ChargeInv'
  <2> SUFFICES ASSUME Inv, SiblingInv, ChargeInv, [Next]_vars PROVE ChargeInv'
    OBVIOUS
  <2>q. QED BY EarnedStep, WorkingStep, JobsPaying DEF ChargeInv
<1>3. Inv /\ SiblingInv /\ [Next]_vars => Inv' /\ SiblingInv'
  BY StepInv, SiblingStep
<1>4. ChargeInv => JobsAreCharged
  BY DEF ChargeInv, JobsAreCharged, Earned, Paying
<1>q. QED BY InitInv, OfferInit, <1>1, <1>2, <1>3, <1>4, PTL DEF Spec

-----------------------------------------------------------------------------
\* Only the handlers that read an entity save one, and only tenMinuteGpsCheck
\* saves it twice.
SaverOk(v) ==
  /\ v.pc \in {"select", "update", "select2", "update2"} => v.op \in Readers
  /\ v.pc \in {"select2", "update2"} => v.op = "gps"

SaverInv == \A p \in Procs : SaverOk(proc[p])

\* SaverInv is preserved.
LEMMA SaverStep ==
  ASSUME Inv, SaverInv, [Next]_vars PROVE SaverInv'
<1>1. TypeOK /\ HandlerInv /\ JobInv
  BY DEF Inv
<1>2. ASSUME NEW p \in Procs, Alone(p), SaverOk(proc'[p]) PROVE SaverInv'
  BY <1>2 DEF SaverInv, Alone
<1>3. ASSUME NEW v, v.pc \notin {"select", "update", "select2", "update2"} PROVE SaverOk(v)
  BY <1>3 DEF SaverOk
<1>4. ASSUME NEW p \in Procs, Effect(p) PROVE SaverInv'
  BY <1>1, <1>2, <1>3, <1>4, EffectShape, IdleIs
<1>5. ASSUME NEW p \in Procs, Read(p) PROVE SaverInv'
  <2>1. CASE proc'[p] = Idle
    BY <1>1, <1>2, <1>3, <1>5, <2>1, ReadShape, IdleIs
  <2>2. CASE proc'[p] # Idle
    <3>1. /\ Alone(p) /\ proc'[p].op = proc[p].op
          /\ proc'[p].pc \in {"insert", "reread", "select", "effects"}
          /\ proc'[p].pc = "select" => proc[p].op \in Readers
      BY <1>1, <1>5, <2>2, ReadShape DEF Same
    <3>2. SaverOk(proc'[p])
      BY <3>1 DEF SaverOk
    <3>q. QED BY <1>2, <3>1, <3>2
  <2>q. QED BY <2>1, <2>2
<1>6. ASSUME NEW p \in Procs,
             AcceptLock(p) \/ AcceptCommit(p) \/ AcceptAbort(p) \/ CreateInsert(p)
      PROVE  SaverInv'
  BY <1>1, <1>2, <1>3, <1>6, LockShape, CommitShape, AbortShape, InsertShape, IdleIs
<1>7. ASSUME NEW p \in Procs, Select(p) PROVE SaverInv'
  <2>1. SaverOk(proc'[p])
    BY <1>1, <1>7, SelectShape DEF SaverInv, SaverOk, Same
  <2>q. QED BY <1>1, <1>2, <1>7, <2>1, SelectShape
<1>8. ASSUME NEW p \in Procs, Update(p) PROVE SaverInv'
  <2>1. SaverOk(proc'[p])
    BY <1>1, <1>8, UpdateShape, IdleIs DEF SaverOk, Same, Readers
  <2>q. QED BY <1>1, <1>2, <1>8, <2>1, UpdateShape
<1>9. ASSUME NEW p \in Procs, Begins(p) PROVE SaverInv'
  <2>1. Begun(p) /\ Alone(p)
    BY <1>1, <1>9, BeginShape DEF Begins
  <2>2. proc'[p].pc = "read"
    BY <2>1, HandlerIs DEF Begun
  <2>q. QED BY <1>2, <1>3, <2>1, <2>2
<1>10. CASE Crash
  BY <1>3, <1>10, CrashShape, IdleIs DEF SaverInv
<1>11. CASE Environment \/ UNCHANGED vars
  BY <1>11, EnvironmentShape DEF SaverInv
<1>q. QED
  BY <1>4, <1>5, <1>6, <1>7, <1>8, <1>9, <1>10, <1>11, Cases

\* Initially nothing is saved.
LEMMA SaverInit == Init => SaverInv
BY IdleIs DEF Init, SaverInv, SaverOk

-----------------------------------------------------------------------------
(***************************************************************************)
(* Customers poll no answer that is not stored.  A handler that has run    *)
(* the UPDATE of its save() finds the booking decided for ever: by the     *)
(* entity, or already when its SELECT found nothing to change.             *)
(***************************************************************************)
AnswerOk(v, rows) ==
  /\ v.pc \in {"update", "update2"} => "status" \in v.dirty \/ Decided(rows[v.b].status)
  /\ v.pc = "effects" /\ v.op \notin {"create", "poll", "list"} => Decided(rows[v.b].status)
  /\ v.pc = "effects" /\ v.op = "accept" => \A x \in v.siblings : Decided(rows[x].status)
  /\ v.pc = "effects" /\ v.op = "poll" =>
       /\ v.base.status # "NONE"
       /\ v.base.status # "REQUESTED" => Decided(rows[v.b].status)

AnswerInv ==
  /\ \A b \in Bookings : cache[b] \notin {None, "REQUESTED"} => Decided(db[b].status)
  /\ \A p \in Procs : AnswerOk(proc[p], db)

\* The handlers whose side effects these are.
LEMMA EffectIsOf ==
  ASSUME NEW v \in Proc, v.k >= 1, v.k <= Len(Script(v)),
         NEW e \in {"cacheStatus", "siblings", "refill", "unpend", "pend"}, Script(v)[v.k] = e
  PROVE  /\ e = "cacheStatus" => v.op # "list"
         /\ e = "siblings" => v.op = "accept"
         /\ e = "refill" => v.op = "list"
         /\ e = "unpend" => v.op \notin {"create", "poll", "list"}
         /\ e = "pend" => v.op = "create" /\ v.k = 2
<1>1. v.k \in Nat
  BY DEF Proc
<1>2. CASE v.op = "accept"
  BY <1>1, <1>2 DEF Script
<1>3. CASE v.op = "create"
  BY <1>1, <1>3 DEF Script
<1>4. CASE v.op \in {"reject", "decline", "cancel", "timeout", "arrival", "completion"}
  BY <1>1, <1>4 DEF Script
<1>5. CASE v.op \in {"poll", "list"}
  BY <1>1, <1>5 DEF Script
<1>6. CASE v.op = "gps"
  BY <1>1, <1>6 DEF Script
<1>7. CASE v.op \notin {"accept", "create", "reject", "decline", "cancel", "timeout", "arrival",
                       "completion", "poll", "list", "gps"}
  BY <1>1, <1>7 DEF Script
<1>q. QED BY <1>2, <1>3, <1>4, <1>5, <1>6, <1>7

\* Where the status cache changes: at the end of a handler, for each sibling that
\* acceptBooking cancelled,
LEMMA EffectCache ==
  ASSUME TypeOK, NEW p \in Procs, Effect(p), NEW b \in Bookings
  PROVE  \/ cache'[b] = cache[b]
         \/ NextEffect(p, "cacheStatus") /\ b = proc[p].b /\ cache'[b] = Announced(proc[p])
         \/ NextEffect(p, "siblings") /\ b \in proc[p].siblings
<1>1. cache \in [Bookings -> Statuses \cup {"NONE", None}]
  BY DEF TypeOK
<1>2. CASE CacheBookingStatus(p)
  BY <1>1, <1>2 DEF CacheBookingStatus
<1>3. CASE CancelSiblings(p)
  BY <1>1, <1>3 DEF CancelSiblings, CancelOne
<1>4. CASE ~ (CacheBookingStatus(p) \/ CancelSiblings(p))
  <2>1. UNCHANGED cache
    BY <1>4 DEF Effect, QueueTimeout, QueueGpsCheck, Enqueue, DeductBookingFee,
       AddPendingBooking, RemovePendingBooking, MarkBusy, ReleaseWorker, SetWorkerStatus, Refill,
       redis
  <2>q. QED BY <2>1
<1>q. QED BY <1>2, <1>3, <1>4

\* and where an entry expires.
LEMMA OtherCache ==
  ASSUME TypeOK, NEW b \in Bookings,
         \/ \E p \in Procs : \/ Read(p) \/ AcceptLock(p) \/ AcceptCommit(p) \/ AcceptAbort(p)
                             \/ CreateInsert(p) \/ Select(p) \/ Update(p) \/ Begins(p)
         \/ Crash \/ Environment \/ UNCHANGED vars
  PROVE  cache'[b] \in {cache[b], None}
<1>1. ASSUME NEW p \in Procs, Read(p) PROVE UNCHANGED cache
  BY <1>1 DEF Read, CreateCheck, ReadIf, RejectBooking, DeclineBooking, CancelBooking,
     VerifyArrivalOtp, VerifyCompletionOtp, MarkPaid, RefreshCompletionOtp, SubmitRating,
     TimeoutCheck, TimeoutCancel, GpsCheck, AddGpsStrike, PollStatus, FindPendingForWorker, redis
<1>2. ASSUME NEW p \in Procs,
             \/ AcceptLock(p) \/ AcceptCommit(p) \/ AcceptAbort(p)
             \/ CreateInsert(p) \/ Select(p) \/ Update(p) \/ Begins(p)
      PROVE  UNCHANGED cache
  BY <1>2 DEF AcceptLock, AcceptCommit, AcceptAbort, CreateInsert, Select, Update, Begins,
     RunJob, StartJob, Request, redis
<1>3. CASE Crash \/ UNCHANGED vars
  BY <1>3 DEF Crash, vars, redis
<1>4. CASE Environment
  BY <1>4 DEF Environment, ExpirePending, ExpireStatus, TypeOK
<1>q. QED BY <1>1, <1>2, <1>3, <1>4

\* The SELECT of save() leaves out the status only of a booking that is decided.
LEMMA SelectAnswers ==
  ASSUME Inv, NEW p \in Procs, Select(p) PROVE AnswerOk(proc'[p], db')
<1>1. /\ TypeOK /\ HandlerInv /\ proc \in [Procs -> Proc] /\ proc[p] \in Proc
      /\ proc[p].b \in Bookings /\ db[proc[p].b] \in Row /\ Decided(Entity(proc[p]).status)
  BY DEF Inv, TypeOK, HandlerInv, HandlerOk, SaveInv, Saving, Select
<1>2. proc'[p].dirty = Changed(db[proc[p].b], Entity(proc[p]))
  BY <1>1 DEF Select, Proc
<1>3. "status" \in proc'[p].dirty \/ Decided(db[proc[p].b].status)
  BY <1>1, <1>2 DEF Changed, Row
<1>4. UNCHANGED db /\ proc'[p].b = proc[p].b /\ proc'[p].pc \in {"update", "update2"}
  BY <1>1, SelectShape DEF Same
<1>q. QED BY <1>3, <1>4 DEF AnswerOk

\* After the UPDATE the booking is decided.
LEMMA UpdateAnswers ==
  ASSUME Inv, NEW p \in Procs, AnswerOk(proc[p], db), Update(p)
  PROVE  Decided(db'[proc[p].b].status)
<1>1. /\ TypeOK /\ HandlerInv /\ db \in [Bookings -> Row]
      /\ proc[p].b \in Bookings /\ db[proc[p].b] \in Row /\ Decided(Entity(proc[p]).status)
      /\ proc[p].pc \in {"update", "update2"}
  BY DEF Inv, TypeOK, HandlerInv, HandlerOk, SaveInv, Saving, Update
<1>2. db'[proc[p].b] = Updated(db[proc[p].b], Entity(proc[p]), proc[p].dirty)
  BY <1>1 DEF Update
<1>3. CASE "status" \in proc[p].dirty
  BY <1>1, <1>2, <1>3 DEF Updated, Row
<1>4. CASE "status" \notin proc[p].dirty
  BY <1>1, <1>2, <1>4 DEF Updated, Row, AnswerOk
<1>q. QED BY <1>3, <1>4

\* A read that goes straight to the side effects is the customer's poll, or the
\* worker's list.
LEMMA PollAnswers ==
  ASSUME TypeOK, HandlerInv, NEW p \in Procs, Read(p), proc'[p].pc = "effects"
  PROVE  /\ proc'[p].op \in {"poll", "list"} /\ proc'[p].b = proc[p].b
         /\ proc'[p].op = "poll" => proc'[p].base = db[proc[p].b]
<1>1. proc \in [Procs -> Proc] /\ proc[p] \in Proc
  BY DEF TypeOK
<1>2. ~ Finish(p)
  BY <1>1, IdleIs DEF Finish
<1>3. ASSUME NEW pc, Goto(p, pc) \/ Load(p, pc) PROVE pc = "effects"
  BY <1>1, <1>3 DEF Goto, Load, Proc
<1>4. PollStatus(p) \/ FindPendingForWorker(p)
  BY <1>2, <1>3 DEF Read, CreateCheck, ReadIf, RejectBooking, DeclineBooking, CancelBooking,
     VerifyArrivalOtp, VerifyCompletionOtp, MarkPaid, RefreshCompletionOtp, SubmitRating,
     TimeoutCheck, TimeoutCancel, GpsCheck, AddGpsStrike
<1>5. CASE PollStatus(p)
  BY <1>1, <1>2, <1>5 DEF PollStatus, At, Proc
<1>6. CASE FindPendingForWorker(p)
  BY <1>1, <1>2, <1>6 DEF FindPendingForWorker, At, Proc
<1>q. QED BY <1>4, <1>5, <1>6

\* What a handler knows of the answer it is about to announce stays true,
LEMMA AnswerHandlers ==
  ASSUME Inv, SaverInv, AnswerInv, [Next]_vars
  PROVE  \A q \in Procs : AnswerOk(proc'[q], db')
<1>1. TypeOK /\ HandlerInv /\ JobInv /\ Forward
  BY ForwardStep DEF Inv
<1>2. \A q \in Procs : proc[q] \in Proc
  BY <1>1 DEF TypeOK
<1>3. ASSUME NEW q \in Procs PROVE AnswerOk(proc[q], db')
  <2>1. /\ AnswerOk(proc[q], db) /\ proc[q].siblings \subseteq Bookings
        /\ proc[q].pc # "idle" => proc[q].b \in Bookings
    BY <1>1, <1>2 DEF AnswerInv, Proc, HandlerInv, HandlerOk
  <2>q. QED BY <1>1, <2>1 DEF AnswerOk, Forward
<1>4. ASSUME NEW v, v.pc \notin {"update", "update2", "effects"} PROVE AnswerOk(v, db')
  BY <1>4 DEF AnswerOk
<1>5. ASSUME NEW p \in Procs, Alone(p), AnswerOk(proc'[p], db')
      PROVE  \A q \in Procs : AnswerOk(proc'[q], db')
  BY <1>3, <1>5 DEF Alone
<1>6. AnswerOk(Idle, db')
  BY <1>4, IdleIs
<1>7. ASSUME NEW p \in Procs, Effect(p) PROVE \A q \in Procs : AnswerOk(proc'[q], db')
  <2>1. CASE proc'[p] = Idle
    BY <1>1, <1>5, <1>6, <1>7, <2>1, EffectShape
  <2>2. CASE proc'[p] # Idle
    <3>1. /\ Alone(p) /\ proc[p].pc = "effects"
          /\ proc'[p].op = proc[p].op /\ proc'[p].b = proc[p].b /\ proc'[p].pc = "effects"
          /\ proc'[p].base = proc[p].base /\ proc'[p].siblings \subseteq proc[p].siblings
      BY <1>1, <1>7, <2>2, EffectShape DEF Same
    <3>2. AnswerOk(proc[p], db')
      BY <1>3
    <3>3. AnswerOk(proc'[p], db')
      BY <3>1, <3>2 DEF AnswerOk
    <3>q. QED BY <1>5, <3>1, <3>3
  <2>q. QED BY <2>1, <2>2
<1>8. ASSUME NEW p \in Procs, Read(p) PROVE \A q \in Procs : AnswerOk(proc'[q], db')
  <2>1. CASE proc'[p].pc # "effects"
    <3>1. Alone(p) /\ proc'[p].pc \notin {"update", "update2", "effects"}
      BY <1>1, <1>8, <2>1, ReadShape, IdleIs
    <3>q. QED BY <1>4, <1>5, <3>1
  <2>2. CASE proc'[p].pc = "effects"
    <3>1. /\ Alone(p) /\ UNCHANGED db
          /\ proc'[p].op \in {"poll", "list"} /\ proc'[p].b = proc[p].b
          /\ proc'[p].op = "poll" => proc'[p].base = db[proc[p].b]
      BY <1>1, <1>8, <2>2, ReadShape, PollAnswers
    <3>2. proc'[p].op = "poll" => db[proc[p].b].status # "NONE"
      <4>1. proc'[p].op = proc[p].op
        BY <1>1, <1>8, <2>2, ReadShape, IdleIs DEF Same
      <4>q. QED BY <1>1, <4>1 DEF HandlerInv, HandlerOk
    <3>3. AnswerOk(proc'[p], db')
      BY <2>2, <3>1, <3>2 DEF AnswerOk, Decided
    <3>q. QED BY <1>5, <3>1, <3>3
  <2>q. QED BY <2>1, <2>2
<1>9. ASSUME NEW p \in Procs, AcceptLock(p) PROVE \A q \in Procs : AnswerOk(proc'[q], db')
  <2>1. Alone(p) /\ proc'[p].pc \notin {"update", "update2", "effects"}
    BY <1>1, <1>9, LockShape, IdleIs
  <2>q. QED BY <1>4, <1>5, <2>1
<1>10. ASSUME NEW p \in Procs, AcceptCommit(p) PROVE \A q \in Procs : AnswerOk(proc'[q], db')
  <2>1. /\ Alone(p) /\ At(p, "accept", "commit") /\ proc[p].b \in Bookings
        /\ proc'[p].op = "accept" /\ proc'[p].b = proc[p].b /\ proc'[p].pc = "effects"
        /\ proc'[p].siblings = proc[p].siblings /\ proc[p].siblings \subseteq Bookings
    BY <1>1, <1>2, <1>10, CommitShape DEF Same, At, Proc
  <2>2. \A x \in proc[p].siblings \cup {proc[p].b} : db'[x].status \in {"ACCEPTED", "CANCELLED"}
    BY <1>1, <1>10, <2>1 DEF AcceptCommit, Status, TypeOK, Row
  <2>3. AnswerOk(proc'[p], db')
    BY <2>1, <2>2 DEF AnswerOk, Decided
  <2>q. QED BY <1>5, <2>1, <2>3
<1>11. ASSUME NEW p \in Procs, AcceptAbort(p) PROVE \A q \in Procs : AnswerOk(proc'[q], db')
  BY <1>1, <1>5, <1>6, <1>11, AbortShape
<1>12. ASSUME NEW p \in Procs, CreateInsert(p) PROVE \A q \in Procs : AnswerOk(proc'[q], db')
  <2>1. Alone(p) /\ proc'[p].pc = "effects" /\ proc'[p].op = "create"
    BY <1>1, <1>12, InsertShape DEF Same, At
  <2>2. AnswerOk(proc'[p], db')
    BY <2>1 DEF AnswerOk
  <2>q. QED BY <1>5, <2>1, <2>2
<1>13. ASSUME NEW p \in Procs, Select(p) PROVE \A q \in Procs : AnswerOk(proc'[q], db')
  BY <1>1, <1>5, <1>13, SelectAnswers, SelectShape
<1>14. ASSUME NEW p \in Procs, Update(p) PROVE \A q \in Procs : AnswerOk(proc'[q], db')
  <2>1. Decided(db'[proc[p].b].status)
    BY <1>14, UpdateAnswers DEF AnswerInv
  <2>2. CASE proc'[p] = Idle
    BY <1>1, <1>5, <1>6, <1>14, <2>2, UpdateShape
  <2>3. CASE proc'[p] # Idle
    <3>1. /\ Alone(p) /\ proc'[p].b = proc[p].b /\ proc'[p].op = proc[p].op
          /\ proc'[p].pc \in {"select2", "effects"}
          /\ proc[p].pc \in {"update", "update2"}
      BY <1>1, <1>14, <2>3, UpdateShape DEF Same
    <3>2. proc[p].op \notin {"accept", "poll"}
      BY <3>1 DEF SaverInv, SaverOk, Readers
    <3>3. AnswerOk(proc'[p], db')
      BY <2>1, <3>1, <3>2 DEF AnswerOk
    <3>q. QED BY <1>5, <3>1, <3>3
  <2>q. QED BY <2>2, <2>3
<1>15. ASSUME NEW p \in Procs, Begins(p) PROVE \A q \in Procs : AnswerOk(proc'[q], db')
  <2>1. Begun(p) /\ Alone(p)
    BY <1>1, <1>15, BeginShape DEF Begins
  <2>2. proc'[p].pc = "read"
    BY <2>1, HandlerIs DEF Begun
  <2>q. QED BY <1>4, <1>5, <2>1, <2>2
<1>16. CASE Crash
  BY <1>6, <1>16, CrashShape
<1>17. CASE Environment \/ UNCHANGED vars
  BY <1>3, <1>17, EnvironmentShape
<1>q. QED
  BY <1>7, <1>8, <1>9, <1>10, <1>11, <1>12, <1>13, <1>14, <1>15, <1>16, <1>17, Cases

\* and so do the answers announced.
LEMMA AnswerCache ==
  ASSUME Inv, AnswerInv, [Next]_vars, NEW b \in Bookings, cache'[b] \notin {None, "REQUESTED"}
  PROVE  Decided(db'[b].status)
<1>1. TypeOK /\ HandlerInv /\ JobInv /\ Forward
  BY ForwardStep DEF Inv
<1>2. CASE cache'[b] = cache[b]
  BY <1>1, <1>2 DEF AnswerInv, Forward
<1>3. CASE cache'[b] # cache[b]
  <2>1. PICK p \in Procs : Effect(p)
    BY <1>1, <1>3, Cases, OtherCache
  <2>2. /\ proc[p] \in Proc /\ proc[p].pc = "effects" /\ proc[p].k >= 1 /\ UNCHANGED db
        /\ AnswerOk(proc[p], db)
    BY <1>1, <2>1, EffectShape DEF TypeOK, HandlerInv, HandlerOk, AnswerInv
  <2>3. CASE NextEffect(p, "cacheStatus") /\ b = proc[p].b /\ cache'[b] = Announced(proc[p])
    <3>1. proc[p].op # "list"
      BY <2>2, <2>3, EffectIsOf DEF NextEffect
    <3>2. proc[p].op # "create"
      BY <2>3 DEF Announced
    <3>3. proc[p].op = "poll" => proc[p].base.status \notin {"NONE", "REQUESTED"}
      BY <2>2, <2>3 DEF Announced, AnswerOk
    <3>q. QED BY <2>2, <2>3, <3>1, <3>2, <3>3 DEF AnswerOk
  <2>4. CASE NextEffect(p, "siblings") /\ b \in proc[p].siblings
    <3>1. proc[p].op = "accept"
      BY <2>2, <2>4, EffectIsOf DEF NextEffect
    <3>q. QED BY <2>2, <2>4, <3>1 DEF AnswerOk
  <2>q. QED BY <1>1, <1>3, <2>1, <2>3, <2>4, EffectCache
<1>q. QED BY <1>2, <1>3

\* AnswerInv is preserved.
LEMMA AnswerStep ==
  ASSUME Inv, SaverInv, AnswerInv, [Next]_vars PROVE AnswerInv'
BY AnswerHandlers, AnswerCache DEF AnswerInv

\* Initially nothing is answered.
LEMMA AnswerInit == Init => AnswerInv
BY IdleIs DEF Init, AnswerInv, AnswerOk

\* Customers poll no answer that the table does not hold, whatever the Redis
\* failures, expiries and restarts.
THEOREM AnswersComeAfter == Spec => []AnswersAreStored
<1>1. Inv /\ SaverInv /\ AnswerInv /\ [Next]_vars => Inv' /\ SaverInv' /\ AnswerInv'
  BY StepInv, SaverStep, AnswerStep
<1>2. AnswerInv => AnswersAreStored
  BY DEF AnswerInv, AnswersAreStored, Decided
<1>q. QED BY InitInv, SaverInit, AnswerInit, <1>1, <1>2, PTL DEF Spec

-----------------------------------------------------------------------------
(***************************************************************************)
(* A worker who stays away is forfeited at the last strike.  The job of    *)
(* the GPS check runs alone, queues itself again below the last strike and *)
(* ends with it; only a restart between the last strike and the forfeit    *)
(* brings it back.                                                         *)
(***************************************************************************)
Forfeiting(v) == /\ v.op = "gps"
                 /\ v.pc \in {"select2", "update2"} \/ (v.pc = "effects" /\ Forfeits(v))

Charging(v, b) == v.op = "accept" /\ v.pc = "effects" /\ v.b = b

\* No GPS check of the booking was queued yet, and one may be;
Unchecked(b) == ~ Decided(db[b].status) \/ \E p \in Procs : Charging(proc[p], b)

\* a strike may still be added.
Open(b) == \/ Unchecked(b)
           \/ /\ <<"gps", b>> \in jobs
              /\ \A p \in Procs : proc[p].b = b => ~ Forfeiting(proc[p])

GpsInv ==
  /\ \A p, q \in Procs : proc[p].op = "gps" /\ proc[q].op = "gps" => p = q
  /\ \A p \in Procs : proc[p].op = "gps" => <<"gps", proc[p].b>> \in jobs
  /\ \A p \in Procs : proc[p].pc \in {"select2", "update2"} => Forfeits(proc[p])
  /\ \A p, q \in Procs, b \in Bookings : Charging(proc[p], b) /\ Charging(proc[q], b) => p = q
  /\ \A b \in Bookings : <<"gps", b>> \in jobs => ~ Unchecked(b)

StrikeInv ==
  /\ \A b \in Bookings :
       /\ db[b].strikes <= MaxStrikes + restarts
       /\ Open(b) => db[b].strikes < MaxStrikes + restarts
  /\ \A p \in Procs : proc[p].b \in Bookings =>
       /\ proc[p].base.strikes <= MaxStrikes + restarts
       /\ Open(proc[p].b) => proc[p].base.strikes < MaxStrikes + restarts

Runs(p) == \/ Effect(p) \/ Read(p) \/ AcceptLock(p) \/ AcceptCommit(p) \/ AcceptAbort(p)
           \/ CreateInsert(p) \/ Select(p) \/ Update(p)

\* A handler that runs goes on for its booking or returns; the others stay as they are.
LEMMA RunsShape ==
  ASSUME TypeOK, HandlerInv, NEW p \in Procs, Runs(p)
  PROVE  /\ Alone(p) /\ proc[p].b \in Bookings /\ proc[p].op # "none"
         /\ proc'[p] = Idle \/ (proc'[p].op = proc[p].op /\ proc'[p].b = proc[p].b)
<1>1. /\ Alone(p) /\ proc[p].pc # "idle"
      /\ proc'[p] = Idle \/ Same(p)
  BY EffectShape, ReadShape, LockShape, CommitShape, AbortShape, InsertShape, SelectShape,
     UpdateShape DEF Runs, At
<1>q. QED BY <1>1 DEF Same, HandlerInv, HandlerOk

\* Bull starts the GPS check of a queued job while no other runs.
LEMMA BeginsGps ==
  ASSUME TypeOK, NEW p \in Procs, Begins(p), proc'[p].op = "gps"
  PROVE  /\ \A q \in Procs : proc[q].op # "gps"
         /\ <<"gps", proc'[p].b>> \in jobs
<1>1. proc \in [Procs -> Proc]
  BY DEF TypeOK
<1>2. ASSUME NEW op, NEW b, proc' = [proc EXCEPT ![p] = Handler(op, b)]
      PROVE  op = "gps" /\ proc'[p].b = b
  BY <1>1, <1>2, HandlerIs
<1>3. PICK job \in Jobs, b \in Bookings : StartJob(p, job, b)
  BY <1>2 DEF Begins, RunJob, Request, Endpoints
<1>q. QED BY <1>2, <1>3 DEF StartJob

\* A handler comes to run acceptBooking's side effects by its commit only.
LEMMA ChargingIs ==
  ASSUME Inv, SaverInv, [Next]_vars, NEW q \in Procs, NEW b, Charging(proc'[q], b)
  PROVE  Charging(proc[q], b) \/ (AcceptCommit(q) /\ proc[q].b = b)
<1>1. TypeOK /\ HandlerInv /\ JobInv
  BY DEF Inv
<1>2. proc'[q] # Idle
  BY IdleIs DEF Charging
<1>3. ASSUME NEW p \in Procs, Alone(p), p # q PROVE Charging(proc[q], b)
  BY <1>3 DEF Alone
<1>4. ASSUME NEW p \in Procs, Runs(p) PROVE Charging(proc[q], b) \/ (AcceptCommit(q) /\ proc[q].b = b)
  <2>1. CASE p # q
    BY <1>1, <1>3, <1>4, <2>1, RunsShape
  <2>2. CASE p = q
    <3>1. /\ proc[q].op = "accept" /\ proc[q].b = b /\ proc'[q].pc = "effects"
      BY <1>1, <1>2, <1>4, <2>2, RunsShape DEF Charging
    <3>2. CASE Effect(q)
      BY <1>1, <3>1, <3>2, EffectShape DEF Charging
    <3>3. ~ Read(q) /\ ~ AcceptLock(q) /\ ~ AcceptAbort(q) /\ ~ CreateInsert(q) /\ ~ Select(q)
      BY <1>1, <1>2, <3>1, ReadShape, LockShape, AbortShape, InsertShape, SelectShape, IdleIs
      DEF At
    <3>4. ~ Update(q)
      BY <1>1, <3>1, UpdateShape DEF SaverInv, SaverOk, Readers
    <3>q. QED BY <1>4, <2>2, <3>1, <3>2, <3>3, <3>4 DEF Runs
  <2>q. QED BY <2>1, <2>2
<1>5. ASSUME NEW p \in Procs, Begins(p) PROVE Charging(proc[q], b)
  <2>1. Begun(p) /\ Alone(p)
    BY <1>1, <1>5, BeginShape DEF Begins
  <2>2. proc'[p].pc = "read"
    BY <2>1, HandlerIs DEF Begun
  <2>q. QED BY <1>3, <2>1, <2>2 DEF Charging
<1>6. CASE Crash
  BY <1>2, <1>6, CrashShape
<1>7. CASE Environment \/ UNCHANGED vars
  BY <1>7, EnvironmentShape
<1>q. QED BY <1>4, <1>5, <1>6, <1>7, Cases DEF Runs

\* Once a GPS check was queued, none is queued from outside any more.
LEMMA UncheckedStays ==
  ASSUME Inv, SaverInv, [Next]_vars, NEW b \in Bookings, Unchecked(b)'
  PROVE  Unchecked(b)
<1>1. CASE ~ Decided(db'[b].status)
  BY <1>1, ForwardStep DEF Forward, Unchecked
<1>2. ASSUME NEW q \in Procs, Charging(proc'[q], b) PROVE Unchecked(b)
  <2>1. CASE Charging(proc[q], b)
    BY <2>1 DEF Unchecked
  <2>2. CASE AcceptCommit(q) /\ proc[q].b = b
    <3>1. db[b].status = "REQUESTED"
      BY <2>2 DEF Inv, LockInv, LockedRowIsRequested, AcceptCommit
    <3>q. QED BY <3>1 DEF Unchecked, Decided
  <2>q. QED BY <1>2, <2>1, <2>2, ChargingIs
<1>q. QED BY <1>1, <1>2 DEF Unchecked, Charging

\* acceptBooking runs its side effects once for a booking.
LEMMA ChargingOnce ==
  ASSUME Inv, SaverInv, AnswerInv, GpsInv, [Next]_vars, NEW p \in Procs, NEW q \in Procs,
         NEW b \in Bookings, Charging(proc'[p], b), Charging(proc'[q], b)
  PROVE  p = q
<1>1. ASSUME NEW r \in Procs, Charging(proc[r], b) PROVE Decided(db[b].status)
  BY <1>1 DEF AnswerInv, AnswerOk, Charging
<1>2. ASSUME NEW r \in Procs, AcceptCommit(r), proc[r].b = b
      PROVE  /\ db[b].status = "REQUESTED"
             /\ \A x \in Procs : x # r => proc'[x] = proc[x]
             /\ proc[r].pc = "commit"
  BY <1>2, CommitShape DEF Inv, LockInv, LockedRowIsRequested, At, Alone
<1>3. /\ Charging(proc[p], b) \/ (AcceptCommit(p) /\ proc[p].b = b)
      /\ Charging(proc[q], b) \/ (AcceptCommit(q) /\ proc[q].b = b)
  BY ChargingIs
<1>4. CASE Charging(proc[p], b) /\ Charging(proc[q], b)
  BY <1>4 DEF GpsInv
<1>5. CASE ~ (Charging(proc[p], b) /\ Charging(proc[q], b))
  BY <1>1, <1>2, <1>3, <1>5 DEF Charging, Decided
<1>q. QED BY <1>4, <1>5

\* The handler that forfeits the booking takes the job away when it ends.
LEMMA ForfeitEnds ==
  ASSUME TypeOK, HandlerInv, NEW p \in Procs, Effect(p), Forfeiting(proc[p]), proc'[p] = Idle
  PROVE  <<"gps", proc[p].b>> \notin jobs'
<1>1. /\ proc \in [Procs -> Proc] /\ proc[p] \in Proc /\ proc[p].pc = "effects" /\ proc[p].k >= 1
      /\ proc[p].op = "gps" /\ Forfeits(proc[p])
  BY EffectShape DEF TypeOK, HandlerInv, HandlerOk, Forfeiting
<1>2. ~ NextEffect(p, "queueTimeout") /\ ~ NextEffect(p, "queueGps")
  BY <1>1, QueueIsOf DEF NextEffect
<1>3. ASSUME NEW x PROVE proc' # [proc EXCEPT ![p].siblings = @ \ {x}]
  BY <1>1, IdleIs DEF Proc
<1>4. Advance(p)
  BY <1>2, <1>3 DEF Effect, QueueTimeout, QueueGpsCheck, Enqueue, DeductBookingFee,
     CacheBookingStatus, AddPendingBooking, RemovePendingBooking, MarkBusy, ReleaseWorker,
     SetWorkerStatus, CancelSiblings, CancelOne, Refill, RefillOne
<1>5. proc' # [proc EXCEPT ![p].k = @ + 1]
  BY <1>1, IdleIs DEF Proc
<1>q. QED BY <1>1, <1>4, <1>5 DEF Advance, Finish

\* The second UPDATE of tenMinuteGpsCheck is followed by its side effects.
LEMMA ForfeitUpdate ==
  ASSUME TypeOK, HandlerInv, NEW p \in Procs, Update(p), proc[p].op = "gps",
         proc[p].pc = "update2"
  PROVE  proc'[p].pc = "effects" /\ proc'[p].base = proc[p].base /\ proc'[p].op = "gps"
         /\ proc'[p].b = proc[p].b
<1>1. proc \in [Procs -> Proc] /\ proc[p] \in Proc
  BY DEF TypeOK
<1>2. Script(proc[p]) # <<>> /\ ~ At(p, "gps", "update")
  BY DEF Script, At
<1>3. RunEffects(p)
  BY <1>2 DEF Update
<1>q. QED BY <1>1, <1>3 DEF RunEffects, Proc

\* So a booking that is being forfeited stays so until its job is gone.
LEMMA ForfeitingStays ==
  ASSUME Inv, GpsInv, [Next]_vars, ~ Crash, NEW q \in Procs, Forfeiting(proc[q])
  PROVE  \/ Forfeiting(proc'[q]) /\ proc'[q].b = proc[q].b
         \/ <<"gps", proc[q].b>> \notin jobs'
<1>1. TypeOK /\ HandlerInv /\ JobInv
  BY DEF Inv
<1>2. ASSUME NEW p \in Procs, Alone(p), p # q PROVE proc'[q] = proc[q]
  BY <1>2 DEF Alone
<1>3. CASE Effect(q)
  <2>1. CASE proc'[q] = Idle
    BY <1>1, <1>3, <2>1, ForfeitEnds
  <2>2. CASE proc'[q] # Idle
    BY <1>1, <1>3, <2>2, EffectShape DEF Same, Forfeiting, Forfeits
  <2>q. QED BY <2>1, <2>2
<1>4. CASE Select(q)
  <2>1. Forfeits(proc[q])
    BY <1>1, <1>4, SelectShape DEF Forfeiting, GpsInv
  <2>q. QED BY <1>1, <1>4, <2>1, SelectShape DEF Same, Forfeiting
<1>5. CASE Update(q)
  <2>1. proc[q].pc = "update2" /\ proc[q].op = "gps" /\ Forfeits(proc[q])
    BY <1>1, <1>5, UpdateShape DEF Forfeiting, GpsInv
  <2>q. QED BY <1>1, <1>5, <2>1, ForfeitUpdate DEF Forfeiting, Forfeits
<1>6. ~ Read(q) /\ ~ AcceptLock(q) /\ ~ AcceptCommit(q) /\ ~ AcceptAbort(q) /\ ~ CreateInsert(q)
  BY <1>1, ReadShape, LockShape, CommitShape, AbortShape, InsertShape DEF Forfeiting, At
<1>7. ASSUME NEW p \in Procs, Begins(p) PROVE proc'[q] = proc[q]
  <2>1. Begun(p) /\ Alone(p)
    BY <1>1, <1>7, BeginShape DEF Begins
  <2>2. p # q
    BY <2>1, IdleIs DEF Begun, Forfeiting
  <2>q. QED BY <1>2, <2>1, <2>2
<1>8. ASSUME NEW p \in Procs, Runs(p), p # q PROVE proc'[q] = proc[q]
  BY <1>1, <1>2, <1>8, RunsShape
<1>9. CASE Environment \/ UNCHANGED vars
  BY <1>9, EnvironmentShape
<1>q. QED BY <1>3, <1>4, <1>5, <1>6, <1>7, <1>8, <1>9, Cases DEF Runs

\* Where the GPS check of a booking comes from,
LEMMA GpsQueued ==
  ASSUME Inv, [Next]_vars, NEW b \in Bookings, <<"gps", b>> \in jobs'
  PROVE  \/ <<"gps", b>> \in jobs
         \/ \E p \in Procs : /\ Charging(proc[p], b) /\ Alone(p)
                             /\ proc'[p] = Idle /\ UNCHANGED db
         \/ \E p \in Procs : proc[p].op = "gps" /\ proc[p].b = b
<1>1. TypeOK /\ HandlerInv /\ JobInv
  BY DEF Inv
<1>2. ASSUME NEW p \in Procs, Effect(p), <<"gps", b>> \notin jobs
      PROVE  \/ Charging(proc[p], b) /\ Alone(p) /\ proc'[p] = Idle /\ UNCHANGED db
             \/ proc[p].op = "gps" /\ proc[p].b = b
  <2>1. proc[p].pc = "effects" /\ Alone(p) /\ UNCHANGED db
    BY <1>1, <1>2, EffectShape
  <2>2. proc[p].b = b /\ proc'[p] = Idle /\ proc[p].op \in {"accept", "gps"}
    BY <1>1, <1>2, QueueShape
  <2>q. QED BY <2>1, <2>2 DEF Charging
<1>3. ASSUME NEW p \in Procs,
             \/ Read(p) \/ AcceptLock(p) \/ AcceptCommit(p) \/ AcceptAbort(p)
             \/ CreateInsert(p) \/ Select(p) \/ Update(p) \/ Begins(p)
      PROVE  jobs' \subseteq jobs
  BY <1>1, <1>3, JobsShape
<1>4. CASE Crash \/ Environment \/ UNCHANGED vars
  BY <1>4, CrashShape, EnvironmentShape
<1>q. QED BY <1>2, <1>3, <1>4, Cases

\* and who takes it away.
LEMMA GpsTaken ==
  ASSUME Inv, [Next]_vars, NEW b \in Bookings, <<"gps", b>> \in jobs, <<"gps", b>> \notin jobs'
  PROVE  \E p \in Procs : proc[p].op = "gps" /\ proc[p].b = b /\ proc'[p] = Idle
<1>1. TypeOK /\ HandlerInv /\ JobInv
  BY DEF Inv
<1>2. ASSUME NEW p \in Procs, Effect(p)
      PROVE  proc[p].op = "gps" /\ proc[p].b = b /\ proc'[p] = Idle
  BY <1>1, <1>2, QueueShape
<1>3. ASSUME NEW p \in Procs,
             \/ Read(p) \/ AcceptLock(p) \/ AcceptCommit(p) \/ AcceptAbort(p)
             \/ CreateInsert(p) \/ Select(p) \/ Update(p) \/ Begins(p)
      PROVE  proc[p].op = "gps" /\ proc[p].b = b /\ proc'[p] = Idle
  BY <1>1, <1>3, JobsShape
<1>4. CASE Crash \/ Environment \/ UNCHANGED vars
  BY <1>4, CrashShape, EnvironmentShape
<1>q. QED BY <1>2, <1>3, <1>4, Cases

\* GpsInv is preserved: the check runs alone, from its job,
LEMMA GpsAlone ==
  ASSUME Inv, GpsInv, [Next]_vars
  PROVE  /\ \A p, q \in Procs : proc'[p].op = "gps" /\ proc'[q].op = "gps" => p = q
         /\ \A p \in Procs : proc'[p].op = "gps" => <<"gps", proc'[p].b>> \in jobs'
<1>1. TypeOK /\ HandlerInv /\ JobInv
  BY DEF Inv
<1>2. ASSUME NEW p \in Procs, Begins(p), proc'[p].op = "gps"
      PROVE  /\ \A q \in Procs : q # p => proc'[q].op # "gps"
             /\ <<"gps", proc'[p].b>> \in jobs'
  <2>1. Alone(p) /\ UNCHANGED jobs
    BY <1>1, <1>2, BeginShape DEF Begins
  <2>q. QED BY <1>1, <1>2, <2>1, BeginsGps DEF Alone
\* Any other check that runs afterwards ran before.
<1>3. ASSUME NEW q \in Procs, proc'[q].op = "gps", ~ Begins(q)
      PROVE  proc[q].op = "gps" /\ proc'[q].b = proc[q].b
  <2>1. ASSUME NEW p \in Procs, Alone(p), p # q PROVE proc'[q] = proc[q]
    BY <2>1 DEF Alone
  <2>2. ASSUME NEW p \in Procs, Runs(p) PROVE proc[q].op = "gps" /\ proc'[q].b = proc[q].b
    BY <1>1, <1>3, <2>1, <2>2, RunsShape, IdleIs
  <2>3. ASSUME NEW p \in Procs, Begins(p) PROVE proc'[q] = proc[q]
    BY <1>1, <1>3, <2>1, <2>3, BeginShape DEF Begins
  <2>4. ~ Crash
    BY <1>3, CrashShape, IdleIs
  <2>5. CASE Environment \/ UNCHANGED vars
    BY <1>3, <2>5, EnvironmentShape
  <2>q. QED BY <1>3, <2>2, <2>3, <2>4, <2>5, Cases DEF Runs
<1>4. ASSUME NEW q \in Procs, proc'[q].op = "gps" PROVE <<"gps", proc'[q].b>> \in jobs'
  <2>1. CASE ~ Begins(q)
    <3>1. /\ proc[q].op = "gps" /\ proc'[q].b = proc[q].b /\ proc'[q] # Idle
          /\ <<"gps", proc[q].b>> \in jobs /\ proc[q].b \in Bookings
      BY <1>1, <1>3, <1>4, <2>1, IdleIs DEF GpsInv, HandlerInv, HandlerOk
    <3>2. ASSUME <<"gps", proc[q].b>> \notin jobs' PROVE FALSE
      <4>1. PICK p \in Procs : proc[p].op = "gps" /\ proc'[p] = Idle
        BY <3>1, <3>2, GpsTaken
      <4>q. QED BY <3>1, <4>1 DEF GpsInv
    <3>q. QED BY <3>1, <3>2
  <2>q. QED BY <1>2, <1>4, <2>1
<1>5. ASSUME NEW p \in Procs, NEW q \in Procs, proc'[p].op = "gps", proc'[q].op = "gps"
      PROVE  p = q
  <2>1. CASE Begins(p) \/ Begins(q)
    BY <1>2, <1>5, <2>1
  <2>2. CASE ~ (Begins(p) \/ Begins(q))
    BY <1>3, <1>5, <2>2 DEF GpsInv
  <2>q. QED BY <2>1, <2>2
<1>q. QED BY <1>4, <1>5

\* the second save() comes at the last strike,
LEMMA SecondSave ==
  ASSUME Inv, GpsInv, [Next]_vars, NEW q \in Procs, proc'[q].pc \in {"select2", "update2"}
  PROVE  Forfeits(proc'[q])
<1>1. /\ TypeOK /\ HandlerInv /\ JobInv
      /\ proc \in [Procs -> Proc] /\ proc[q] \in Proc
  BY DEF Inv, TypeOK
<1>2. ASSUME NEW p \in Procs, Alone(p), p # q PROVE Forfeits(proc'[q])
  BY <1>2 DEF Alone, GpsInv
<1>3. CASE Select(q)
  BY <1>1, <1>3, SelectShape DEF GpsInv, Forfeits
<1>4. CASE Update(q)
  <2>1. At(q, "gps", "update") /\ Forfeits(proc[q])
    <3>1. ~ Finish(q)
      BY <1>1, IdleIs DEF Finish
    <3>2. ~ RunEffects(q)
      BY <1>1 DEF RunEffects, Proc
    <3>q. QED BY <1>4, <3>1, <3>2 DEF Update
  <2>2. proc'[q].base = Entity(proc[q])
    BY <1>1, <1>4, <2>1 DEF Update, Proc
  <2>3. Entity(proc[q]).strikes = proc[q].base.strikes + 1 /\ proc[q].base.strikes \in Nat
    BY <1>1, <2>1 DEF Entity, At, Proc, Row
  <2>q. QED BY <2>1, <2>2, <2>3, StrikesAssumption DEF Forfeits
<1>5. /\ ~ Effect(q) /\ ~ Read(q) /\ ~ AcceptLock(q) /\ ~ AcceptCommit(q) /\ ~ AcceptAbort(q)
      /\ ~ CreateInsert(q)
  BY <1>1, EffectShape, ReadShape, LockShape, CommitShape, AbortShape, InsertShape, IdleIs
<1>6. ASSUME NEW p \in Procs, Begins(p) PROVE Forfeits(proc'[q])
  <2>1. Begun(p) /\ Alone(p)
    BY <1>1, <1>6, BeginShape DEF Begins
  <2>2. p # q
    BY <2>1, HandlerIs DEF Begun
  <2>q. QED BY <1>2, <2>1, <2>2
<1>7. ASSUME NEW p \in Procs, Runs(p), p # q PROVE Forfeits(proc'[q])
  BY <1>1, <1>2, <1>7, RunsShape
<1>8. ~ Crash
  BY CrashShape, IdleIs
<1>9. CASE Environment \/ UNCHANGED vars
  BY <1>9, EnvironmentShape DEF GpsInv
<1>q. QED BY <1>3, <1>4, <1>5, <1>6, <1>7, <1>8, <1>9, Cases DEF Runs

\* and acceptBooking queues the check last of all, so that none is queued twice.
LEMMA CheckedOnce ==
  ASSUME Inv, SaverInv, AnswerInv, GpsInv, [Next]_vars, NEW b \in Bookings, <<"gps", b>> \in jobs'
  PROVE  ~ Unchecked(b)'
<1>1. CASE ~ Unchecked(b)
  BY <1>1, UncheckedStays
<1>2. CASE Unchecked(b)
  <2>1. <<"gps", b>> \notin jobs
    BY <1>2 DEF GpsInv
  <2>2. ASSUME NEW q \in Procs PROVE ~ (proc[q].op = "gps" /\ proc[q].b = b)
    BY <2>1 DEF GpsInv
  <2>3. PICK p \in Procs : Charging(proc[p], b) /\ Alone(p) /\ proc'[p] = Idle /\ UNCHANGED db
    BY <2>1, <2>2, GpsQueued
  <2>4. Decided(db'[b].status)
    BY <2>3 DEF AnswerInv, AnswerOk, Charging
  <2>5. ASSUME NEW q \in Procs, Charging(proc'[q], b) PROVE FALSE
    <3>1. q # p
      BY <2>3, <2>5, IdleIs DEF Charging
    <3>2. Charging(proc[q], b)
      BY <2>3, <2>5, <3>1 DEF Alone, Charging
    <3>q. QED BY <2>3, <3>1, <3>2 DEF GpsInv
  <2>q. QED BY <2>4, <2>5 DEF Unchecked, Charging
<1>q. QED BY <1>1, <1>2

\* Hence GpsInv is preserved.
LEMMA GpsStep ==
  ASSUME Inv, SaverInv, AnswerInv, GpsInv, [Next]_vars PROVE GpsInv'
<1>1. \A p \in Procs : proc'[p].pc \in {"select2", "update2"} => Forfeits(proc[p])'
  BY SecondSave DEF Forfeits
<1>2. \A p, q \in Procs, b \in Bookings : Charging(proc[p], b)' /\ Charging(proc[q], b)' => p = q
  BY ChargingOnce DEF Charging
<1>q. QED BY <1>1, <1>2, GpsAlone, CheckedOnce DEF GpsInv

-----------------------------------------------------------------------------
\* But for a restart, a booking to which no strike may be added any more stays so.
LEMMA OpenStays ==
  ASSUME Inv, SaverInv, AnswerInv, GpsInv, [Next]_vars, ~ Crash, NEW b \in Bookings, Open(b)'
  PROVE  Open(b)
<1>1. CASE Unchecked(b)'
  BY <1>1, UncheckedStays DEF Open
<1>2. CASE ~ Unchecked(b)'
  <2>1. /\ <<"gps", b>> \in jobs'
        /\ \A q \in Procs : proc'[q].b = b => ~ Forfeiting(proc'[q])
    BY <1>2 DEF Open, Forfeiting, Forfeits
  <2>2. CASE <<"gps", b>> \in jobs
    <3>1. \A q \in Procs : proc[q].b = b => ~ Forfeiting(proc[q])
      BY <2>1, ForfeitingStays
    <3>q. QED BY <2>2, <3>1 DEF Open
  <2>3. CASE <<"gps", b>> \notin jobs
    <3>1. \A q \in Procs : ~ (proc[q].op = "gps" /\ proc[q].b = b)
      BY <2>3 DEF GpsInv
    <3>2. \E p \in Procs : Charging(proc[p], b)
      BY <2>1, <2>3, <3>1, GpsQueued
    <3>q. QED BY <3>2 DEF Open, Unchecked
  <2>q. QED BY <2>2, <2>3
<1>q. QED BY <1>1, <1>2

\* So what was within the bound stays within it: a restart adds one to it.
LEMMA BoundStays ==
  ASSUME Inv, SaverInv, AnswerInv, GpsInv, [Next]_vars, NEW b \in Bookings, NEW n \in Nat,
         n <= MaxStrikes + restarts, Open(b) => n < MaxStrikes + restarts
  PROVE  /\ n <= MaxStrikes + restarts'
         /\ Open(b)' => n < MaxStrikes + restarts'
<1>1. restarts \in Nat /\ MaxStrikes \in Nat
  BY StrikesAssumption DEF Inv, TypeOK
<1>2. CASE Crash
  <2>1. restarts' = restarts + 1
    BY <1>2 DEF Crash
  <2>q. QED BY <1>1, <2>1
<1>3. CASE ~ Crash
  <2>1. restarts' = restarts /\ (Open(b)' => Open(b))
    BY <1>3, RestartsGrow, OpenStays
  <2>q. QED BY <1>1, <2>1
<1>q. QED BY <1>2, <1>3

\* The strikes of what a handler saves are within the bound: the last strike closes
\* the booking to others.
LEMMA SavedStrikes ==
  ASSUME Inv, SaverInv, AnswerInv, GpsInv, StrikeInv, [Next]_vars, NEW p \in Procs, Update(p),
         NEW b \in Bookings, b = proc[p].b
  PROVE  LET n == Entity(proc[p]).strikes IN
         /\ n \in Nat /\ n <= MaxStrikes + restarts'
         /\ Open(b)' => n < MaxStrikes + restarts'
<1>1. /\ TypeOK /\ HandlerInv /\ proc[p] \in Proc
      /\ proc[p].pc \in {"update", "update2"} /\ restarts \in Nat /\ MaxStrikes \in Nat
  BY UpdateShape, StrikesAssumption DEF Inv, TypeOK, HandlerInv, HandlerOk
<1>2. /\ proc[p].base \in Row /\ proc[p].base.strikes \in Nat
      /\ proc[p].base.strikes <= MaxStrikes + restarts
      /\ Open(b) => proc[p].base.strikes < MaxStrikes + restarts
  BY <1>1 DEF StrikeInv, Proc, Row
<1>3. CASE Entity(proc[p]).strikes = proc[p].base.strikes
  BY <1>1, <1>2, <1>3, BoundStays
<1>4. CASE Entity(proc[p]).strikes # proc[p].base.strikes
  <2>1. At(p, "gps", "update") /\ Entity(proc[p]).strikes = proc[p].base.strikes + 1
    <3>1. CASE proc[p].op = "gps"
      BY <1>1, <1>2, <1>4, <3>1 DEF Entity, Status, Row, At
    <3>2. CASE proc[p].op # "gps"
      BY <1>1, <1>2, <1>4, <3>2 DEF Entity, Status, Arrived, Settled, Row
    <3>q. QED BY <3>1, <3>2
  <2>2. restarts' = restarts
    BY DEF Update
  <2>3. CASE ~ Forfeits(proc[p])
    BY <1>1, <1>2, <2>1, <2>2, <2>3 DEF Forfeits
  <2>4. CASE Forfeits(proc[p])
    <3>1. <<"gps", b>> \in jobs /\ ~ Unchecked(b)
      BY <1>1, <2>1 DEF GpsInv, At
    <3>2. \A q \in Procs : Forfeiting(proc[q]) => q = p
      BY <2>1 DEF GpsInv, Forfeiting, At
    <3>3. ~ Forfeiting(proc[p])
      BY <2>1 DEF Forfeiting, At
    <3>4. Open(b)
      BY <3>1, <3>2, <3>3 DEF Open
    <3>5. proc'[p].op = "gps" /\ proc'[p].pc = "select2" /\ proc'[p].b = b
      <4>1. proc \in [Procs -> Proc]
        BY <1>1 DEF TypeOK
      <4>q. QED BY <1>1, <2>1, <2>4, <4>1 DEF Update, At, Proc
    <3>6. ~ Open(b)'
      <4>1. ~ Unchecked(b)'
        BY <1>1, <3>1, UncheckedStays
      <4>2. Forfeiting(proc[p])'
        BY <3>5 DEF Forfeiting
      <4>q. QED BY <3>5, <4>1, <4>2 DEF Open
    <3>q. QED BY <1>1, <1>2, <2>1, <2>2, <3>4, <3>6
  <2>q. QED BY <2>3, <2>4
<1>q. QED BY <1>3, <1>4

\* StrikeInv is preserved: in the rows,
LEMMA StrikeRows ==
  ASSUME Inv, SaverInv, AnswerInv, GpsInv, StrikeInv, [Next]_vars, NEW b \in Bookings
  PROVE  /\ db'[b].strikes <= MaxStrikes + restarts'
         /\ Open(b)' => db'[b].strikes < MaxStrikes + restarts'
<1>1. /\ TypeOK /\ HandlerInv /\ JobInv /\ db[b] \in Row /\ db[b].strikes \in Nat
      /\ db \in [Bookings -> Row] /\ restarts \in Nat
  BY DEF Inv, TypeOK, Row
<1>2. /\ db[b].strikes <= MaxStrikes + restarts'
      /\ Open(b)' => db[b].strikes < MaxStrikes + restarts'
  BY <1>1, BoundStays DEF StrikeInv
<1>3. CASE db'[b].strikes = db[b].strikes
  BY <1>2, <1>3
<1>4. ASSUME NEW p \in Procs, Update(p), b = proc[p].b, db'[b].strikes = Entity(proc[p]).strikes
      PROVE  /\ db'[b].strikes <= MaxStrikes + restarts'
             /\ Open(b)' => db'[b].strikes < MaxStrikes + restarts'
  BY <1>4, SavedStrikes
<1>5. ASSUME NEW p \in Procs, CreateInsert(p) PROVE db'[b].strikes \in {db[b].strikes, 0}
  BY <1>1, <1>5 DEF CreateInsert, NewRow, NoRow
<1>6. CASE db'[b].strikes = 0
  <2>1. MaxStrikes \in Nat \ {0} /\ restarts' \in Nat
    BY <1>1, StrikesAssumption, RestartsGrow
  <2>q. QED BY <1>6, <2>1
<1>7. ASSUME NEW p \in Procs, AcceptCommit(p) PROVE db'[b].strikes = db[b].strikes
  BY <1>1, <1>7 DEF AcceptCommit, Status, Row
<1>8. ASSUME NEW p \in Procs, Update(p)
      PROVE  \/ db'[b].strikes = db[b].strikes
             \/ b = proc[p].b /\ db'[b].strikes = Entity(proc[p]).strikes
  BY <1>1, <1>8 DEF Update, Updated, Row
<1>9. ASSUME NEW p \in Procs,
             \/ Effect(p) \/ Read(p) \/ AcceptLock(p) \/ AcceptAbort(p) \/ Select(p) \/ Begins(p)
      PROVE  UNCHANGED db
  BY <1>1, <1>9, EffectShape, ReadShape, LockShape, AbortShape, SelectShape, BeginShape DEF Begins
<1>10. CASE Crash \/ Environment \/ UNCHANGED vars
  BY <1>3, <1>10, CrashShape, EnvironmentShape
<1>q. QED BY <1>3, <1>4, <1>5, <1>6, <1>7, <1>8, <1>9, <1>10, Cases

\* and in the entities.
LEMMA StrikeEntities ==
  ASSUME Inv, SaverInv, AnswerInv, GpsInv, StrikeInv, [Next]_vars,
         NEW q \in Procs, NEW c \in Bookings, c = proc'[q].b
  PROVE  /\ proc'[q].base.strikes <= MaxStrikes + restarts'
         /\ Open(c)' => proc'[q].base.strikes < MaxStrikes + restarts'
<1>1. /\ TypeOK /\ HandlerInv /\ JobInv /\ proc[q] \in Proc
      /\ db \in [Bookings -> Row] /\ restarts \in Nat
  BY DEF Inv, TypeOK
<1>2. c \in Bookings /\ c = proc'[q].b
  OBVIOUS
<1>3. ASSUME proc'[q].b = proc[q].b,
             proc'[q].base = proc[q].base \/ proc'[q].base = db[proc[q].b]
      PROVE  /\ proc'[q].base.strikes <= MaxStrikes + restarts'
             /\ Open(c)' => proc'[q].base.strikes < MaxStrikes + restarts'
  <2>1. proc[q].base.strikes \in Nat /\ db[c].strikes \in Nat
    BY <1>1 DEF Proc, Row
  <2>2. /\ proc[q].base.strikes <= MaxStrikes + restarts'
        /\ Open(c)' => proc[q].base.strikes < MaxStrikes + restarts'
    BY <1>2, <1>3, <2>1, BoundStays DEF StrikeInv
  <2>3. /\ db[c].strikes <= MaxStrikes + restarts'
        /\ Open(c)' => db[c].strikes < MaxStrikes + restarts'
    BY <2>1, BoundStays DEF StrikeInv
  <2>q. QED BY <1>2, <1>3, <2>2, <2>3
<1>4. ASSUME NEW p \in Procs, Alone(p), p # q PROVE proc'[q] = proc[q]
  BY <1>4 DEF Alone
<1>5. proc'[q] # Idle
  BY IdleIs, NoneAssumption
<1>6. CASE Runs(q)
  <2>1. CASE proc'[q].base = Entity(proc[q]) /\ Update(q)
    <3>1. proc'[q].b = proc[q].b
      BY <1>1, <1>5, <1>6, RunsShape
    <3>2. /\ proc'[q].base.strikes <= MaxStrikes + restarts'
          /\ Open(c)' => proc'[q].base.strikes < MaxStrikes + restarts'
      BY <1>2, <2>1, <3>1, SavedStrikes
    <3>q. QED BY <1>2, <3>2
  <2>2. CASE proc'[q].base \in {proc[q].base, db[proc[q].b]}
    BY <1>1, <1>2, <1>3, <1>5, <1>6, <2>2, RunsShape
  <2>3. ~ AcceptCommit(q) \/ proc'[q].base = proc[q].base
    BY <1>1 DEF AcceptCommit, RunEffects, TypeOK, Proc
  <2>q. QED BY <1>1, <1>5, <1>6, <2>1, <2>2, <2>3, BaseShape DEF Runs
<1>7. ASSUME NEW p \in Procs, Runs(p), p # q PROVE proc'[q] = proc[q]
  BY <1>1, <1>4, <1>7, RunsShape
<1>8. ASSUME NEW p \in Procs, Begins(p)
      PROVE  proc'[q] = proc[q] \/ proc'[q].base.strikes = 0
  <2>1. Begun(p) /\ Alone(p)
    BY <1>1, <1>8, BeginShape DEF Begins
  <2>q. QED BY <1>4, <2>1, HandlerIs DEF Begun, NoRow
<1>9. CASE proc'[q].base.strikes = 0
  <2>1. MaxStrikes \in Nat /\ MaxStrikes > 0 /\ restarts' \in Nat
    BY <1>1, StrikesAssumption, RestartsGrow
  <2>2. ASSUME NEW m \in Nat, NEW r \in Nat, m > 0 PROVE 0 <= m + r /\ 0 < m + r
    BY <2>2
  <2>q. QED BY <1>9, <2>1, <2>2
<1>10. CASE proc'[q] = proc[q]
  BY <1>2, <1>3, <1>10
<1>11. ~ Crash
  BY <1>5, CrashShape
<1>12. CASE Environment \/ UNCHANGED vars
  BY <1>10, <1>12, EnvironmentShape
<1>q. QED BY <1>2, <1>6, <1>7, <1>8, <1>9, <1>10, <1>11, <1>12, Cases DEF Runs

\* Hence StrikeInv is preserved.
LEMMA StrikeStep ==
  ASSUME Inv, SaverInv, AnswerInv, GpsInv, StrikeInv, [Next]_vars PROVE StrikeInv'
<1>1. ASSUME NEW q \in Procs, proc'[q].b \in Bookings
      PROVE  /\ proc'[q].base.strikes <= MaxStrikes + restarts'
             /\ Open(proc[q].b)' => proc'[q].base.strikes < MaxStrikes + restarts'
  <2>1. PICK c \in Bookings : c = proc'[q].b
    BY <1>1
  <2>2. Open(c)' = Open(proc[q].b)'
    BY <2>1 DEF Open, Unchecked
  <2>q. QED BY <2>1, <2>2, StrikeEntities
<1>q. QED BY <1>1, StrikeRows DEF StrikeInv

\* Initially there is no strike.
LEMMA StrikeInit == Init => GpsInv /\ StrikeInv
<1> SUFFICES ASSUME Init PROVE GpsInv /\ StrikeInv
  OBVIOUS
<1>1. GpsInv
  BY IdleIs DEF Init, GpsInv, Charging
<1>2. \A p \in Procs : proc[p].b \notin Bookings
  BY IdleIs, NoneAssumption DEF Init
<1>3. \A b \in Bookings : db[b].strikes = 0
  BY DEF Init, NoRow
<1>4. restarts = 0
  BY DEF Init
<1>q. QED BY <1>1, <1>2, <1>3, <1>4, StrikesAssumption DEF StrikeInv

\* A worker who stays away gets no more strikes than the limit and the restarts,
\* whatever other handlers save over the row meanwhile.
THEOREM StrikesAreBounded == Spec => []StrikesBounded
<1> DEFINE All == Inv /\ SaverInv /\ AnswerInv /\ GpsInv /\ StrikeInv
<1>1. Init => All
  BY InitInv, SaverInit, AnswerInit, StrikeInit
<1>2. All /\ [Next]_vars => All'
  BY StepInv, SaverStep, AnswerStep, GpsStep, StrikeStep
<1>3. All => StrikesBounded
  BY DEF StrikeInv, StrikesBounded
<1>q. QED BY <1>1, <1>2, <1>3, PTL DEF Spec

-----------------------------------------------------------------------------
(***************************************************************************)
(* A waiting request is shown to its worker, where Redis does not fail and *)
(* the backend does not restart: createBooking puts it on the list, its    *)
(* timeout job keeps the list from expiring while it waits, and only       *)
(* handlers that found it decided take it off.                             *)
(***************************************************************************)
Creates(v, b, n) == v.op = "create" /\ v.b = b /\ v.pc = "effects" /\ v.k <= n

ShownInv ==
  \A b \in Bookings : db[b].status = "REQUESTED" =>
    /\ <<"timeout", b>> \in jobs \/ \E p \in Procs : Creates(proc[p], b, 1)
    /\ b \in pending[Operator[b]] \/ \E p \in Procs : Creates(proc[p], b, 2)

\* createBooking queues the timeout, then adds the request to the list.
LEMMA CreateNext ==
  ASSUME TypeOK, HandlerInv, ~ RedisMayFail, NEW p \in Procs, NEW b \in Bookings,
         Creates(proc[p], b, 2), Effect(p)
  PROVE  \/ <<"timeout", b>> \in jobs' /\ Creates(proc'[p], b, 2)
         \/ ~ Creates(proc[p], b, 1) /\ b \in pending'[Operator[b]]
<1>1. /\ proc \in [Procs -> Proc] /\ proc[p] \in Proc /\ proc[p].k \in {1, 2}
      /\ proc[p].op = "create" /\ proc[p].pc = "effects" /\ proc[p].b = b
      /\ pending \in [Workers -> SUBSET Bookings] /\ Operator[b] \in Workers
  <2>1. /\ proc \in [Procs -> Proc] /\ proc[p] \in Proc /\ proc[p].k \in Nat
        /\ proc[p].op = "create" /\ proc[p].pc = "effects" /\ proc[p].b = b
    BY DEF TypeOK, Creates, Proc
  <2>2. proc[p].k >= 1 /\ proc[p].k <= 2
    BY <2>1 DEF HandlerInv, HandlerOk, Creates
  <2>3. proc[p].k \in {1, 2}
    BY <2>1, <2>2
  <2>q. QED BY <2>1, <2>3, OperatorAssumption DEF TypeOK
<1>2. Script(proc[p]) = <<"queueTimeout", "pend", "cacheStatus">>
  BY <1>1 DEF Script
<1>3. CASE proc[p].k = 1
  <2>1. \A e : NextEffect(p, e) => e = "queueTimeout"
    BY <1>2, <1>3 DEF NextEffect
  <2>2. QueueTimeout(p)
    BY <2>1 DEF Effect, QueueGpsCheck, Enqueue, DeductBookingFee, CacheBookingStatus,
       AddPendingBooking, RemovePendingBooking, MarkBusy, ReleaseWorker, SetWorkerStatus,
       CancelSiblings, Refill
  <2>3. jobs' = jobs \cup {<<"timeout", b>>} /\ proc' = [proc EXCEPT ![p] = [proc[p] EXCEPT !.k = @ + 1]]
    BY <1>1, <1>2, <1>3, <2>2 DEF QueueTimeout, Enqueue
  <2>4. Creates(proc'[p], b, 2)
    BY <1>1, <1>3, <2>3 DEF Creates, Proc
  <2>q. QED BY <2>3, <2>4
<1>4. CASE proc[p].k = 2
  <2>1. \A e : NextEffect(p, e) => e = "pend"
    BY <1>2, <1>4 DEF NextEffect
  <2>2. AddPendingBooking(p)
    BY <2>1 DEF Effect, QueueTimeout, QueueGpsCheck, Enqueue, DeductBookingFee,
       CacheBookingStatus, RemovePendingBooking, MarkBusy, ReleaseWorker, SetWorkerStatus,
       CancelSiblings, Refill
  <2>3. b \in pending'[Operator[b]]
    BY <1>1, <2>2 DEF AddPendingBooking
  <2>4. ~ Creates(proc[p], b, 1)
    BY <1>4 DEF Creates
  <2>q. QED BY <2>3, <2>4
<1>q. QED BY <1>1, <1>3, <1>4

\* While it has its side effects to run, no other step of it can happen.
LEMMA CreateStays ==
  ASSUME TypeOK, HandlerInv, JobInv, [Next]_vars, ~ Crash, NEW p \in Procs, NEW b \in Bookings,
         NEW n, Creates(proc[p], b, n), ~ Effect(p)
  PROVE  proc'[p] = proc[p]
<1>1. ASSUME NEW q \in Procs, Alone(q), q # p PROVE proc'[p] = proc[p]
  BY <1>1 DEF Alone
<1>2. ASSUME NEW q \in Procs, Runs(q) PROVE proc'[p] = proc[p]
  <2>1. q # p
    BY <1>2, ReadShape, LockShape, CommitShape, AbortShape, InsertShape, SelectShape, UpdateShape
    DEF Runs, Creates, At
  <2>q. QED BY <1>1, <1>2, <2>1, RunsShape
<1>3. ASSUME NEW q \in Procs, Begins(q) PROVE proc'[p] = proc[p]
  <2>1. Begun(q) /\ Alone(q)
    BY <1>3, BeginShape DEF Begins
  <2>2. q # p
    BY <2>1, IdleIs DEF Begun, Creates
  <2>q. QED BY <1>1, <2>1, <2>2
<1>4. CASE Environment \/ UNCHANGED vars
  BY <1>4, EnvironmentShape
<1>q. QED BY <1>2, <1>3, <1>4, Cases DEF Runs

\* The timeout job of a booking ends when the booking is decided.
LEMMA TimeoutEnds ==
  ASSUME Inv, AnswerInv, [Next]_vars, NEW b \in Bookings,
         <<"timeout", b>> \in jobs, <<"timeout", b>> \notin jobs'
  PROVE  db[b].status # "REQUESTED" \/ db'[b].status # "REQUESTED"
<1>1. /\ TypeOK /\ HandlerInv /\ JobInv /\ \A p \in Procs : proc[p] \in Proc
      /\ proc \in [Procs -> Proc]
  BY DEF Inv, TypeOK
<1>2. ASSUME NEW p \in Procs, Effect(p) PROVE db[b].status # "REQUESTED"
  <2>1. proc[p].op = "timeout" /\ proc[p].b = b /\ proc[p].pc = "effects"
    BY <1>1, <1>2, QueueShape, EffectShape
  <2>q. QED BY <2>1 DEF AnswerInv, AnswerOk, Decided
<1>3. ASSUME NEW p \in Procs,
             \/ Read(p) \/ AcceptLock(p) \/ AcceptCommit(p) \/ AcceptAbort(p)
             \/ CreateInsert(p) \/ Select(p) \/ Update(p) \/ Begins(p)
      PROVE  db[b].status # "REQUESTED" \/ db'[b].status # "REQUESTED"
  <2>1. /\ proc[p].op = "timeout" /\ proc[p].b = b /\ proc'[p] = Idle /\ jobs' # jobs
    BY <1>1, <1>3, JobsShape
  <2>2. CASE Read(p)
    <3>1. TimeoutCheck(p) \/ TimeoutCancel(p)
      BY <2>1, <2>2 DEF Read, CreateCheck, ReadIf, RejectBooking, DeclineBooking, CancelBooking,
         VerifyArrivalOtp, VerifyCompletionOtp, MarkPaid, RefreshCompletionOtp, SubmitRating,
         GpsCheck, AddGpsStrike, PollStatus, FindPendingForWorker, At
    <3>2. ~ TimeoutCancel(p)
      BY <2>1 DEF TimeoutCancel
    <3>q. QED BY <2>1, <3>1, <3>2 DEF TimeoutCheck
  <2>3. ~ AcceptLock(p) /\ ~ AcceptCommit(p) /\ ~ AcceptAbort(p) /\ ~ CreateInsert(p)
    BY <2>1 DEF AcceptLock, AcceptCommit, AcceptAbort, CreateInsert, At
  <2>4. ~ Select(p) /\ ~ Begins(p)
    BY <2>1 DEF Select, Begins, RunJob, StartJob, Request
  <2>5. ~ Update(p)
    <3>1. Script(proc[p]) # <<>> /\ ~ At(p, "gps", "update")
      BY <2>1 DEF Script, At
    <3>q. QED BY <2>1, <3>1 DEF Update
  <2>q. QED BY <1>3, <2>2, <2>3, <2>4, <2>5
<1>4. CASE Crash \/ Environment \/ UNCHANGED vars
  BY <1>4, CrashShape, EnvironmentShape
<1>q. QED BY <1>2, <1>3, <1>4, Cases

\* What can take a request off the list: its own handler, acceptBooking that
\* cancelled it, or the expiry of the list.
LEMMA PendingShape ==
  ASSUME Inv, [Next]_vars, NEW b \in Bookings,
         b \in pending[Operator[b]], b \notin pending'[Operator[b]]
  PROVE  \/ \E p \in Procs : /\ Effect(p)
                             /\ \/ NextEffect(p, "unpend") /\ proc[p].b = b
                                \/ NextEffect(p, "siblings") /\ b \in proc[p].siblings
         \/ ExpirePending(Operator[b])
<1> DEFINE w == Operator[b]
<1>1. pending \in [Workers -> SUBSET Bookings] /\ w \in Workers
  BY OperatorAssumption DEF Inv, TypeOK
<1>2. ASSUME NEW p \in Procs, Effect(p)
      PROVE  \/ NextEffect(p, "unpend") /\ proc[p].b = b
             \/ NextEffect(p, "siblings") /\ b \in proc[p].siblings
  <2>1. ~ AddPendingBooking(p)
    BY <1>1 DEF AddPendingBooking
  <2>2. ASSUME NEW x, RefillOne(p, x) PROVE FALSE
    BY <1>1, <2>2 DEF RefillOne
  <2>3. ~ Refill(p)
    BY <2>2 DEF Refill
  <2>4. CASE RemovePendingBooking(p)
    BY <1>1, <2>4 DEF RemovePendingBooking
  <2>5. CASE CancelSiblings(p)
    BY <1>1, <2>5 DEF CancelSiblings, CancelOne
  <2>6. CASE ~ (RemovePendingBooking(p) \/ CancelSiblings(p))
    <3>1. UNCHANGED pending
      BY <1>2, <2>1, <2>3, <2>6 DEF Effect, QueueTimeout, QueueGpsCheck, Enqueue,
         DeductBookingFee, CacheBookingStatus, MarkBusy, ReleaseWorker, SetWorkerStatus, redis
    <3>q. QED BY <3>1
  <2>q. QED BY <2>4, <2>5, <2>6
<1>3. ASSUME NEW p \in Procs, Read(p) PROVE UNCHANGED pending
  BY <1>3 DEF Read, CreateCheck, ReadIf, RejectBooking, DeclineBooking, CancelBooking,
     VerifyArrivalOtp, VerifyCompletionOtp, MarkPaid, RefreshCompletionOtp, SubmitRating,
     TimeoutCheck, TimeoutCancel, GpsCheck, AddGpsStrike, PollStatus, FindPendingForWorker, redis
<1>4. ASSUME NEW p \in Procs,
             \/ AcceptLock(p) \/ AcceptCommit(p) \/ AcceptAbort(p)
             \/ CreateInsert(p) \/ Select(p) \/ Update(p) \/ Begins(p)
      PROVE  UNCHANGED pending
  BY <1>4 DEF AcceptLock, AcceptCommit, AcceptAbort, CreateInsert, Select, Update, Begins,
     RunJob, StartJob, Request, redis
<1>5. CASE Crash \/ UNCHANGED vars
  BY <1>5 DEF Crash, vars, redis
<1>6. CASE Environment
  BY <1>1, <1>6 DEF Environment, ExpirePending, ExpireStatus
<1>q. QED BY <1>2, <1>3, <1>4, <1>5, <1>6, Cases

\* A request that waits is waiting already, or was just created.
LEMMA Asked ==
  ASSUME Inv, [Next]_vars, NEW b \in Bookings, db'[b].status = "REQUESTED"
  PROVE  \/ db[b].status = "REQUESTED"
         \/ \E p \in Procs : Creates(proc'[p], b, 1)
<1>1. TypeOK /\ HandlerInv /\ JobInv
  BY DEF Inv
<1>2. CASE db'[b] = db[b]
  BY <1>2
<1>3. ASSUME NEW p \in Procs, CreateInsert(p), db'[b] # db[b] PROVE Creates(proc'[p], b, 1)
  BY <1>1, <1>3, InsertShape DEF TypeOK, Creates, Same, At
<1>4. ASSUME NEW p \in Procs, AcceptCommit(p) PROVE db[b].status = "REQUESTED"
  <2>1. db'[b].status \in {db[b].status, "ACCEPTED", "CANCELLED"}
    BY <1>1, <1>4 DEF AcceptCommit, Status, TypeOK, Row
  <2>q. QED BY <2>1
<1>5. ASSUME NEW p \in Procs, Update(p) PROVE db[b].status = "REQUESTED"
  <2>1. db'[b].status \in {db[b].status, Entity(proc[p]).status} /\ Decided(Entity(proc[p]).status)
    BY <1>1, <1>5, UpdateShape DEF Inv, SaveInv, Saving
  <2>q. QED BY <2>1 DEF Decided
<1>6. ASSUME NEW p \in Procs,
             \/ Effect(p) \/ Read(p) \/ AcceptLock(p) \/ AcceptAbort(p) \/ Select(p) \/ Begins(p)
      PROVE  UNCHANGED db
  BY <1>1, <1>6, EffectShape, ReadShape, LockShape, AbortShape, SelectShape, BeginShape DEF Begins
<1>7. CASE Crash \/ Environment \/ UNCHANGED vars
  BY <1>2, <1>7, CrashShape, EnvironmentShape
<1>q. QED BY <1>2, <1>3, <1>4, <1>5, <1>6, <1>7, Cases

\* ShownInv is preserved.
LEMMA ShownStep ==
  ASSUME ~ RedisMayFail, MaxRestarts = 0, Inv, AnswerInv, ShownInv, [Next]_vars PROVE ShownInv'
<1>1. /\ TypeOK /\ HandlerInv /\ JobInv
      /\ \A p \in Procs : proc[p] \in Proc /\ (proc[p].pc = "effects" => proc[p].k >= 1)
  BY DEF Inv, TypeOK, HandlerInv, HandlerOk
<1>2. ~ Crash
  BY <1>1 DEF Crash, TypeOK
<1>3. ASSUME NEW v \in Proc, NEW b, Creates(v, b, 1) PROVE Creates(v, b, 2)
  <2>1. v.k \in Nat
    BY DEF Proc
  <2>q. QED BY <1>3, <2>1 DEF Creates
<1>p. \A p \in Procs : proc'[p] \in Proc
  BY StepInv DEF Inv, TypeOK
<1>4. SUFFICES ASSUME NEW b \in Bookings, db'[b].status = "REQUESTED", db[b].status = "REQUESTED"
      PROVE  /\ <<"timeout", b>> \in jobs' \/ \E p \in Procs : Creates(proc'[p], b, 1)
             /\ b \in pending'[Operator[b]] \/ \E p \in Procs : Creates(proc'[p], b, 2)
  BY <1>3, <1>p, Asked DEF ShownInv, Creates
<1>5. <<"timeout", b>> \in jobs' \/ \E p \in Procs : Creates(proc'[p], b, 1)
  <2>1. CASE <<"timeout", b>> \in jobs
    BY <1>4, <2>1, TimeoutEnds
  <2>2. ASSUME NEW p \in Procs, Creates(proc[p], b, 1)
        PROVE  <<"timeout", b>> \in jobs' \/ Creates(proc'[p], b, 1)
    <3>1. CASE Effect(p)
      BY <1>1, <1>3, <2>2, <3>1, CreateNext
    <3>2. CASE ~ Effect(p)
      BY <1>1, <1>2, <2>2, <3>2, CreateStays
    <3>q. QED BY <3>1, <3>2
  <2>q. QED BY <1>4, <2>1, <2>2 DEF ShownInv
<1>6. b \in pending'[Operator[b]] \/ \E p \in Procs : Creates(proc'[p], b, 2)
  <2>1. CASE b \in pending[Operator[b]]
    <3>1. ASSUME NEW p \in Procs, NextEffect(p, "unpend"), proc[p].b = b PROVE FALSE
      <4>1. proc[p].op \notin {"create", "poll", "list"} /\ proc[p].pc = "effects"
        BY <1>1, <3>1, EffectIsOf DEF NextEffect
      <4>q. QED BY <1>4, <3>1, <4>1 DEF AnswerInv, AnswerOk, Decided
    <3>2. ASSUME NEW p \in Procs, NextEffect(p, "siblings"), b \in proc[p].siblings PROVE FALSE
      <4>1. proc[p].op = "accept" /\ proc[p].pc = "effects"
        BY <1>1, <3>2, EffectIsOf DEF NextEffect
      <4>q. QED BY <1>4, <3>2, <4>1 DEF AnswerInv, AnswerOk, Decided
    <3>3. ~ ExpirePending(Operator[b])
      <4>1. b \in Of(Operator[b])
        BY DEF Of
      <4>2. <<"timeout", b>> \in jobs \/ InFlight("create", b)
        BY <1>4 DEF ShownInv, Creates, InFlight
      <4>q. QED BY <4>1, <4>2 DEF ExpirePending
    <3>q. QED BY <2>1, <3>1, <3>2, <3>3, PendingShape
  <2>2. ASSUME NEW p \in Procs, Creates(proc[p], b, 2)
        PROVE  b \in pending'[Operator[b]] \/ Creates(proc'[p], b, 2)
    <3>1. CASE Effect(p)
      BY <1>1, <2>2, <3>1, CreateNext
    <3>2. CASE ~ Effect(p)
      BY <1>1, <1>2, <2>2, <3>2, CreateStays
    <3>q. QED BY <3>1, <3>2
  <2>q. QED BY <1>4, <2>1, <2>2 DEF ShownInv
<1>q. QED BY <1>5, <1>6

\* Where Redis does not fail and the backend does not restart, a request that waits
\* while no handler is at work for its worker is on the worker's list, or the list is
\* empty and read from the table.
THEOREM RequestsAreShown ==
  ASSUME ~ RedisMayFail, MaxRestarts = 0
  PROVE  Spec => []WaitingRequestIsShown
<1>1. Init => Inv /\ SaverInv /\ AnswerInv /\ ShownInv
  <2>1. Init => ShownInv
    BY DEF Init, ShownInv, NoRow
  <2>q. QED BY <2>1, InitInv, SaverInit, AnswerInit
<1>2. Inv /\ SaverInv /\ AnswerInv /\ ShownInv /\ [Next]_vars
        => Inv' /\ SaverInv' /\ AnswerInv' /\ ShownInv'
  BY StepInv, SaverStep, AnswerStep, ShownStep
<1>3. ShownInv => WaitingRequestIsShown
  <2> SUFFICES ASSUME ShownInv, NEW b \in Bookings, db[b].status = "REQUESTED",
                      Quiet(Operator[b])
               PROVE  b \in pending[Operator[b]]
    BY DEF WaitingRequestIsShown
  <2>1. ASSUME NEW p \in Procs PROVE ~ Creates(proc[p], b, 2)
    BY NoneAssumption DEF Quiet, Creates
  <2>q. QED BY <2>1 DEF ShownInv
<1>q. QED BY <1>1, <1>2, <1>3, PTL DEF Spec
=============================================================================
