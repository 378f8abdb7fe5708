---------------------------- MODULE WorkerSearch ----------------------------
(***************************************************************************)
(* What a customer is told of a worker: whether the worker is live         *)
(* (worker_profiles.isActive), is free (the bookings table) and where.     *)
(* getNearby answers from four copies in Redis: the skill index it starts  *)
(* from, the location, a snapshot of the profile and, when there is none,  *)
(* worker:status.  toggleGoLive, acceptBooking, the end of a booking, the  *)
(* socket and getNearby itself write them, each key in a command of its    *)
(* own, after the table.                                                   *)
(***************************************************************************)
EXTENDS TypeOrm

CONSTANTS
  Workers,
  Bookings,      \* places for the bookings a worker has accepted
  Procs,         \* handlers in flight
  None,          \* nothing in Redis
  RedisMayFail,  \* TRUE when a Redis command may fail (RedisService swallows it)
  MayCrash       \* TRUE when a handler may be lost between two statements

ASSUME WorkersAssumption == Workers # {} /\ Procs # {}
ASSUME SwitchAssumption == RedisMayFail \in BOOLEAN /\ MayCrash \in BOOLEAN

Availability == {"available", "busy"}
Dto == [isActive : BOOLEAN, status : Availability]
ASSUME NoneAssumption == None \notin Dto /\ None \notin Availability /\ None \notin Bookings

VARIABLES
  profile,   \* the worker_profiles table, as far as the search goes
  jobs,      \* the bookings table: each worker's ACCEPTED and ACTIVE bookings
  index,     \* Redis skill index (a worker's skills do not change)
  location,  \* Redis worker:location
  snapshot,  \* Redis worker:snapshot
  status,    \* Redis worker:status
  slips,     \* history: the races and failures each worker has met
  proc

redis == <<index, location, snapshot, status>>
vars == <<profile, jobs, redis, slips, proc>>

Slips == {"fault",    \* a write to Redis failed, or a handler was lost
          "crossed",  \* two saves of the profile overlapped
          "expired",  \* the index was dropped since the worker went live
          "late",     \* a status or snapshot was filled in with what was read earlier
          "tangled"}  \* what worker:status does not follow: an accepted booking was
                      \* cancelled, ended twice, saved back after its end, or met a
                      \* toggle or another booking's accept or end

Savers == {"toggle", "edit"}
Readers == {"search", "view"}
NoDto == [isActive |-> FALSE, status |-> "available"]
Idle == [op |-> "none", pc |-> "idle", w |-> CHOOSE w \in Workers : TRUE,
         b |-> None, dto |-> NoDto, dirty |-> {}, quiet |-> FALSE]
Proc == [op : Savers \cup Readers \cup {"accept", "end", "renew", "none"},
         pc : {"idle", "select", "update", "location", "status", "snapshot", "index",
               "nearby", "row", "jobs", "save", "setStatus", "fill", "answer"},
         w : Workers,
         b : Bookings \cup {None},  \* the booking to save, None once it has ended
         dto : Dto,                 \* what a search will answer; a saver's entity
         dirty : SUBSET {"isActive"},
         quiet : BOOLEAN]           \* history: no save of w's profile was in flight
                                    \* since the search began

At(p, op, pc) == proc[p].op = op /\ proc[p].pc = pc
Goto(p, pc) == proc' = [proc EXCEPT ![p].pc = pc]
Done(p) == proc' = [proc EXCEPT ![p] = Idle]
InFlight(ops, w) == \E q \in Procs : proc[q].op \in ops /\ proc[q].w = w
Handler(op, pc, w) == [Idle EXCEPT !.op = op, !.pc = pc, !.w = w]

After(w, what, happens) == IF happens THEN slips[w] \cup {what} ELSE slips[w]
Slip(w, what, happens) == slips' = [slips EXCEPT ![w] = After(w, what, happens)]
Fault(w) == RedisMayFail /\ Slip(w, "fault", TRUE)

-----------------------------------------------------------------------------
(***************************************************************************)
(* Saves of the profile.  The searches for the worker are quiet no more.   *)
(***************************************************************************)
StartSave(p, op, w, isActive) ==
  /\ proc[p] = Idle
  /\ proc' = [q \in Procs |->
       IF q = p THEN [Handler(op, "select", w) EXCEPT !.dto.isActive = isActive]
       ELSE IF proc[q].w = w THEN [proc[q] EXCEPT !.quiet = FALSE]
       ELSE proc[q]]
  /\ UNCHANGED <<profile, jobs, redis>>

\* toggleGoLive that is not refused (module WorkerProfile has its conditions).
ToggleGoLive(p, w) ==
  /\ StartSave(p, "toggle", w, ~ profile[w].isActive)
  /\ slips' = [slips EXCEPT ![w] = After(w, "crossed", InFlight(Savers, w))
                                   \cup After(w, "tangled", jobs[w] # {})]

\* updateHourlyRate and the ends of verifyCompletionOtp and submitRating.
EditProfile(p, w) ==
  /\ StartSave(p, "edit", w, profile[w].isActive)
  /\ Slip(w, "crossed", InFlight(Savers, w))

Entity(pr) == [isActive |-> pr.dto.isActive]

Select(p) ==
  /\ proc[p].pc = "select"
  /\ proc' = [proc EXCEPT ![p].pc = "update",
                ![p].dirty = Changed(profile[proc[p].w], Entity(proc[p]))]
  /\ UNCHANGED <<profile, jobs, redis, slips>>

Update(p) ==
  /\ proc[p].pc = "update"
  /\ profile' = [profile EXCEPT ![proc[p].w] = Updated(@, Entity(proc[p]), proc[p].dirty)]
  /\ IF proc[p].op = "edit" THEN Done(p)
     ELSE Goto(p, IF proc[p].dto.isActive THEN "status" ELSE "location")
  /\ UNCHANGED <<jobs, redis, slips>>

(***************************************************************************)
(* toggleGoLive, the Redis keys: those of a worker who goes off line are   *)
(* deleted, and set for one who goes live (but for the location, which     *)
(* comes over the socket).                                                 *)
(***************************************************************************)
DelLocation(p) ==
  /\ At(p, "toggle", "location")
  /\ \/ location' = location \ {proc[p].w} /\ UNCHANGED slips
     \/ Fault(proc[p].w) /\ UNCHANGED location
  /\ Goto(p, "status")
  /\ UNCHANGED <<profile, jobs, index, snapshot, status>>

SyncStatus(p) ==
  LET w == proc[p].w IN
  /\ At(p, "toggle", "status")
  /\ \/ /\ status' = [status EXCEPT ![w] = IF proc[p].dto.isActive THEN "available" ELSE None]
        /\ UNCHANGED slips
     \/ Fault(w) /\ UNCHANGED status
  /\ Goto(p, "snapshot")
  /\ UNCHANGED <<profile, jobs, index, location, snapshot>>

\* A search that read the profile before it went live is still to store it.
Outdates(p) == \E q \in Procs : /\ proc[q].op = "search" /\ proc[q].w = proc[p].w
                                /\ proc[q].pc \in {"status", "jobs", "setStatus", "fill"}
                                /\ ~ proc[q].dto.isActive

\* Mutant: going live leaves the snapshot to the searches.
SyncSnapshotDelOnly(p) ==
  LET w == proc[p].w IN
  /\ At(p, "toggle", "snapshot")
  /\ snapshot' = IF proc[p].dto.isActive THEN snapshot ELSE [snapshot EXCEPT ![w] = None]
  /\ Goto(p, "index")
  /\ UNCHANGED <<profile, jobs, index, location, status, slips>>

SyncSnapshot(p) ==
  LET w == proc[p].w IN
  /\ At(p, "toggle", "snapshot")
  /\ \/ /\ snapshot' = [snapshot EXCEPT ![w] = IF proc[p].dto.isActive THEN proc[p].dto ELSE None]
        /\ Slip(w, "late", proc[p].dto.isActive /\ Outdates(p))
     \/ Fault(w) /\ UNCHANGED snapshot
  /\ Goto(p, "index")
  /\ UNCHANGED <<profile, jobs, index, location, status>>

\* Mutant: the worker stays in the index.
SyncIndexAddOnly(p) ==
  /\ At(p, "toggle", "index")
  /\ index' = IF proc[p].dto.isActive THEN index \cup {proc[p].w} ELSE index
  /\ Done(p)
  /\ UNCHANGED <<profile, jobs, location, snapshot, status, slips>>

SyncIndex(p) ==
  LET w == proc[p].w IN
  /\ At(p, "toggle", "index")
  /\ \/ /\ index' = IF proc[p].dto.isActive THEN index \cup {w} ELSE index \ {w}
        /\ slips' = [slips EXCEPT ![w] = @ \ {"expired"}]
     \/ Fault(w) /\ UNCHANGED index
  /\ Done(p)
  /\ UNCHANGED <<profile, jobs, location, snapshot, status>>

-----------------------------------------------------------------------------
(***************************************************************************)
(* Bookings.                                                               *)
(***************************************************************************)
Pending(op, w) == InFlight({op}, w)
\* A reader that found the other status is still to store it.
Contradicts(w, s) == \E q \in Procs : /\ proc[q].op \in Readers /\ proc[q].pc = "setStatus"
                                      /\ proc[q].w = w /\ proc[q].dto.status # s

\* acceptBooking, the commit.
AcceptBooking(p, w, b) ==
  /\ proc[p] = Idle /\ b \notin jobs[w]
  /\ jobs' = [jobs EXCEPT ![w] = @ \cup {b}]
  /\ proc' = [proc EXCEPT ![p] = Handler("accept", "setStatus", w)]
  /\ Slip(w, "tangled", jobs[w] # {} \/ InFlight({"end", "toggle"}, w))
  /\ UNCHANGED <<profile, redis>>

\* What the handlers hold of a booking that ends.
Ended(w, b) == [q \in Procs |-> IF proc[q].w = w /\ proc[q].b = b
                               THEN [proc[q] EXCEPT !.b = None] ELSE proc[q]]

\* Handlers that find an accepted booking: verifyCompletionOtp and the forfeit of
\* addGpsStrike end it; verifyArrivalOtp, refreshCompletionOtp and a strike save it
\* as they found it.
FindBooking(p, op, w, b) ==
  /\ proc[p] = Idle /\ b \in jobs[w]
  /\ proc' = [proc EXCEPT ![p] = [Handler(op, "save", w) EXCEPT !.b = b]]
  /\ UNCHANGED <<profile, jobs, redis, slips>>

EndBooking(p) ==
  LET w == proc[p].w IN
  /\ At(p, "end", "save")
  /\ jobs' = [jobs EXCEPT ![w] = @ \ {proc[p].b}]
  /\ proc' = [Ended(w, proc[p].b) EXCEPT ![p] = Handler("end", "setStatus", w)]
  /\ Slip(w, "tangled", proc[p].b = None \/ Pending("accept", w))
  /\ UNCHANGED <<profile, redis>>

\* The old status over the one that ended it: the booking is accepted again.
RenewBooking(p) ==
  LET w == proc[p].w IN
  /\ At(p, "renew", "save")
  /\ IF proc[p].b = None
       THEN \E b \in Bookings \ jobs[w] : jobs' = [jobs EXCEPT ![w] = @ \cup {b}]
       ELSE UNCHANGED jobs
  /\ Slip(w, "tangled", proc[p].b = None)
  /\ Done(p)
  /\ UNCHANGED <<profile, redis>>

\* updateStatus: cancelled after all.
CancelBooking(w, b) ==
  /\ b \in jobs[w]
  /\ jobs' = [jobs EXCEPT ![w] = @ \ {b}]
  /\ proc' = Ended(w, b)
  /\ Slip(w, "tangled", TRUE)
  /\ UNCHANGED <<profile, redis>>

\* Mutant: acceptBooking does not set the worker busy.
SetWorkerStatusOnEnd(p) ==
  /\ proc[p].pc = "setStatus" /\ proc[p].op \in {"accept", "end"}
  /\ status' = IF proc[p].op = "end" THEN [status EXCEPT ![proc[p].w] = "available"] ELSE status
  /\ Done(p)
  /\ UNCHANGED <<profile, jobs, index, location, snapshot, slips>>

SetWorkerStatus(p) ==
  LET w == proc[p].w
      s == IF proc[p].op = "accept" THEN "busy" ELSE "available" IN
  /\ proc[p].pc = "setStatus" /\ proc[p].op \in {"accept", "end"}
  /\ \/ status' = [status EXCEPT ![w] = s] /\ Slip(w, "late", Contradicts(w, s))
     \/ Fault(w) /\ UNCHANGED status
  /\ Done(p)
  /\ UNCHANGED <<profile, jobs, index, location, snapshot>>

-----------------------------------------------------------------------------
(***************************************************************************)
(* Readers.                                                                *)
(***************************************************************************)
\* getNearby walks the workers of the index.
GetNearby(p, w) ==
  /\ proc[p] = Idle /\ w \in index
  /\ proc' = [proc EXCEPT ![p] = [Handler("search", "nearby", w) EXCEPT
                                    !.quiet = ~ InFlight(Savers, w)]]
  /\ UNCHANGED <<profile, jobs, redis, slips>>

\* Whoever has no location, or is farther than 50 kilometres, is left out.
GetLocation(p) ==
  /\ At(p, "search", "nearby")
  /\ Done(p) \/ (proc[p].w \in location /\ Goto(p, "snapshot"))
  /\ UNCHANGED <<profile, jobs, redis, slips>>

GetSnapshot(p) ==
  LET w == proc[p].w IN
  /\ At(p, "search", "snapshot")
  /\ \/ /\ snapshot[w] # None
        /\ proc' = [proc EXCEPT ![p].dto = snapshot[w], ![p].pc = "answer"]
     \/ (snapshot[w] = None \/ RedisMayFail) /\ Goto(p, "row")
  /\ UNCHANGED <<profile, jobs, redis, slips>>

\* The fallback of getNearby, and getById and getAll: read the profile, then the
\* status.
Reads(p, pr) == [pr EXCEPT !.dto.isActive = profile[pr.w].isActive, !.pc = "status"]
ReadProfile(p) ==
  /\ At(p, "search", "row")
  /\ proc' = [proc EXCEPT ![p] = Reads(p, @)]
  /\ UNCHANGED <<profile, jobs, redis, slips>>

GetById(p, w) ==
  /\ proc[p] = Idle
  /\ proc' = [proc EXCEPT ![p] = Reads(p, Handler("view", "row", w))]
  /\ UNCHANGED <<profile, jobs, redis, slips>>

\* getWorkerStatus.
AfterStatus(pr) == [pr EXCEPT !.pc = IF pr.op = "search" THEN "fill" ELSE "answer"]

\* Mutant: a missing status is answered as it is.
GetStatusAsIs(p) ==
  /\ proc[p].pc = "status" /\ proc[p].op \in Readers
  /\ proc' = [proc EXCEPT ![p] = [AfterStatus(@) EXCEPT !.dto.status = status[proc[p].w]]]
  /\ UNCHANGED <<profile, jobs, redis, slips>>

GetStatus(p) ==
  LET s == status[proc[p].w] IN
  /\ proc[p].pc = "status" /\ proc[p].op \in Readers
  /\ \/ s # None /\ proc' = [proc EXCEPT ![p] = [AfterStatus(@) EXCEPT !.dto.status = s]]
     \/ (s = None \/ RedisMayFail) /\ Goto(p, "jobs")
  /\ UNCHANGED <<profile, jobs, redis, slips>>

FindActiveBooking(p) ==
  /\ proc[p].pc = "jobs"
  /\ proc' = [proc EXCEPT ![p].pc = "setStatus",
       ![p].dto.status = IF jobs[proc[p].w] # {} THEN "busy" ELSE "available"]
  /\ UNCHANGED <<profile, jobs, redis, slips>>

CacheStatus(p) ==
  /\ proc[p].pc = "setStatus" /\ proc[p].op \in Readers
  /\ \/ status' = [status EXCEPT ![proc[p].w] = proc[p].dto.status]
     \/ RedisMayFail /\ UNCHANGED status
  /\ proc' = [proc EXCEPT ![p] = AfterStatus(@)]
  /\ UNCHANGED <<profile, jobs, index, location, snapshot, slips>>

CacheWorkerSnapshot(p) ==
  /\ At(p, "search", "fill")
  /\ \/ snapshot' = [snapshot EXCEPT ![proc[p].w] = proc[p].dto]
     \/ RedisMayFail /\ UNCHANGED snapshot
  /\ Goto(p, "answer")
  /\ UNCHANGED <<profile, jobs, index, location, status, slips>>

Answer(p) ==
  /\ proc[p].pc = "answer"
  /\ Done(p)
  /\ UNCHANGED <<profile, jobs, redis, slips>>

-----------------------------------------------------------------------------
\* The worker's app sends where it is over the socket, live or not.
UpdateLocation(w) ==
  /\ location' = location \cup {w}
  /\ UNCHANGED <<profile, jobs, index, snapshot, status, slips, proc>>

\* The status and location live an hour, the snapshot and the index a day; a key
\* of the index holds every worker with the skill.
Expire(w) ==
  /\ \/ status' = [status EXCEPT ![w] = None] /\ UNCHANGED <<index, location, snapshot, slips>>
     \/ snapshot' = [snapshot EXCEPT ![w] = None] /\ UNCHANGED <<index, location, status, slips>>
     \/ location' = location \ {w} /\ UNCHANGED <<index, snapshot, status, slips>>
     \/ /\ index' = {}
        /\ slips' = [x \in Workers |-> After(x, "expired", x \in index)]
        /\ UNCHANGED <<location, snapshot, status>>
  /\ UNCHANGED <<profile, jobs, proc>>

Lose(p) ==
  /\ MayCrash /\ proc[p] # Idle
  /\ Slip(proc[p].w, "fault", TRUE)
  /\ Done(p)
  /\ UNCHANGED <<profile, jobs, redis>>

Init ==
  /\ profile = [w \in Workers |-> [isActive |-> FALSE]]
  /\ jobs = [w \in Workers |-> {}]
  /\ index = {} /\ location = {}
  /\ snapshot = [w \in Workers |-> None] /\ status = [w \in Workers |-> None]
  /\ slips = [w \in Workers |-> {}]
  /\ proc = [p \in Procs |-> Idle]

Next ==
  \/ \E p \in Procs :
       \/ \E w \in Workers :
            \/ ToggleGoLive(p, w) \/ EditProfile(p, w) \/ GetNearby(p, w) \/ GetById(p, w)
            \/ \E b \in Bookings : \/ AcceptBooking(p, w, b)
                                  \/ FindBooking(p, "end", w, b) \/ FindBooking(p, "renew", w, b)
       \/ EndBooking(p) \/ RenewBooking(p)
       \/ Select(p) \/ Update(p) \/ DelLocation(p) \/ SyncStatus(p) \/ SyncSnapshot(p) \/ SyncIndex(p)
       \/ SetWorkerStatus(p) \/ GetLocation(p) \/ GetSnapshot(p) \/ ReadProfile(p) \/ GetStatus(p)
       \/ FindActiveBooking(p) \/ CacheStatus(p) \/ CacheWorkerSnapshot(p) \/ Answer(p) \/ Lose(p)
  \/ \E w \in Workers : UpdateLocation(w) \/ Expire(w) \/ \E b \in Bookings : CancelBooking(w, b)

Spec == Init /\ [][Next]_vars

-----------------------------------------------------------------------------
TypeOK ==
  /\ profile \in [Workers -> [isActive : BOOLEAN]]
  /\ jobs \in [Workers -> SUBSET Bookings]
  /\ index \subseteq Workers /\ location \subseteq Workers
  /\ snapshot \in [Workers -> Dto \cup {None}]
  /\ status \in [Workers -> Availability \cup {None}]
  /\ slips \in [Workers -> SUBSET Slips]
  /\ proc \in [Procs -> Proc]

Spared(w, causes) == slips[w] \cap causes = {}

\* When the saves of a profile do not overlap, a search starts from the workers
\* who are live, and from all of them until the index expires.  (Nothing puts a
\* live worker back: the index is a day old at most, the profile is not.)
IndexFollowsProfile ==
  \A w \in Workers : Spared(w, {"fault", "crossed"}) /\ ~ InFlight(Savers, w) =>
    /\ w \in index => profile[w].isActive
    /\ profile[w].isActive => w \in index \/ "expired" \in slips[w]

\* A search during which nobody saved the worker's profile answers with live
\* workers and shows them live, whether it took the snapshot or filled it in, unless
\* a search before it filled in a profile it had read before the worker went live.
AnswersAreLive ==
  \A p \in Procs : LET w == proc[p].w IN
    At(p, "search", "answer") /\ proc[p].quiet /\ Spared(w, {"fault", "crossed", "late"}) =>
      profile[w].isActive /\ proc[p].dto.isActive

\* As long as a worker takes one booking after the other, and none while toggling,
\* worker:status says of the worker what the bookings do, or the handler that will
\* correct it is under way, unless a reader filled in what it had read before.
StatusFollowsJobs ==
  \A w \in Workers :
    Spared(w, {"fault", "late", "tangled"}) =>
      \/ status[w] \in {None, IF jobs[w] = {} THEN "available" ELSE "busy"}
      \/ \E p \in Procs : At(p, IF jobs[w] = {} THEN "end" ELSE "accept", "setStatus") /\ proc[p].w = w
=============================================================================
