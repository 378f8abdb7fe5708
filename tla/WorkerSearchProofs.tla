-------------------------- MODULE WorkerSearchProofs --------------------------
(***************************************************************************)
(* What TLAPS proves of module WorkerSearch for every number of workers,   *)
(* bookings and handlers in flight.                                        *)
(***************************************************************************)
EXTENDS WorkerSearch, TLAPS

\* The statements that only some handlers have, and what they hold of a booking.
Handled(v) ==
  /\ v.pc \in {"select", "update"} => v.op \in Savers
  /\ v.pc \in {"jobs", "answer"} => v.op \in Readers
  /\ v.b # None => v.b \in jobs[v.w]
Base == TypeOK /\ \A p \in Procs : Handled(proc[p])

-----------------------------------------------------------------------------
(***************************************************************************)
(* The index.                                                              *)
(***************************************************************************)
Saves(v, w) == v.op \in Savers /\ v.w = w

IndexOk(w) ==
  /\ w \in index => profile[w].isActive
  /\ profile[w].isActive => w \in index \/ "expired" \in slips[w]

\* The row of the only handler that saves it is the one it read until its UPDATE,
\* and what it wrote from then on.
SaverOk(v) ==
  /\ v.op = "edit" \/ v.pc \in {"select", "update"} => IndexOk(v.w)
  /\ IF v.op = "toggle" /\ v.pc \in {"select", "update"}
       THEN v.dto.isActive # profile[v.w].isActive
       ELSE v.dto.isActive = profile[v.w].isActive
  /\ v.pc = "update" =>
       ("isActive" \in v.dirty <=> v.dto.isActive # profile[v.w].isActive)

IndexAt(w) ==
  Spared(w, {"fault", "crossed"}) =>
    /\ \A p \in Procs, q \in Procs : Saves(proc[p], w) /\ Saves(proc[q], w) => p = q
    /\ ~ InFlight(Savers, w) => IndexOk(w)
    /\ \A p \in Procs : Saves(proc[p], w) => SaverOk(proc[p])
    /\ \A p \in Procs : proc[p].op = "search" /\ proc[p].w = w /\ proc[p].quiet =>
                          ~ InFlight(Savers, w) /\ profile[w].isActive

-----------------------------------------------------------------------------
(***************************************************************************)
(* The answers.                                                            *)
(***************************************************************************)
\* Between the UPDATE of a toggle and the snapshot it writes.
Syncing(v, w) ==
  v.op = "toggle" /\ v.w = w /\ v.pc \in {"location", "status", "snapshot"}

\* A search that has read the profile and may store it as a snapshot.
Fills(v, w) ==
  v.op = "search" /\ v.w = w /\ v.pc \in {"status", "jobs", "setStatus", "fill"}

Answers(v, w) == v.op = "search" /\ v.w = w /\ v.pc = "answer" /\ v.quiet

LiveAt(w) ==
  Spared(w, {"fault", "crossed", "late"}) =>
    /\ profile[w].isActive /\ (\A p \in Procs : ~ Syncing(proc[p], w)) =>
         /\ snapshot[w] # None => snapshot[w].isActive
         /\ \A p \in Procs : Fills(proc[p], w) => proc[p].dto.isActive
    /\ \A p \in Procs : Answers(proc[p], w) => proc[p].dto.isActive

-----------------------------------------------------------------------------
(***************************************************************************)
(* The status.                                                             *)
(***************************************************************************)
Truth(w) == IF jobs[w] = {} THEN "available" ELSE "busy"

\* The handler that accepted or ended a booking and is still to say so.
Tells(v, w) ==
  v.op = (IF jobs[w] = {} THEN "end" ELSE "accept") /\ v.pc = "setStatus" /\ v.w = w
Told(w) == \E p \in Procs : Tells(proc[p], w)

\* A reader that has looked into the bookings and is still to store the answer.
Caches(v, w) == v.op \in Readers /\ v.pc = "setStatus" /\ v.w = w

StatusAt(w) ==
  Spared(w, {"fault", "late", "tangled"}) =>
    /\ \A b \in jobs[w], c \in jobs[w] : b = c
    /\ \A p \in Procs : proc[p].w = w =>
         /\ proc[p].op = "toggle" => jobs[w] = {}
         /\ proc[p].op = "accept" => jobs[w] # {}
         /\ proc[p].op = "end" /\ proc[p].pc = "setStatus" => jobs[w] = {}
    /\ \A p \in Procs : Caches(proc[p], w) => proc[p].dto.status = Truth(w) \/ Told(w)
    /\ status[w] \in {None, Truth(w)} \/ Told(w)

Inv == Base /\ \A w \in Workers : IndexAt(w) /\ LiveAt(w) /\ StatusAt(w)

-----------------------------------------------------------------------------
(***************************************************************************)
(* Handlers, and what a step does to them.                                 *)
(***************************************************************************)
LEMMA DtoTyped ==
  ASSUME NEW d \in Dto
  PROVE  d.isActive \in BOOLEAN /\ d.status \in Availability /\ d # None
BY NoneAssumption DEF Dto

LEMMA IdleTyped ==
  /\ Idle \in Proc /\ Idle.op = "none" /\ Idle.pc = "idle" /\ Idle.b = None
  /\ ~ Idle.quiet /\ NoDto \in Dto
<1>1. (CHOOSE w \in Workers : TRUE) \in Workers
  BY WorkersAssumption
<1>2. NoDto \in Dto
  BY DEF NoDto, Dto, Availability
<1>q. QED BY <1>1, <1>2 DEF Idle, Proc

Ops == Savers \cup Readers \cup {"accept", "end", "renew", "none"}
Pcs == {"idle", "select", "update", "location", "status", "snapshot", "index",
        "nearby", "row", "jobs", "save", "setStatus", "fill", "answer"}

LEMMA HandlerTyped ==
  ASSUME NEW op \in Ops, NEW pc \in Pcs, NEW w \in Workers
  PROVE  /\ Handler(op, pc, w) \in Proc /\ Handler(op, pc, w).op = op
         /\ Handler(op, pc, w).pc = pc /\ Handler(op, pc, w).w = w
         /\ Handler(op, pc, w).b = None /\ ~ Handler(op, pc, w).quiet
         /\ Handler(op, pc, w).dto \in Dto
BY IdleTyped DEF Handler, Idle, Proc, Ops, Pcs

\* The same handler, but for the booking it holds and for what may have begun
\* around it.
Same(u, v) ==
  /\ u.op = v.op /\ u.pc = v.pc /\ u.w = v.w /\ u.dto = v.dto /\ u.dirty = v.dirty
  /\ u.quiet => v.quiet

\* p goes to v, the other handlers do nothing.
Others(p) == \A q \in Procs \ {p} : Same(proc'[q], proc[q])
Moves(p, v) == v \in Proc /\ proc' \in [Procs -> Proc] /\ proc'[p] = v /\ Others(p)

LEMMA OneMoves ==
  ASSUME TypeOK, NEW p \in Procs, NEW v \in Proc, proc' = [proc EXCEPT ![p] = v]
  PROVE  Moves(p, v) /\ \A q \in Procs \ {p} : proc'[q] = proc[q]
BY DEF TypeOK, Moves, Others, Same

LEMMA DoneMoves ==
  ASSUME TypeOK, NEW p \in Procs, Done(p)
  PROVE  Moves(p, Idle) /\ \A q \in Procs \ {p} : proc'[q] = proc[q]
BY IdleTyped, OneMoves DEF Done

\* The handler goes on to its next statement.
At2(u, v, pc) ==
  /\ v.op = u.op /\ v.w = u.w /\ v.b = u.b /\ v.dto = u.dto /\ v.dirty = u.dirty
  /\ v.quiet = u.quiet /\ v.pc = pc

LEMMA GotoMoves ==
  ASSUME TypeOK, NEW p \in Procs,
         NEW pc \in {"status", "snapshot", "index", "row", "jobs", "answer", "location"},
         Goto(p, pc)
  PROVE  \E v \in Proc : /\ Moves(p, v) /\ At2(proc[p], v, pc)
                         /\ \A q \in Procs \ {p} : proc'[q] = proc[q]
<1>1. proc \in [Procs -> Proc] /\ proc[p] \in Proc
  BY DEF TypeOK
<1>2. PICK v : v = [proc[p] EXCEPT !.pc = pc]
  OBVIOUS
<1>3. v \in Proc /\ At2(proc[p], v, pc)
  BY <1>1, <1>2 DEF Proc, At2
<1>4. proc' = [proc EXCEPT ![p] = v]
  BY <1>1, <1>2 DEF Goto
<1>q. QED BY <1>3, <1>4, OneMoves

\* The slips of a worker are only added to, but for "expired".
LEMMA SlipGrows ==
  ASSUME TypeOK, NEW w \in Workers, NEW what \in Slips, NEW happens \in BOOLEAN,
         Slip(w, what, happens)
  PROVE  /\ slips' \in [Workers -> SUBSET Slips]
         /\ \A x \in Workers : slips[x] \subseteq slips'[x]
         /\ happens => what \in slips'[w]
         /\ \A x \in Workers \ {w} : slips'[x] = slips[x]
BY DEF TypeOK, Slip, After

LEMMA FaultGrows ==
  ASSUME TypeOK, NEW w \in Workers, Fault(w)
  PROVE  /\ slips' \in [Workers -> SUBSET Slips]
         /\ \A x \in Workers : slips[x] \subseteq slips'[x]
         /\ "fault" \in slips'[w]
         /\ \A x \in Workers \ {w} : slips'[x] = slips[x]
BY SlipGrows DEF Fault, Slips

-----------------------------------------------------------------------------
(***************************************************************************)
(* Steps that do not bear on a worker's index, answers or status.          *)
(***************************************************************************)
LEMMA IndexKept ==
  ASSUME NEW w \in Workers, IndexAt(w), NEW p \in Procs, NEW v, Moves(p, v),
         \A c \in {"fault", "crossed"} : c \in slips[w] => c \in slips'[w],
         profile'[w] = profile[w], IndexOk(w) => IndexOk(w)',
         Saves(v, w) \/ Saves(proc[p], w) =>
           /\ v.op = proc[p].op /\ v.pc = proc[p].pc /\ v.w = proc[p].w
           /\ v.dto = proc[p].dto /\ v.dirty = proc[p].dirty,
         Spared(w, {"fault", "crossed"}) /\ v.op = "search" /\ v.w = w /\ v.quiet =>
           ~ InFlight(Savers, w) /\ profile[w].isActive
  PROVE  IndexAt(w)'
<1> SUFFICES ASSUME Spared(w, {"fault", "crossed"})'
             PROVE  /\ \A q \in Procs, r \in Procs :
                         Saves(proc'[q], w) /\ Saves(proc'[r], w) => q = r
                    /\ ~ InFlight(Savers, w)' => IndexOk(w)'
                    /\ \A q \in Procs : Saves(proc'[q], w) => SaverOk(proc[q])'
                    /\ \A q \in Procs : proc'[q].op = "search" /\ proc'[q].w = w /\ proc'[q].quiet =>
                          ~ InFlight(Savers, w)' /\ profile'[w].isActive
  BY DEF IndexAt, Saves
<1>1. Spared(w, {"fault", "crossed"})
  BY DEF Spared
<1>2. \A q \in Procs : Saves(proc'[q], w) <=> Saves(proc[q], w)
  BY DEF Moves, Others, Same, Saves
<1>3. InFlight(Savers, w)' <=> InFlight(Savers, w)
  BY <1>2 DEF InFlight, Saves
<1>5. ASSUME NEW q \in Procs, Saves(proc'[q], w) PROVE SaverOk(proc[q])'
  <2>1. SaverOk(proc[q]) /\ proc[q].w = w /\ proc'[q].w = w
    BY <1>1, <1>2, <1>5 DEF IndexAt, Saves
  <2>2. /\ proc'[q].op = proc[q].op /\ proc'[q].pc = proc[q].pc
        /\ proc'[q].dto = proc[q].dto /\ proc'[q].dirty = proc[q].dirty
    BY <1>5 DEF Moves, Others, Same
  <2>q. QED BY <2>1, <2>2 DEF SaverOk
<1>6. ASSUME NEW q \in Procs, proc'[q].op = "search", proc'[q].w = w, proc'[q].quiet
      PROVE  ~ InFlight(Savers, w)' /\ profile'[w].isActive
  <2>1. CASE q = p
    BY <1>1, <1>3, <1>6, <2>1 DEF Moves
  <2>2. CASE q # p
    BY <1>1, <1>3, <1>6, <2>2 DEF Moves, Others, Same, IndexAt
  <2>q. QED BY <2>1, <2>2
<1>q. QED BY <1>1, <1>2, <1>3, <1>5, <1>6 DEF IndexAt

LEMMA IndexQuiet ==
  ASSUME NEW w \in Workers, IndexAt(w), NEW p \in Procs, NEW v, Moves(p, v),
         \A c \in {"fault", "crossed", "expired"} : c \in slips[w] => c \in slips'[w],
         profile'[w] = profile[w], w \in index' <=> w \in index,
         Saves(v, w) \/ Saves(proc[p], w) =>
           /\ v.op = proc[p].op /\ v.pc = proc[p].pc /\ v.w = proc[p].w
           /\ v.dto = proc[p].dto /\ v.dirty = proc[p].dirty,
         Spared(w, {"fault", "crossed"}) /\ v.op = "search" /\ v.w = w /\ v.quiet =>
           ~ InFlight(Savers, w) /\ profile[w].isActive
  PROVE  IndexAt(w)'
<1>1. IndexOk(w) => IndexOk(w)'
  BY DEF IndexOk
<1>2. \A c \in {"fault", "crossed"} : c \in slips[w] => c \in slips'[w]
  OBVIOUS
<1>q. QED BY <1>1, <1>2, IndexKept

LEMMA LiveQuiet ==
  ASSUME NEW w \in Workers, LiveAt(w), NEW p \in Procs, NEW v, Moves(p, v),
         \A c \in {"fault", "crossed", "late"} : c \in slips[w] => c \in slips'[w],
         profile'[w] = profile[w], snapshot'[w] \in {snapshot[w], None},
         Syncing(proc[p], w) => Syncing(v, w),
         Spared(w, {"fault", "crossed", "late"}) =>
           /\ Fills(v, w) => \/ Fills(proc[p], w) /\ v.dto.isActive = proc[p].dto.isActive
                             \/ profile[w].isActive => v.dto.isActive
           /\ Answers(v, w) => v.dto.isActive
  PROVE  LiveAt(w)'
<1> SUFFICES ASSUME Spared(w, {"fault", "crossed", "late"})'
             PROVE  /\ profile'[w].isActive /\ (\A q \in Procs : ~ Syncing(proc'[q], w)) =>
                         /\ snapshot'[w] # None => snapshot'[w].isActive
                         /\ \A q \in Procs : Fills(proc'[q], w) => proc'[q].dto.isActive
                    /\ \A q \in Procs : Answers(proc'[q], w) => proc'[q].dto.isActive
  BY DEF LiveAt, Syncing, Fills, Answers
<1>1. Spared(w, {"fault", "crossed", "late"})
  BY DEF Spared
<1>2. ASSUME NEW q \in Procs, Answers(proc'[q], w) PROVE proc'[q].dto.isActive
  BY <1>1, <1>2 DEF Moves, Others, Same, LiveAt, Answers
<1>3. ASSUME profile'[w].isActive, \A q \in Procs : ~ Syncing(proc'[q], w)
      PROVE  /\ snapshot'[w] # None => snapshot'[w].isActive
             /\ \A q \in Procs : Fills(proc'[q], w) => proc'[q].dto.isActive
  <2>1. \A q \in Procs : ~ Syncing(proc[q], w)
    BY <1>3 DEF Moves, Others, Same, Syncing
  <2>2. /\ snapshot[w] # None => snapshot[w].isActive
        /\ \A q \in Procs : Fills(proc[q], w) => proc[q].dto.isActive
    BY <1>1, <1>3, <2>1 DEF LiveAt
  <2>3. ASSUME NEW q \in Procs, Fills(proc'[q], w) PROVE proc'[q].dto.isActive
    BY <1>1, <1>3, <2>2, <2>3 DEF Moves, Others, Same, Fills
  <2>q. QED BY <2>2, <2>3
<1>q. QED BY <1>2, <1>3

LEMMA StatusQuiet ==
  ASSUME NEW w \in Workers, StatusAt(w), NEW p \in Procs, NEW v, Moves(p, v),
         \A c \in {"fault", "late", "tangled"} : c \in slips[w] => c \in slips'[w],
         jobs'[w] = jobs[w],
         Tells(proc[p], w) => Tells(v, w),
         Spared(w, {"fault", "late", "tangled"}) =>
           /\ status'[w] \in {status[w], None, Truth(w)} \/ Told(w)
           /\ v.w = w => /\ v.op = "toggle" => jobs[w] = {}
                         /\ v.op = "accept" => jobs[w] # {}
                         /\ v.op = "end" /\ v.pc = "setStatus" => jobs[w] = {}
           /\ Caches(v, w) => v.dto.status = Truth(w) \/ Told(w)
  PROVE  StatusAt(w)'
<1> SUFFICES ASSUME Spared(w, {"fault", "late", "tangled"})'
             PROVE  /\ \A b \in jobs'[w], c \in jobs'[w] : b = c
                    /\ \A q \in Procs : proc'[q].w = w =>
                         /\ proc'[q].op = "toggle" => jobs'[w] = {}
                         /\ proc'[q].op = "accept" => jobs'[w] # {}
                         /\ proc'[q].op = "end" /\ proc'[q].pc = "setStatus" => jobs'[w] = {}
                    /\ \A q \in Procs : Caches(proc'[q], w) =>
                         proc'[q].dto.status = Truth(w)' \/ Told(w)'
                    /\ status'[w] \in {None, Truth(w)'} \/ Told(w)'
  BY DEF StatusAt, Caches
<1>1. Spared(w, {"fault", "late", "tangled"})
  BY DEF Spared
<1>2. Truth(w)' = Truth(w)
  BY DEF Truth
<1>3. Told(w) => Told(w)'
  BY DEF Told, Tells, Moves, Others, Same
<1>4. ASSUME NEW q \in Procs, proc'[q].w = w
      PROVE  /\ proc'[q].op = "toggle" => jobs'[w] = {}
             /\ proc'[q].op = "accept" => jobs'[w] # {}
             /\ proc'[q].op = "end" /\ proc'[q].pc = "setStatus" => jobs'[w] = {}
  <2>1. CASE q = p
    BY <1>1, <1>4, <2>1 DEF Moves
  <2>2. CASE q # p
    BY <1>1, <1>4, <2>2 DEF Moves, Others, Same, StatusAt
  <2>q. QED BY <2>1, <2>2
<1>5. ASSUME NEW q \in Procs, Caches(proc'[q], w)
      PROVE  proc'[q].dto.status = Truth(w)' \/ Told(w)'
  <2>1. CASE q = p
    BY <1>1, <1>2, <1>3, <1>5, <2>1 DEF Moves
  <2>2. CASE q # p
    <3>1. Caches(proc[q], w) /\ proc'[q].dto = proc[q].dto
      BY <1>5, <2>2 DEF Moves, Others, Same, Caches
    <3>q. QED BY <1>1, <1>2, <1>3, <3>1 DEF StatusAt
  <2>q. QED BY <2>1, <2>2
<1>6. status'[w] \in {None, Truth(w)'} \/ Told(w)'
  BY <1>1, <1>2, <1>3 DEF StatusAt
<1>7. \A b \in jobs'[w], c \in jobs'[w] : b = c
  BY <1>1 DEF StatusAt
<1>q. QED BY <1>4, <1>5, <1>6, <1>7

-----------------------------------------------------------------------------
(***************************************************************************)
(* One worker's handler leaves the other workers alone.                    *)
(***************************************************************************)
Typed ==
  /\ profile \in [Workers -> [isActive : BOOLEAN]]
  /\ jobs \in [Workers -> SUBSET Bookings]
  /\ index \subseteq Workers /\ location \subseteq Workers
  /\ snapshot \in [Workers -> Dto \cup {None}]
  /\ status \in [Workers -> Availability \cup {None}]
  /\ slips \in [Workers -> SUBSET Slips]

Apart(x) == \A w \in Workers \ {x} :
  /\ slips[w] \subseteq slips'[w] /\ profile'[w] = profile[w] /\ jobs'[w] = jobs[w]
  /\ w \in index' <=> w \in index
  /\ snapshot'[w] = snapshot[w] /\ status'[w] = status[w]

Of(v, x) == v.op = "none" \/ v.w = x
Local(p, v, x) == Moves(p, v) /\ Of(proc[p], x) /\ Of(v, x) /\ Apart(x)

LEMMA Elsewhere ==
  ASSUME Inv, NEW p \in Procs, NEW v, NEW x \in Workers, Local(p, v, x)
  PROVE  \A w \in Workers \ {x} : IndexAt(w)' /\ LiveAt(w)' /\ StatusAt(w)'
<1> SUFFICES ASSUME NEW w \in Workers \ {x} PROVE IndexAt(w)' /\ LiveAt(w)' /\ StatusAt(w)'
  OBVIOUS
<1>1. /\ IndexAt(w) /\ LiveAt(w) /\ StatusAt(w) /\ Moves(p, v)
      /\ slips[w] \subseteq slips'[w] /\ profile'[w] = profile[w] /\ jobs'[w] = jobs[w]
      /\ w \in index' <=> w \in index
      /\ snapshot'[w] = snapshot[w] /\ status'[w] = status[w]
  BY DEF Inv, Local, Apart
<1>2. (proc[p].w = w => proc[p].op = "none") /\ (v.w = w => v.op = "none")
  BY DEF Local, Of
<1>3. IndexAt(w)'
  <2>1. ~ Saves(v, w) /\ ~ Saves(proc[p], w) /\ ~ (v.op = "search" /\ v.w = w)
    BY <1>2 DEF Saves, Savers
  <2>q. QED BY <1>1, <2>1, IndexQuiet
<1>4. LiveAt(w)'
  <2>1. ~ Syncing(proc[p], w) /\ ~ Fills(v, w) /\ ~ Answers(v, w)
    BY <1>2 DEF Syncing, Fills, Answers
  <2>q. QED BY <1>1, <2>1, LiveQuiet
<1>5. StatusAt(w)'
  <2>1. ~ Tells(proc[p], w) /\ ~ Caches(v, w)
    BY <1>2 DEF Tells, Caches, Readers
  <2>q. QED BY <1>1, <1>2, <2>1, StatusQuiet
<1>q. QED BY <1>3, <1>4, <1>5

\* The types, and what the handlers hold of a booking.
LEMMA BaseMoves ==
  ASSUME Base, NEW p \in Procs, NEW v, Moves(p, v), Typed', Handled(v)',
         \A q \in Procs \ {p} : proc'[q].b # None => proc'[q].b \in jobs'[proc'[q].w]
  PROVE  Base'
<1>1. TypeOK'
  BY DEF Typed, TypeOK, Moves
<1>2. ASSUME NEW q \in Procs PROVE Handled(proc[q])'
  <2>1. CASE q = p
    BY <2>1 DEF Moves, Handled
  <2>2. CASE q # p
    BY <2>2 DEF Base, Handled, Moves, Others, Same
  <2>q. QED BY <2>1, <2>2
<1>q. QED BY <1>1, <1>2 DEF Base

LEMMA BaseQuiet ==
  ASSUME Base, NEW p \in Procs, NEW v, Moves(p, v), Typed', Handled(v),
         jobs' = jobs, \A q \in Procs \ {p} : proc'[q].b = proc[q].b
  PROVE  Base'
<1>1. \A q \in Procs \ {p} : proc'[q].b # None => proc'[q].b \in jobs'[proc'[q].w]
  BY DEF Base, Handled, Moves, Others, Same
<1>2. Handled(v)'
  BY DEF Handled
<1>q. QED BY <1>1, <1>2, BaseMoves

\* A failed or lost write leaves nothing to say about the worker.
LEMMA Faulted ==
  ASSUME NEW x \in Workers, "fault" \in slips'[x]
  PROVE  IndexAt(x)' /\ LiveAt(x)' /\ StatusAt(x)'
BY DEF IndexAt, LiveAt, StatusAt, Spared

\* The three facts about x that a step of its handler is left to show.
LEMMA StepOf ==
  ASSUME Inv, NEW p \in Procs, NEW v, NEW x \in Workers, Local(p, v, x), Base',
         IndexAt(x)' /\ LiveAt(x)' /\ StatusAt(x)'
  PROVE  Inv'
BY Elsewhere DEF Inv

\* The worker of a handler.
LEMMA WorkerOf ==
  ASSUME Inv, NEW p \in Procs
  PROVE  /\ TypeOK /\ Base /\ Typed /\ proc[p] \in Proc /\ proc[p].w \in Workers
         /\ proc[p].dto \in Dto /\ Handled(proc[p]) /\ proc \in [Procs -> Proc]
         /\ IndexAt(proc[p].w) /\ LiveAt(proc[p].w) /\ StatusAt(proc[p].w)
BY DEF Inv, Base, TypeOK, Typed, Proc

-----------------------------------------------------------------------------
(***************************************************************************)
(* The readers.                                                            *)
(***************************************************************************)
\* A statement that reads, of a handler that goes to v.
LEMMA ReaderStep ==
  ASSUME Inv, NEW p \in Procs, NEW v, NEW x \in Workers, Moves(p, v),
         \A q \in Procs \ {p} : proc'[q] = proc[q], UNCHANGED <<profile, jobs, redis, slips>>,
         proc[p].op \in Readers \cup {"none"}, Of(proc[p], x),
         v.op \in Readers \cup {"none"}, Of(v, x), Handled(v),
         Spared(x, {"fault", "crossed"}) /\ v.op = "search" /\ v.w = x /\ v.quiet =>
           ~ InFlight(Savers, x) /\ profile[x].isActive,
         Spared(x, {"fault", "crossed", "late"}) =>
           /\ Fills(v, x) => \/ Fills(proc[p], x) /\ v.dto.isActive = proc[p].dto.isActive
                             \/ profile[x].isActive => v.dto.isActive
           /\ Answers(v, x) => v.dto.isActive,
         Spared(x, {"fault", "late", "tangled"}) =>
           (Caches(v, x) => v.dto.status = Truth(x) \/ Told(x))
  PROVE  Inv'
<1>1. /\ Base /\ IndexAt(x) /\ LiveAt(x) /\ StatusAt(x) /\ Typed
      /\ UNCHANGED <<index, location, snapshot, status>>
  BY DEF Inv, Base, TypeOK, Typed, redis
<1>2. Typed'
  BY <1>1 DEF Typed
<1>3. Base'
  BY <1>1, <1>2, BaseQuiet
<1>4. Local(p, v, x)
  BY <1>1 DEF Local, Apart
<1>5. proc[p].op \notin Savers \cup {"accept", "end"} /\ v.op \notin Savers \cup {"accept", "end"}
  BY DEF Readers, Savers
<1>6. IndexAt(x)'
  <2>1. ~ Saves(v, x) /\ ~ Saves(proc[p], x)
    BY <1>5 DEF Saves
  <2>q. QED BY <1>1, <2>1, IndexQuiet
<1>7. LiveAt(x)'
  <2>1. ~ Syncing(proc[p], x)
    BY <1>5 DEF Syncing, Savers
  <2>q. QED BY <1>1, <2>1, LiveQuiet
<1>8. StatusAt(x)'
  <2>1. ~ Tells(proc[p], x) /\ v.op \notin {"toggle", "accept", "end"}
    BY <1>5 DEF Tells, Savers
  <2>q. QED BY <1>1, <2>1, StatusQuiet
<1>q. QED BY <1>3, <1>4, <1>6, <1>7, <1>8, StepOf

LEMMA EndStep ==
  ASSUME Inv, NEW p \in Procs, proc[p].op \in Readers, Done(p),
         UNCHANGED <<profile, jobs, redis, slips>>
  PROVE  Inv'
<1>1. TypeOK /\ proc[p].w \in Workers
  BY WorkerOf
<1>2. Moves(p, Idle) /\ \A q \in Procs \ {p} : proc'[q] = proc[q]
  BY <1>1, DoneMoves
<1>3. Handled(Idle)
  BY IdleTyped DEF Handled
<1>q. QED BY <1>1, <1>2, <1>3, IdleTyped, ReaderStep DEF Of, Fills, Answers, Caches, Readers

LEMMA AnswerStep ==
  ASSUME Inv, NEW p \in Procs, Answer(p) PROVE Inv'
<1>1. proc[p].op \in Readers
  BY WorkerOf DEF Answer, Handled
<1>q. QED BY <1>1, EndStep DEF Answer

\* A search that starts from the index while nobody saves the profile.
LEMMA GetNearbyStep ==
  ASSUME Inv, NEW p \in Procs, NEW w \in Workers, GetNearby(p, w) PROVE Inv'
<1>1. /\ TypeOK /\ IndexAt(w) /\ proc[p].op = "none" /\ w \in index
      /\ UNCHANGED <<profile, jobs, redis, slips>>
  BY IdleTyped DEF Inv, Base, GetNearby
<1>2. PICK h \in Proc : h = Handler("search", "nearby", w)
                         /\ h.op = "search" /\ h.pc = "nearby" /\ h.w = w /\ h.b = None
  <2>1. "search" \in Ops /\ "nearby" \in Pcs
    BY DEF Ops, Pcs, Readers
  <2>q. QED BY <2>1, HandlerTyped
<1>3. PICK v : v = [h EXCEPT !.quiet = ~ InFlight(Savers, w)]
  OBVIOUS
<1>5. /\ v \in Proc /\ v.op = "search" /\ v.pc = "nearby" /\ v.w = w /\ v.b = None
      /\ v.quiet => ~ InFlight(Savers, w)
  BY <1>2, <1>3 DEF Proc, InFlight
<1>6. Moves(p, v) /\ \A q \in Procs \ {p} : proc'[q] = proc[q]
  BY <1>1, <1>2, <1>3, <1>5, OneMoves DEF GetNearby
<1>7. Spared(w, {"fault", "crossed"}) /\ v.quiet => profile[w].isActive
  BY <1>1, <1>5 DEF IndexAt, IndexOk
<1>8. Handled(v) /\ ~ Fills(v, w) /\ ~ Answers(v, w) /\ ~ Caches(v, w)
  BY <1>5 DEF Handled, Fills, Answers, Caches
<1>q. QED BY <1>1, <1>5, <1>6, <1>7, <1>8, ReaderStep DEF Of, Readers

\* getById reads the profile at once.
LEMMA GetByIdStep ==
  ASSUME Inv, NEW p \in Procs, NEW w \in Workers, GetById(p, w) PROVE Inv'
<1>1. /\ TypeOK /\ proc[p].op = "none" /\ UNCHANGED <<profile, jobs, redis, slips>>
      /\ profile[w].isActive \in BOOLEAN
  BY IdleTyped DEF Inv, Base, GetById, TypeOK
<1>2. PICK h \in Proc : h = Handler("view", "row", w)
                         /\ h.op = "view" /\ h.w = w /\ h.b = None
  <2>1. "view" \in Ops /\ "row" \in Pcs
    BY DEF Ops, Pcs, Readers
  <2>q. QED BY <2>1, HandlerTyped
<1>3. PICK v : v = Reads(p, h)
  OBVIOUS
<1>5. v \in Proc /\ v.op = "view" /\ v.pc = "status" /\ v.w = w /\ v.b = None
  BY <1>1, <1>2, <1>3 DEF Proc, Reads, Dto
<1>6. Moves(p, v) /\ \A q \in Procs \ {p} : proc'[q] = proc[q]
  BY <1>1, <1>2, <1>3, <1>5, OneMoves DEF GetById
<1>7. Handled(v) /\ ~ Fills(v, w) /\ ~ Answers(v, w) /\ ~ Caches(v, w)
  BY <1>5 DEF Handled, Fills, Answers, Caches
<1>q. QED BY <1>1, <1>5, <1>6, <1>7, ReaderStep DEF Of, Readers

\* A search of x that stays the same search.
LEMMA StillQuiet ==
  ASSUME NEW x, IndexAt(x), NEW p \in Procs, NEW v, Spared(x, {"fault", "crossed"}),
         v.op = proc[p].op, v.w = proc[p].w, v.quiet = proc[p].quiet
  PROVE  v.op = "search" /\ v.w = x /\ v.quiet => ~ InFlight(Savers, x) /\ profile[x].isActive
BY DEF IndexAt

\* What an undisturbed search finds in a snapshot is live.
LEMMA QuietIsLive ==
  ASSUME NEW x, IndexAt(x), LiveAt(x), NEW p \in Procs, proc[p].op = "search",
         proc[p].w = x, proc[p].quiet, Spared(x, {"fault", "crossed", "late"})
  PROVE  /\ profile[x].isActive
         /\ snapshot[x] # None => snapshot[x].isActive
         /\ Fills(proc[p], x) => proc[p].dto.isActive
<1>1. Spared(x, {"fault", "crossed"})
  BY DEF Spared
<1>2. profile[x].isActive /\ ~ InFlight(Savers, x)
  BY <1>1 DEF IndexAt
<1>3. \A q \in Procs : ~ Syncing(proc[q], x)
  BY <1>2 DEF InFlight, Savers, Syncing
<1>q. QED BY <1>2, <1>3 DEF LiveAt

\* A search that goes on to its next read.
LEMMA SearchGoesOn ==
  ASSUME Inv, NEW p \in Procs, NEW pc \in {"snapshot", "row"}, proc[p].op = "search",
         Goto(p, pc), UNCHANGED <<profile, jobs, redis, slips>>
  PROVE  Inv'
<1>1. PICK x \in Workers : x = proc[p].w
  BY WorkerOf
<1>2. TypeOK /\ Handled(proc[p]) /\ IndexAt(x)
  BY <1>1, WorkerOf
<1>3. PICK v \in Proc : /\ Moves(p, v) /\ At2(proc[p], v, pc)
                        /\ \A q \in Procs \ {p} : proc'[q] = proc[q]
  BY <1>2, GotoMoves
<1>4. Handled(v) /\ ~ Fills(v, x) /\ ~ Answers(v, x) /\ ~ Caches(v, x)
  BY <1>2, <1>3 DEF Handled, Fills, Answers, Caches, At2
<1>5. Spared(x, {"fault", "crossed"}) /\ v.op = "search" /\ v.w = x /\ v.quiet =>
        ~ InFlight(Savers, x) /\ profile[x].isActive
  BY <1>1, <1>2, <1>3, StillQuiet DEF At2
<1>6. v.op = "search" /\ v.w = x
  BY <1>1, <1>3 DEF At2
<1>q. QED BY <1>1, <1>2, <1>3, <1>4, <1>5, <1>6, ReaderStep DEF Of, Readers

LEMMA GetLocationStep ==
  ASSUME Inv, NEW p \in Procs, GetLocation(p) PROVE Inv'
<1>1. /\ proc[p].op = "search" /\ proc[p].pc = "nearby"
      /\ UNCHANGED <<profile, jobs, redis, slips>>
      /\ Done(p) \/ Goto(p, "snapshot")
  BY DEF GetLocation, At
<1>2. CASE Done(p)
  BY <1>1, <1>2, EndStep DEF Readers
<1>3. CASE Goto(p, "snapshot")
  BY <1>1, <1>3, SearchGoesOn
<1>q. QED BY <1>1, <1>2, <1>3

LEMMA GetSnapshotStep ==
  ASSUME Inv, NEW p \in Procs, GetSnapshot(p) PROVE Inv'
<1>1. /\ proc[p].op = "search" /\ proc[p].pc = "snapshot"
      /\ UNCHANGED <<profile, jobs, redis, slips>>
  BY DEF GetSnapshot, At
<1>2. PICK x \in Workers : x = proc[p].w
  BY WorkerOf
<1>3. /\ TypeOK /\ proc[p] \in Proc /\ proc \in [Procs -> Proc] /\ Handled(proc[p])
      /\ IndexAt(x) /\ LiveAt(x) /\ StatusAt(x) /\ snapshot \in [Workers -> Dto \cup {None}]
  BY <1>2, WorkerOf DEF Typed
<1>4. CASE snapshot[x] # None /\ proc' = [proc EXCEPT ![p].dto = snapshot[x], ![p].pc = "answer"]
  <2>1. PICK v : v = [proc[p] EXCEPT !.dto = snapshot[x], !.pc = "answer"]
    OBVIOUS
  <2>2. /\ v \in Proc /\ v.op = "search" /\ v.pc = "answer" /\ v.w = x /\ v.b = proc[p].b
        /\ v.quiet = proc[p].quiet /\ v.dto = snapshot[x]
    BY <1>1, <1>2, <1>3, <1>4, <2>1 DEF Proc
  <2>3. proc' = [proc EXCEPT ![p] = v]
    BY <1>3, <1>4, <2>1
  <2>4. Moves(p, v) /\ \A q \in Procs \ {p} : proc'[q] = proc[q]
    BY <1>3, <2>2, <2>3, OneMoves
  <2>5. Handled(v) /\ ~ Fills(v, x) /\ ~ Caches(v, x)
    BY <1>2, <1>3, <2>2 DEF Handled, Fills, Caches, Readers
  <2>6. Spared(x, {"fault", "crossed", "late"}) => (Answers(v, x) => v.dto.isActive)
    BY <1>1, <1>2, <1>3, <1>4, <2>2, QuietIsLive DEF Answers
  <2>7. Spared(x, {"fault", "crossed"}) /\ v.op = "search" /\ v.w = x /\ v.quiet =>
          ~ InFlight(Savers, x) /\ profile[x].isActive
    BY <1>1, <1>2, <1>3, <2>2, StillQuiet
  <2>q. QED BY <1>1, <1>2, <2>2, <2>4, <2>5, <2>6, <2>7, ReaderStep DEF Of, Readers
<1>5. CASE Goto(p, "row")
  BY <1>1, <1>5, SearchGoesOn
<1>q. QED BY <1>2, <1>4, <1>5 DEF GetSnapshot

LEMMA ReadProfileStep ==
  ASSUME Inv, NEW p \in Procs, ReadProfile(p) PROVE Inv'
<1>1. /\ proc[p].op = "search" /\ proc[p].pc = "row"
      /\ UNCHANGED <<profile, jobs, redis, slips>>
  BY DEF ReadProfile, At
<1>2. PICK x \in Workers : x = proc[p].w
  BY WorkerOf
<1>3. /\ TypeOK /\ proc[p] \in Proc /\ proc \in [Procs -> Proc] /\ Handled(proc[p])
      /\ proc[p].dto \in Dto /\ IndexAt(x) /\ profile[x].isActive \in BOOLEAN
  BY <1>2, WorkerOf DEF TypeOK
<1>4. PICK v : v = Reads(p, proc[p])
  OBVIOUS
<1>5. /\ v \in Proc /\ v.op = "search" /\ v.pc = "status" /\ v.w = x /\ v.b = proc[p].b
      /\ v.quiet = proc[p].quiet /\ v.dto.isActive = profile[x].isActive
  BY <1>1, <1>2, <1>3, <1>4 DEF Proc, Reads, Dto
<1>6. proc' = [proc EXCEPT ![p] = v]
  BY <1>3, <1>4 DEF ReadProfile
<1>7. Moves(p, v) /\ \A q \in Procs \ {p} : proc'[q] = proc[q]
  BY <1>3, <1>5, <1>6, OneMoves
<1>8. Handled(v) /\ ~ Answers(v, x) /\ ~ Caches(v, x)
  BY <1>2, <1>3, <1>5 DEF Handled, Answers, Caches
<1>9. Spared(x, {"fault", "crossed"}) /\ v.op = "search" /\ v.w = x /\ v.quiet =>
        ~ InFlight(Savers, x) /\ profile[x].isActive
  BY <1>1, <1>2, <1>3, <1>5, StillQuiet
<1>q. QED BY <1>1, <1>2, <1>5, <1>7, <1>8, <1>9, ReaderStep DEF Of, Readers

\* getWorkerStatus of a handler that goes on to v, with the isActive it has read.
LEMMA StatusReadStep ==
  ASSUME Inv, NEW p \in Procs, NEW v \in Proc, proc[p].op \in Readers,
         proc[p].pc \in {"status", "jobs"}, proc' = [proc EXCEPT ![p] = v],
         UNCHANGED <<profile, jobs, redis, slips>>,
         v.op = proc[p].op, v.w = proc[p].w, v.b = proc[p].b, v.quiet = proc[p].quiet,
         v.dto.isActive = proc[p].dto.isActive,
         v.pc \in {"jobs", "setStatus", "fill", "answer"},
         v.op = "search" => v.pc # "answer",
         v.pc = "setStatus" => v.dto.status = Truth(proc[p].w)
  PROVE  Inv'
<1>2. PICK x \in Workers : x = proc[p].w
  BY WorkerOf
<1>3. TypeOK /\ Handled(proc[p]) /\ IndexAt(x)
  BY <1>2, WorkerOf
<1>4. Moves(p, v) /\ \A q \in Procs \ {p} : proc'[q] = proc[q]
  BY <1>3, OneMoves
<1>5. Handled(v) /\ ~ Answers(v, x)
  BY <1>3 DEF Handled, Answers
<1>6. Spared(x, {"fault", "crossed"}) /\ v.op = "search" /\ v.w = x /\ v.quiet =>
        ~ InFlight(Savers, x) /\ profile[x].isActive
  BY <1>2, <1>3, StillQuiet
<1>7. Fills(v, x) => Fills(proc[p], x) /\ v.dto.isActive = proc[p].dto.isActive
  BY <1>2 DEF Fills
<1>8. Caches(v, x) => v.dto.status = Truth(x)
  BY <1>2 DEF Caches
<1>9. Of(v, x) /\ Of(proc[p], x)
  BY <1>2 DEF Of
<1>q. QED BY <1>4, <1>5, <1>6, <1>7, <1>8, <1>9, ReaderStep

LEMMA GetStatusStep ==
  ASSUME Inv, NEW p \in Procs, GetStatus(p) PROVE Inv'
<1>1. /\ proc[p].op \in Readers /\ proc[p].pc = "status"
      /\ UNCHANGED <<profile, jobs, redis, slips>>
  BY DEF GetStatus
<1>2. PICK x \in Workers : x = proc[p].w
  BY WorkerOf
<1>3. /\ TypeOK /\ proc[p] \in Proc /\ proc \in [Procs -> Proc] /\ Handled(proc[p])
      /\ proc[p].dto \in Dto /\ status[x] \in Availability \cup {None}
  BY <1>2, WorkerOf DEF TypeOK
<1>4. CASE /\ status[x] # None
           /\ proc' = [proc EXCEPT ![p] = [AfterStatus(@) EXCEPT !.dto.status = status[x]]]
  <2>1. PICK v : v = [AfterStatus(proc[p]) EXCEPT !.dto.status = status[x]]
    OBVIOUS
  <2>2. /\ v \in Proc /\ v.op = proc[p].op /\ v.w = proc[p].w /\ v.b = proc[p].b
        /\ v.quiet = proc[p].quiet /\ v.dto.isActive = proc[p].dto.isActive
        /\ v.pc = IF v.op = "search" THEN "fill" ELSE "answer"
    BY <1>3, <1>4, <2>1 DEF Proc, AfterStatus, Dto
  <2>3. proc' = [proc EXCEPT ![p] = v]
    BY <1>3, <1>4, <2>1
  <2>q. QED BY <1>1, <2>2, <2>3, StatusReadStep
<1>5. CASE Goto(p, "jobs")
  <2>1. PICK v : v = [proc[p] EXCEPT !.pc = "jobs"]
    OBVIOUS
  <2>2. /\ v \in Proc /\ v.op = proc[p].op /\ v.w = proc[p].w /\ v.b = proc[p].b
        /\ v.quiet = proc[p].quiet /\ v.dto = proc[p].dto /\ v.pc = "jobs"
    BY <1>3, <2>1 DEF Proc
  <2>3. proc' = [proc EXCEPT ![p] = v]
    BY <1>3, <1>5, <2>1 DEF Goto
  <2>q. QED BY <1>1, <2>2, <2>3, StatusReadStep
<1>q. QED BY <1>2, <1>4, <1>5 DEF GetStatus

LEMMA FindActiveBookingStep ==
  ASSUME Inv, NEW p \in Procs, FindActiveBooking(p) PROVE Inv'
<1>1. proc[p].pc = "jobs" /\ UNCHANGED <<profile, jobs, redis, slips>>
  BY DEF FindActiveBooking
<1>2. PICK x \in Workers : x = proc[p].w
  BY WorkerOf
<1>3. /\ TypeOK /\ proc[p] \in Proc /\ proc \in [Procs -> Proc] /\ proc[p].op \in Readers
      /\ proc[p].dto \in Dto
  BY <1>1, <1>2, WorkerOf DEF TypeOK, Handled
<1>4. PICK v : v = [proc[p] EXCEPT !.pc = "setStatus",
                      !.dto.status = IF jobs[x] # {} THEN "busy" ELSE "available"]
  OBVIOUS
<1>5. /\ v \in Proc /\ v.op = proc[p].op /\ v.w = proc[p].w /\ v.b = proc[p].b
      /\ v.quiet = proc[p].quiet /\ v.dto.isActive = proc[p].dto.isActive
      /\ v.pc = "setStatus" /\ v.dto.status = Truth(x)
  BY <1>3, <1>4 DEF Proc, Dto, Truth, Availability
<1>6. proc' = [proc EXCEPT ![p] = v]
  BY <1>2, <1>3, <1>4 DEF FindActiveBooking
<1>q. QED BY <1>1, <1>2, <1>3, <1>5, <1>6, StatusReadStep

\* A reader stores the status it found in the bookings.
LEMMA CacheStatusStep ==
  ASSUME Inv, NEW p \in Procs, CacheStatus(p) PROVE Inv'
<1>1. /\ proc[p].op \in Readers /\ proc[p].pc = "setStatus"
      /\ UNCHANGED <<profile, jobs, index, location, snapshot, slips>>
  BY DEF CacheStatus
<1>2. PICK x \in Workers : x = proc[p].w
  BY WorkerOf
<1>3. /\ TypeOK /\ Base /\ Typed /\ proc[p] \in Proc /\ proc \in [Procs -> Proc]
      /\ proc[p].dto \in Dto /\ Handled(proc[p]) /\ IndexAt(x) /\ LiveAt(x) /\ StatusAt(x)
      /\ status \in [Workers -> Availability \cup {None}] /\ proc[p].dto.status \in Availability
  BY <1>2, WorkerOf, DtoTyped DEF Typed
<1>4. status' = [status EXCEPT ![x] = proc[p].dto.status] \/ status' = status
  BY <1>2 DEF CacheStatus
<1>5. PICK v : v = AfterStatus(proc[p])
  OBVIOUS
<1>6. /\ v \in Proc /\ v.op = proc[p].op /\ v.w = x /\ v.b = proc[p].b
      /\ v.quiet = proc[p].quiet /\ v.dto = proc[p].dto
      /\ v.pc = IF v.op = "search" THEN "fill" ELSE "answer"
  BY <1>2, <1>3, <1>5 DEF Proc, AfterStatus
<1>7. proc' = [proc EXCEPT ![p] = v]
  BY <1>3, <1>5 DEF CacheStatus
<1>8. Moves(p, v) /\ \A q \in Procs \ {p} : proc'[q] = proc[q]
  BY <1>3, <1>6, <1>7, OneMoves
<1>9. Typed'
  BY <1>1, <1>3, <1>4 DEF Typed
<1>10. Base'
  <2>1. Handled(v)
    BY <1>1, <1>2, <1>3, <1>6 DEF Handled
  <2>q. QED BY <1>1, <1>3, <1>8, <1>9, <2>1, BaseQuiet
<1>11. Local(p, v, x)
  BY <1>1, <1>2, <1>3, <1>4, <1>6, <1>8 DEF Local, Of, Apart
<1>12. proc[p].op \notin {"toggle", "edit", "accept", "end"} /\ v.op \notin {"toggle", "edit", "accept", "end"}
  BY <1>1, <1>6 DEF Readers
<1>13. IndexAt(x)'
  <2>1. Spared(x, {"fault", "crossed"}) /\ v.op = "search" /\ v.w = x /\ v.quiet =>
          ~ InFlight(Savers, x) /\ profile[x].isActive
    BY <1>2, <1>3, <1>6, StillQuiet
  <2>2. ~ Saves(v, x) /\ ~ Saves(proc[p], x)
    BY <1>12 DEF Saves, Savers
  <2>q. QED BY <1>1, <1>3, <1>8, <2>1, <2>2, IndexQuiet
<1>14. LiveAt(x)'
  <2>1. ~ Syncing(proc[p], x) /\ ~ Answers(v, x)
    BY <1>6, <1>12 DEF Syncing, Answers
  <2>2. Fills(v, x) => Fills(proc[p], x) /\ v.dto.isActive = proc[p].dto.isActive
    BY <1>1, <1>2, <1>6 DEF Fills
  <2>q. QED BY <1>1, <1>3, <1>8, <2>1, <2>2, LiveQuiet
<1>15. StatusAt(x)'
  <2>1. ~ Tells(proc[p], x) /\ ~ Caches(v, x)
    BY <1>6, <1>12 DEF Tells, Caches
  <2>2. Caches(proc[p], x)
    BY <1>1, <1>2 DEF Caches
  <2>3. status'[x] \in {status[x], proc[p].dto.status}
    BY <1>3, <1>4
  <2>4. Spared(x, {"fault", "late", "tangled"}) => status'[x] \in {status[x], None, Truth(x)} \/ Told(x)
    BY <1>3, <2>2, <2>3 DEF StatusAt
  <2>q. QED BY <1>1, <1>3, <1>8, <1>12, <2>1, <2>4, StatusQuiet
<1>q. QED BY <1>10, <1>11, <1>13, <1>14, <1>15, StepOf

\* A search stores the profile it read as a snapshot, and answers it.
LEMMA CacheWorkerSnapshotStep ==
  ASSUME Inv, NEW p \in Procs, CacheWorkerSnapshot(p) PROVE Inv'
<1>1. /\ proc[p].op = "search" /\ proc[p].pc = "fill"
      /\ UNCHANGED <<profile, jobs, index, location, status, slips>>
  BY DEF CacheWorkerSnapshot, At
<1>2. PICK x \in Workers : x = proc[p].w
  BY WorkerOf
<1>3. /\ TypeOK /\ Base /\ Typed /\ proc[p] \in Proc /\ proc \in [Procs -> Proc]
      /\ proc[p].dto \in Dto /\ Handled(proc[p]) /\ IndexAt(x) /\ LiveAt(x) /\ StatusAt(x)
      /\ snapshot \in [Workers -> Dto \cup {None}]
  BY <1>2, WorkerOf DEF Typed
<1>4. snapshot' = [snapshot EXCEPT ![x] = proc[p].dto] \/ snapshot' = snapshot
  BY <1>2 DEF CacheWorkerSnapshot
<1>5. PICK v \in Proc : /\ Moves(p, v) /\ At2(proc[p], v, "answer")
                        /\ \A q \in Procs \ {p} : proc'[q] = proc[q]
  BY <1>3, GotoMoves DEF CacheWorkerSnapshot
<1>6. /\ v.op = "search" /\ v.w = x /\ v.b = proc[p].b /\ v.pc = "answer"
      /\ v.quiet = proc[p].quiet /\ v.dto = proc[p].dto
  BY <1>1, <1>2, <1>5 DEF At2
<1>9. Typed'
  BY <1>1, <1>3, <1>4 DEF Typed
<1>10. Base'
  <2>1. Handled(v)
    BY <1>2, <1>3, <1>6 DEF Handled, Readers
  <2>q. QED BY <1>1, <1>3, <1>5, <1>9, <2>1, BaseQuiet
<1>11. Local(p, v, x)
  BY <1>1, <1>2, <1>3, <1>4, <1>5, <1>6 DEF Local, Of, Apart
<1>13. IndexAt(x)'
  <2>1. Spared(x, {"fault", "crossed"}) /\ v.op = "search" /\ v.w = x /\ v.quiet =>
          ~ InFlight(Savers, x) /\ profile[x].isActive
    BY <1>1, <1>2, <1>3, <1>6, StillQuiet
  <2>2. ~ Saves(v, x) /\ ~ Saves(proc[p], x)
    BY <1>1, <1>6 DEF Saves, Savers
  <2>q. QED BY <1>1, <1>3, <1>5, <2>1, <2>2, IndexQuiet
<1>14. LiveAt(x)'
  <2> SUFFICES ASSUME Spared(x, {"fault", "crossed", "late"})'
               PROVE  /\ profile'[x].isActive /\ (\A q \in Procs : ~ Syncing(proc'[q], x)) =>
                           /\ snapshot'[x] # None => snapshot'[x].isActive
                           /\ \A q \in Procs : Fills(proc'[q], x) => proc'[q].dto.isActive
                      /\ \A q \in Procs : Answers(proc'[q], x) => proc'[q].dto.isActive
    BY DEF LiveAt, Syncing, Fills, Answers
  <2>1. Spared(x, {"fault", "crossed", "late"})
    BY <1>1 DEF Spared
  <2>2. Fills(proc[p], x) /\ ~ Fills(v, x) /\ ~ Syncing(proc[p], x)
    BY <1>1, <1>2, <1>6 DEF Fills, Syncing
  <2>3. Answers(v, x) => v.dto.isActive
    BY <1>1, <1>2, <1>3, <1>6, <2>1, <2>2, QuietIsLive DEF Answers
  <2>4. ASSUME NEW q \in Procs, Answers(proc'[q], x) PROVE proc'[q].dto.isActive
    BY <1>3, <1>5, <2>1, <2>3, <2>4 DEF Moves, LiveAt
  <2>5. ASSUME profile'[x].isActive, \A q \in Procs : ~ Syncing(proc'[q], x)
        PROVE  /\ snapshot'[x] # None => snapshot'[x].isActive
               /\ \A q \in Procs : Fills(proc'[q], x) => proc'[q].dto.isActive
    <3>1. profile[x].isActive /\ \A q \in Procs : ~ Syncing(proc[q], x)
      BY <1>1, <1>5, <2>2, <2>5 DEF Moves
    <3>2. /\ snapshot[x] # None => snapshot[x].isActive
          /\ \A q \in Procs : Fills(proc[q], x) => proc[q].dto.isActive
      BY <1>3, <2>1, <3>1 DEF LiveAt
    <3>3. snapshot'[x] \in {snapshot[x], proc[p].dto}
      BY <1>3, <1>4
    <3>4. ASSUME NEW q \in Procs, Fills(proc'[q], x) PROVE proc'[q].dto.isActive
      BY <1>5, <2>2, <3>2, <3>4 DEF Moves
    <3>q. QED BY <2>2, <3>2, <3>3, <3>4
  <2>q. QED BY <2>4, <2>5
<1>15. StatusAt(x)'
  <2>1. ~ Tells(proc[p], x) /\ ~ Caches(v, x)
    BY <1>1, <1>6 DEF Tells, Caches
  <2>q. QED BY <1>1, <1>3, <1>5, <1>6, <2>1, StatusQuiet
<1>q. QED BY <1>10, <1>11, <1>13, <1>14, <1>15, StepOf

-----------------------------------------------------------------------------
(***************************************************************************)
(* The savers of the profile.                                              *)
(***************************************************************************)
\* Another save begins: the searches are quiet no more, and two saves cross.
LEMMA StartSaveStep ==
  ASSUME Inv, NEW p \in Procs, NEW op \in Savers, NEW w \in Workers, NEW active \in BOOLEAN,
         StartSave(p, op, w, active), op = "toggle" <=> active # profile[w].isActive,
         slips' \in [Workers -> SUBSET Slips], \A x \in Workers : slips[x] \subseteq slips'[x],
         InFlight(Savers, w) => "crossed" \in slips'[w],
         op = "toggle" /\ jobs[w] # {} => "tangled" \in slips'[w]
  PROVE  Inv'
<1>1. /\ TypeOK /\ Base /\ Typed /\ IndexAt(w) /\ LiveAt(w) /\ StatusAt(w) /\ proc[p] = Idle
      /\ UNCHANGED <<profile, jobs, index, location, snapshot, status>>
  BY WorkerOf DEF Inv, StartSave, redis
<1>2. PICK h \in Proc : h = Handler(op, "select", w) /\ h.op = op /\ h.pc = "select"
                         /\ h.w = w /\ h.b = None /\ ~ h.quiet /\ h.dto \in Dto
  <2>1. op \in Ops /\ "select" \in Pcs
    BY DEF Ops, Pcs
  <2>q. QED BY <2>1, HandlerTyped
<1>3. PICK v : v = [h EXCEPT !.dto.isActive = active]
  OBVIOUS
<1>4. /\ v \in Proc /\ v.op = op /\ v.pc = "select" /\ v.w = w /\ v.b = None
      /\ ~ v.quiet /\ v.dto.isActive = active
  BY <1>2, <1>3 DEF Proc, Dto
<1>5. proc' = [q \in Procs |-> IF q = p THEN v
                ELSE IF proc[q].w = w THEN [proc[q] EXCEPT !.quiet = FALSE] ELSE proc[q]]
  BY <1>2, <1>3 DEF StartSave
<1>6. ASSUME NEW q \in Procs \ {p}
      PROVE  /\ proc'[q] \in Proc /\ Same(proc'[q], proc[q]) /\ proc'[q].b = proc[q].b
             /\ proc[q].w = w => ~ proc'[q].quiet
  <2>1. PICK u \in Proc : u = proc[q]
    BY <1>1 DEF TypeOK
  <2>2. PICK y : y = [u EXCEPT !.quiet = FALSE]
    OBVIOUS
  <2>3. /\ y \in Proc /\ ~ y.quiet /\ y.op = u.op /\ y.pc = u.pc /\ y.w = u.w /\ y.b = u.b
        /\ y.dto = u.dto /\ y.dirty = u.dirty
    BY <2>1, <2>2 DEF Proc
  <2>4. proc'[q] = IF u.w = w THEN y ELSE u
    BY <1>5, <2>1, <2>2
  <2>q. QED BY <2>1, <2>3, <2>4 DEF Same
<1>7. Moves(p, v)
  BY <1>4, <1>5, <1>6 DEF Moves, Others
<1>8. Typed'
  BY <1>1 DEF Typed
<1>9. Base'
  <2>1. Handled(v)
    BY <1>4 DEF Handled
  <2>q. QED BY <1>1, <1>6, <1>7, <1>8, <2>1, BaseQuiet
<1>10. Local(p, v, w)
  BY <1>1, <1>4, <1>7, IdleTyped DEF Local, Of, Apart
<1>11. proc[p].op = "none"
  BY <1>1, IdleTyped
<1>12. IndexAt(w)'
  <2> SUFFICES ASSUME Spared(w, {"fault", "crossed"})'
               PROVE  /\ \A q \in Procs, r \in Procs :
                           Saves(proc'[q], w) /\ Saves(proc'[r], w) => q = r
                      /\ InFlight(Savers, w)'
                      /\ \A q \in Procs : Saves(proc'[q], w) => SaverOk(proc[q])'
                      /\ \A q \in Procs : proc'[q].op = "search" /\ proc'[q].w = w => ~ proc'[q].quiet
    BY DEF IndexAt, Saves
  <2>1. Spared(w, {"fault", "crossed"}) /\ ~ InFlight(Savers, w)
    BY DEF Spared
  <2>2. IndexOk(w)'
    BY <1>1, <2>1 DEF IndexAt, IndexOk
  <2>3. \A q \in Procs : Saves(proc'[q], w) => q = p
    BY <1>6, <2>1 DEF Same, InFlight, Saves
  <2>4. SaverOk(v)'
    BY <1>1, <1>4, <2>2 DEF SaverOk, Savers
  <2>5. proc'[p] = v
    BY <1>7 DEF Moves
  <2>6. Saves(proc'[p], w) /\ InFlight(Savers, w)'
    BY <1>4, <2>5 DEF Saves, InFlight
  <2>7. \A q \in Procs : proc'[q].op = "search" /\ proc'[q].w = w => ~ proc'[q].quiet
    BY <1>4, <1>6, <2>5 DEF Same
  <2>8. SaverOk(proc[p])'
    BY <2>4, <2>5 DEF SaverOk
  <2>q. QED BY <2>3, <2>6, <2>7, <2>8
<1>13. LiveAt(w)'
  <2>1. ~ Syncing(proc[p], w) /\ ~ Fills(v, w) /\ ~ Answers(v, w)
    BY <1>4, <1>11 DEF Syncing, Fills, Answers
  <2>q. QED BY <1>1, <1>7, <2>1, LiveQuiet
<1>14. StatusAt(w)'
  <2>1. CASE op = "toggle" /\ jobs[w] # {}
    BY <2>1 DEF StatusAt, Spared
  <2>2. CASE ~ (op = "toggle" /\ jobs[w] # {})
    <3>1. ~ Tells(proc[p], w) /\ ~ Caches(v, w) /\ v.op \notin {"accept", "end"}
      BY <1>4, <1>11 DEF Tells, Caches, Readers, Savers
    <3>q. QED BY <1>1, <1>4, <1>7, <2>2, <3>1, StatusQuiet
  <2>q. QED BY <2>1, <2>2
<1>q. QED BY <1>9, <1>10, <1>12, <1>13, <1>14, StepOf

LEMMA ToggleGoLiveStep ==
  ASSUME Inv, NEW p \in Procs, NEW w \in Workers, ToggleGoLive(p, w) PROVE Inv'
<1>1. StartSave(p, "toggle", w, ~ profile[w].isActive) /\ "toggle" \in Savers
  BY DEF ToggleGoLive, Savers
<1>2. slips \in [Workers -> SUBSET Slips] /\ profile[w].isActive \in BOOLEAN
  BY DEF Inv, Base, TypeOK
<1>3. PICK active \in BOOLEAN : active = ~ profile[w].isActive
  BY <1>2
<1>4. StartSave(p, "toggle", w, active) /\ active # profile[w].isActive
  BY <1>1, <1>2, <1>3
<1>5. /\ slips' \in [Workers -> SUBSET Slips] /\ \A x \in Workers : slips[x] \subseteq slips'[x]
      /\ InFlight(Savers, w) => "crossed" \in slips'[w]
      /\ jobs[w] # {} => "tangled" \in slips'[w]
  BY <1>2 DEF ToggleGoLive, After, Slips
<1>q. QED BY <1>1, <1>4, <1>5, StartSaveStep

LEMMA EditProfileStep ==
  ASSUME Inv, NEW p \in Procs, NEW w \in Workers, EditProfile(p, w) PROVE Inv'
<1>1. StartSave(p, "edit", w, profile[w].isActive) /\ "edit" \in Savers
  BY DEF EditProfile, Savers
<1>2. slips \in [Workers -> SUBSET Slips] /\ profile[w].isActive \in BOOLEAN
  BY DEF Inv, Base, TypeOK
<1>3. PICK active \in BOOLEAN : active = profile[w].isActive
  BY <1>2
<1>5. /\ slips' \in [Workers -> SUBSET Slips] /\ \A x \in Workers : slips[x] \subseteq slips'[x]
      /\ InFlight(Savers, w) => "crossed" \in slips'[w]
  BY <1>2 DEF EditProfile, Slip, After, Slips
<1>q. QED BY <1>1, <1>3, <1>5, StartSaveStep

\* The only saver of a worker's profile goes to v.
LEMMA IndexSaver ==
  ASSUME NEW x \in Workers, IndexAt(x), NEW p \in Procs, NEW v, Moves(p, v),
         Saves(proc[p], x), v.op # "search",
         \A c \in {"fault", "crossed"} : c \in slips[x] => c \in slips'[x],
         Spared(x, {"fault", "crossed"}) /\ SaverOk(proc[p]) =>
           IF Saves(v, x) THEN SaverOk(v)' ELSE IndexOk(x)'
  PROVE  IndexAt(x)'
<1> SUFFICES ASSUME Spared(x, {"fault", "crossed"})'
             PROVE  /\ \A q \in Procs, r \in Procs :
                         Saves(proc'[q], x) /\ Saves(proc'[r], x) => q = r
                    /\ ~ InFlight(Savers, x)' => IndexOk(x)'
                    /\ \A q \in Procs : Saves(proc'[q], x) => SaverOk(proc[q])'
                    /\ \A q \in Procs : proc'[q].op = "search" /\ proc'[q].w = x => ~ proc'[q].quiet
  BY DEF IndexAt, Saves
<1>1. Spared(x, {"fault", "crossed"})
  BY DEF Spared
<1>2. IF Saves(v, x) THEN SaverOk(v)' ELSE IndexOk(x)'
  BY <1>1 DEF IndexAt
<1>3. \A q \in Procs : Saves(proc'[q], x) => q = p
  BY <1>1 DEF IndexAt, Moves, Others, Same, Saves
<1>4. \A q \in Procs : proc[q].op = "search" /\ proc[q].w = x => ~ proc[q].quiet
  BY <1>1 DEF IndexAt, InFlight, Saves
<1>5. \A q \in Procs : proc'[q].op = "search" /\ proc'[q].w = x => ~ proc'[q].quiet
  BY <1>4 DEF Moves, Others, Same
<1>6. proc'[p] = v
  BY DEF Moves
<1>7. ~ InFlight(Savers, x)' => IndexOk(x)'
  BY <1>2, <1>6 DEF InFlight, Saves
<1>8. Saves(proc'[p], x) => SaverOk(proc[p])'
  BY <1>2, <1>6 DEF SaverOk
<1>q. QED BY <1>3, <1>5, <1>7, <1>8

LEMMA SaverStep ==
  ASSUME Inv, NEW p \in Procs, NEW v, NEW x \in Workers, x = proc[p].w, proc[p].op \in Savers,
         Moves(p, v), \A q \in Procs \ {p} : proc'[q] = proc[q],
         (v.op = proc[p].op /\ v.w = x) \/ v.op = "none", Handled(v),
         jobs' = jobs, Typed', Apart(x),
         \A c \in Slips \ {"expired"} : c \in slips[x] => c \in slips'[x],
         Spared(x, {"fault", "crossed"}) /\ SaverOk(proc[p]) =>
           IF Saves(v, x) THEN SaverOk(v)' ELSE IndexOk(x)',
         LiveAt(x)',
         Spared(x, {"fault", "late", "tangled"}) => status'[x] \in {status[x], None, Truth(x)}
  PROVE  Inv'
<1>1. Base /\ IndexAt(x) /\ StatusAt(x)
  BY DEF Inv
<1>2. Base'
  BY <1>1, BaseQuiet
<1>3. Local(p, v, x)
  BY DEF Local, Of
<1>4. IndexAt(x)'
  <2>1. Saves(proc[p], x) /\ v.op # "search"
    BY DEF Saves, Savers
  <2>2. \A c \in {"fault", "crossed"} : c \in slips[x] => c \in slips'[x]
    BY DEF Slips
  <2>q. QED BY <1>1, <2>1, <2>2, IndexSaver
<1>5. StatusAt(x)'
  <2>1. ~ Tells(proc[p], x) /\ ~ Caches(v, x) /\ v.op \notin {"accept", "end"}
    BY DEF Tells, Caches, Savers, Readers
  <2>2. \A c \in {"fault", "late", "tangled"} : c \in slips[x] => c \in slips'[x]
    BY DEF Slips
  <2>3. Spared(x, {"fault", "late", "tangled"}) => (v.op = "toggle" => jobs[x] = {})
    BY <1>1 DEF StatusAt
  <2>q. QED BY <1>1, <2>1, <2>2, <2>3, StatusQuiet
<1>q. QED BY <1>2, <1>3, <1>4, <1>5, StepOf

LEMMA SelectStep ==
  ASSUME Inv, NEW p \in Procs, Select(p) PROVE Inv'
<1>1. proc[p].pc = "select" /\ UNCHANGED <<profile, jobs, index, location, snapshot, status, slips>>
  BY DEF Select, redis
<1>2. PICK x \in Workers : x = proc[p].w
  BY WorkerOf
<1>3. /\ TypeOK /\ Base /\ Typed /\ proc[p] \in Proc /\ proc \in [Procs -> Proc]
      /\ proc[p].dto \in Dto /\ Handled(proc[p]) /\ IndexAt(x) /\ LiveAt(x) /\ StatusAt(x)
      /\ profile \in [Workers -> [isActive : BOOLEAN]]
  BY <1>2, WorkerOf DEF Typed
<1>4. PICK d : d = Changed(profile[x], Entity(proc[p]))
  OBVIOUS
<1>5. /\ d \in SUBSET {"isActive"}
      /\ "isActive" \in d <=> proc[p].dto.isActive # profile[x].isActive
  BY <1>3, <1>4 DEF Changed, Entity
<1>6. PICK v : v = [proc[p] EXCEPT !.pc = "update", !.dirty = d]
  OBVIOUS
<1>7. /\ v \in Proc /\ v.op = proc[p].op /\ v.w = x /\ v.b = proc[p].b /\ v.pc = "update"
      /\ v.dto = proc[p].dto /\ v.dirty = d
  BY <1>2, <1>3, <1>5, <1>6 DEF Proc
<1>8. proc' = [proc EXCEPT ![p] = v]
  BY <1>2, <1>3, <1>4, <1>6 DEF Select
<1>9. Moves(p, v) /\ \A q \in Procs \ {p} : proc'[q] = proc[q]
  BY <1>3, <1>7, <1>8, OneMoves
<1>10. v.op \in Savers /\ Handled(v) /\ proc[p].op \in Savers
  BY <1>1, <1>2, <1>3, <1>7 DEF Handled
<1>11. Typed' /\ Apart(x)
  BY <1>1, <1>3 DEF Typed, Apart
<1>12. LiveAt(x)'
  <2>1. ~ Syncing(proc[p], x) /\ ~ Fills(v, x) /\ ~ Answers(v, x)
    BY <1>1, <1>7 DEF Syncing, Fills, Answers
  <2>q. QED BY <1>1, <1>3, <1>9, <2>1, LiveQuiet
<1>13. SaverOk(proc[p]) => SaverOk(v)'
  <2>1. ASSUME SaverOk(proc[p]) PROVE SaverOk(v)'
    <3>1. IndexOk(x) /\ (v.op = "toggle" <=> v.dto.isActive # profile[x].isActive)
      BY <1>1, <1>2, <1>7, <2>1 DEF SaverOk
    <3>2. IndexOk(x)' /\ profile' = profile
      BY <1>1, <3>1 DEF IndexOk
    <3>q. QED BY <1>5, <1>7, <3>1, <3>2 DEF SaverOk
  <2>q. QED BY <2>1
<1>14. Saves(v, x)
  BY <1>7, <1>10 DEF Saves
<1>q. QED BY <1>1, <1>2, <1>7, <1>9, <1>10, <1>11, <1>12, <1>13, <1>14, SaverStep

\* The UPDATE: the row is what the saver holds.
LEMMA UpdateStep ==
  ASSUME Inv, NEW p \in Procs, Update(p) PROVE Inv'
<1>1. proc[p].pc = "update" /\ UNCHANGED <<jobs, index, location, snapshot, status, slips>>
  BY DEF Update, redis
<1>2. PICK x \in Workers : x = proc[p].w
  BY WorkerOf
<1>3. /\ TypeOK /\ Base /\ Typed /\ proc[p] \in Proc /\ proc \in [Procs -> Proc]
      /\ proc[p].dto \in Dto /\ Handled(proc[p]) /\ IndexAt(x) /\ LiveAt(x) /\ StatusAt(x)
      /\ profile \in [Workers -> [isActive : BOOLEAN]] /\ proc[p].dto.isActive \in BOOLEAN
  BY <1>2, WorkerOf, DtoTyped DEF Typed
<1>4. PICK row : row = Updated(profile[x], Entity(proc[p]), proc[p].dirty)
  OBVIOUS
<1>5. profile' = [profile EXCEPT ![x] = row]
  BY <1>2, <1>4 DEF Update
<1>6. /\ row \in [isActive : BOOLEAN]
      /\ row.isActive = IF "isActive" \in proc[p].dirty THEN proc[p].dto.isActive
                                                        ELSE profile[x].isActive
  BY <1>3, <1>4 DEF Updated, Entity
<1>7. profile' \in [Workers -> [isActive : BOOLEAN]] /\ profile'[x] = row
  BY <1>3, <1>5, <1>6
<1>8. proc[p].op \in Savers
  BY <1>1, <1>2, <1>3 DEF Handled
<1>9. Typed' /\ Apart(x)
  BY <1>1, <1>3, <1>5, <1>7 DEF Typed, Apart
<1>10. SaverOk(proc[p]) => row.isActive = proc[p].dto.isActive
  BY <1>1, <1>2, <1>6 DEF SaverOk
<1>11. Spared(x, {"fault", "crossed"}) => SaverOk(proc[p])
  BY <1>2, <1>3, <1>8 DEF IndexAt, Saves
<1>12. CASE proc[p].op = "edit"
  <2>1. Moves(p, Idle) /\ \A q \in Procs \ {p} : proc'[q] = proc[q]
    BY <1>3, <1>12, DoneMoves DEF Update
  <2>2. Handled(Idle) /\ Idle.op = "none" /\ ~ Saves(Idle, x)
    BY IdleTyped DEF Handled, Saves, Savers
  <2>3. SaverOk(proc[p]) => IndexOk(x) /\ profile[x].isActive = proc[p].dto.isActive
    BY <1>2, <1>12 DEF SaverOk
  <2>4. SaverOk(proc[p]) => IndexOk(x)'
    BY <1>1, <1>7, <1>10, <2>3 DEF IndexOk
  <2>5. LiveAt(x)'
    <3>1. CASE ~ Spared(x, {"fault", "crossed", "late"})
      BY <1>1, <3>1 DEF LiveAt, Spared
    <3>2. CASE Spared(x, {"fault", "crossed", "late"})
      <4>1. row.isActive = profile[x].isActive
        BY <1>10, <1>11, <2>3, <3>2 DEF Spared
      <4>2. profile'[x] = profile[x]
        BY <1>3, <1>6, <1>7, <4>1
      <4>3. ~ Syncing(proc[p], x) /\ ~ Fills(Idle, x) /\ ~ Answers(Idle, x)
        BY <1>12, <2>2 DEF Syncing, Fills, Answers
      <4>q. QED BY <1>1, <1>3, <2>1, <4>2, <4>3, LiveQuiet
    <3>q. QED BY <3>1, <3>2
  <2>q. QED BY <1>1, <1>2, <1>8, <1>9, <2>1, <2>2, <2>4, <2>5, SaverStep
<1>13. CASE proc[p].op = "toggle"
  <2>1. PICK pc \in {"status", "location"} :
          pc = (IF proc[p].dto.isActive THEN "status" ELSE "location")
    OBVIOUS
  <2>2. Goto(p, pc)
    BY <1>13, <2>1 DEF Update
  <2>3. PICK v \in Proc : /\ Moves(p, v) /\ At2(proc[p], v, pc)
                          /\ \A q \in Procs \ {p} : proc'[q] = proc[q]
    BY <1>3, <2>2, GotoMoves
  <2>4. /\ v.op = proc[p].op /\ v.w = x /\ v.b = proc[p].b /\ v.pc \in {"status", "location"}
        /\ v.dto = proc[p].dto
    BY <1>2, <2>3 DEF At2
  <2>5. Handled(v) /\ Saves(v, x)
    BY <1>2, <1>3, <1>8, <2>4 DEF Handled, Saves
  <2>6. SaverOk(proc[p]) => SaverOk(v)'
    BY <1>7, <1>10, <1>13, <2>4 DEF SaverOk
  <2>7. LiveAt(x)'
    <3>1. Syncing(v, x) /\ proc'[p] = v
      BY <1>13, <2>3, <2>4 DEF Syncing, Moves
    <3>2. \A q \in Procs : Answers(proc'[q], x) =>
            Answers(proc[q], x) /\ proc'[q].dto = proc[q].dto
      BY <1>13, <2>3, <2>4, <3>1 DEF Answers
    <3>3. Spared(x, {"fault", "crossed", "late"})' => Spared(x, {"fault", "crossed", "late"})
      BY <1>1 DEF Spared
    <3>4. Spared(x, {"fault", "crossed", "late"})' =>
            \A q \in Procs : Answers(proc'[q], x) => proc'[q].dto.isActive
      BY <1>3, <3>2, <3>3 DEF LiveAt
    <3>5. \E q \in Procs : Syncing(proc'[q], x)
      BY <3>1
    <3>q. QED BY <3>4, <3>5 DEF LiveAt, Syncing, Answers
  <2>q. QED BY <1>1, <1>2, <1>8, <1>9, <2>3, <2>4, <2>5, <2>6, <2>7, SaverStep
<1>q. QED BY <1>8, <1>12, <1>13 DEF Savers

\* toggleGoLive's Redis commands but the last: a handler that goes to pc.
LEMMA SyncStep ==
  ASSUME Inv, NEW p \in Procs, NEW pc \in {"status", "snapshot", "index"},
         proc[p].op = "toggle", proc[p].pc \in {"location", "status", "snapshot"}, Goto(p, pc),
         NEW x \in Workers, x = proc[p].w,
         profile' = profile, jobs' = jobs, index' = index, Typed', Apart(x),
         \/ "fault" \in slips'[x]
         \/ /\ slips[x] \subseteq slips'[x]
            /\ pc = "index" => LiveAt(x)'
            /\ pc = "index" \/ snapshot'[x] = snapshot[x]
            /\ status'[x] \in {status[x], None, "available"}
  PROVE  Inv'
<1>1. /\ TypeOK /\ Base /\ Typed /\ proc[p] \in Proc /\ proc \in [Procs -> Proc]
      /\ Handled(proc[p]) /\ IndexAt(x) /\ LiveAt(x) /\ StatusAt(x)
  BY WorkerOf
<1>2. PICK v \in Proc : /\ Moves(p, v) /\ At2(proc[p], v, pc)
                        /\ \A q \in Procs \ {p} : proc'[q] = proc[q]
  BY <1>1, GotoMoves
<1>3. /\ v.op = "toggle" /\ v.w = x /\ v.b = proc[p].b /\ v.pc = pc /\ v.dto = proc[p].dto
  BY <1>2 DEF At2
<1>4. Handled(v) /\ Saves(v, x) /\ proc[p].op \in Savers
  BY <1>1, <1>3 DEF Handled, Saves, Savers
<1>5. CASE "fault" \in slips'[x]
  <2>1. Local(p, v, x)
    BY <1>2, <1>3 DEF Local, Of
  <2>2. Base'
    BY <1>1, <1>2, <1>4, BaseQuiet
  <2>q. QED BY <1>5, <2>1, <2>2, Faulted, StepOf
<1>6. CASE /\ slips[x] \subseteq slips'[x]
           /\ pc = "index" => LiveAt(x)'
           /\ pc = "index" \/ snapshot'[x] = snapshot[x]
           /\ status'[x] \in {status[x], None, "available"}
  <2>1. SaverOk(proc[p]) => SaverOk(v)'
    BY <1>3 DEF SaverOk
  <2>2. LiveAt(x)'
    <3>1. CASE pc = "index"
      BY <1>6, <3>1
    <3>2. CASE pc # "index"
      <4>1. Syncing(v, x) /\ ~ Fills(v, x) /\ ~ Answers(v, x)
        BY <1>3, <3>2 DEF Syncing, Fills, Answers
      <4>q. QED BY <1>1, <1>2, <1>6, <3>2, <4>1, LiveQuiet
    <3>q. QED BY <3>1, <3>2
  <2>3. Spared(x, {"fault", "late", "tangled"}) => status'[x] \in {status[x], None, Truth(x)}
    BY <1>1, <1>6 DEF StatusAt, Truth
  <2>q. QED BY <1>2, <1>3, <1>4, <1>6, <2>1, <2>2, <2>3, SaverStep
<1>q. QED BY <1>5, <1>6

LEMMA DelLocationStep ==
  ASSUME Inv, NEW p \in Procs, DelLocation(p) PROVE Inv'
<1>1. /\ proc[p].op = "toggle" /\ proc[p].pc = "location" /\ Goto(p, "status")
      /\ UNCHANGED <<profile, jobs, index, snapshot, status>>
  BY DEF DelLocation, At
<1>2. PICK x \in Workers : x = proc[p].w
  BY WorkerOf
<1>3. TypeOK /\ Typed
  BY WorkerOf
<1>4. CASE location' = location \ {x} /\ UNCHANGED slips
  <2>1. Typed' /\ Apart(x)
    BY <1>1, <1>3, <1>4 DEF Typed, Apart
  <2>q. QED BY <1>1, <1>2, <1>4, <2>1, SyncStep
<1>5. CASE Fault(x) /\ UNCHANGED location
  <2>1. /\ slips' \in [Workers -> SUBSET Slips] /\ "fault" \in slips'[x]
        /\ \A y \in Workers : slips[y] \subseteq slips'[y]
    BY <1>3, <1>5, FaultGrows
  <2>2. Typed' /\ Apart(x)
    BY <1>1, <1>3, <1>5, <2>1 DEF Typed, Apart
  <2>q. QED BY <1>1, <1>2, <2>1, <2>2, SyncStep
<1>q. QED BY <1>2, <1>4, <1>5 DEF DelLocation

LEMMA SyncStatusStep ==
  ASSUME Inv, NEW p \in Procs, SyncStatus(p) PROVE Inv'
<1>1. /\ proc[p].op = "toggle" /\ proc[p].pc = "status" /\ Goto(p, "snapshot")
      /\ UNCHANGED <<profile, jobs, index, location, snapshot>>
  BY DEF SyncStatus, At
<1>2. PICK x \in Workers : x = proc[p].w
  BY WorkerOf
<1>3. TypeOK /\ Typed /\ status \in [Workers -> Availability \cup {None}]
  BY WorkerOf DEF Typed
<1>4. CASE /\ status' = [status EXCEPT ![x] = IF proc[p].dto.isActive THEN "available" ELSE None]
           /\ UNCHANGED slips
  <2>1. Typed' /\ Apart(x) /\ status'[x] \in {None, "available"}
    BY <1>1, <1>3, <1>4 DEF Typed, Apart, Availability
  <2>q. QED BY <1>1, <1>2, <1>4, <2>1, SyncStep
<1>5. CASE Fault(x) /\ UNCHANGED status
  <2>1. /\ slips' \in [Workers -> SUBSET Slips] /\ "fault" \in slips'[x]
        /\ \A y \in Workers : slips[y] \subseteq slips'[y]
    BY <1>3, <1>5, FaultGrows
  <2>2. Typed' /\ Apart(x)
    BY <1>1, <1>3, <1>5, <2>1 DEF Typed, Apart
  <2>q. QED BY <1>1, <1>2, <2>1, <2>2, SyncStep
<1>q. QED BY <1>2, <1>4, <1>5 DEF SyncStatus

LEMMA SyncSnapshotStep ==
  ASSUME Inv, NEW p \in Procs, SyncSnapshot(p) PROVE Inv'
<1>1. /\ proc[p].op = "toggle" /\ proc[p].pc = "snapshot" /\ Goto(p, "index")
      /\ UNCHANGED <<profile, jobs, index, location, status>>
  BY DEF SyncSnapshot, At
<1>2. PICK x \in Workers : x = proc[p].w
  BY WorkerOf
<1>3. /\ TypeOK /\ Typed /\ snapshot \in [Workers -> Dto \cup {None}] /\ proc[p].dto \in Dto
      /\ proc[p].dto.isActive \in BOOLEAN /\ IndexAt(x) /\ LiveAt(x)
  BY <1>2, WorkerOf, DtoTyped DEF Typed
<1>4. CASE /\ snapshot' = [snapshot EXCEPT ![x] = IF proc[p].dto.isActive THEN proc[p].dto ELSE None]
           /\ Slip(x, "late", proc[p].dto.isActive /\ Outdates(p))
  <2>1. /\ slips' \in [Workers -> SUBSET Slips] /\ \A y \in Workers : slips[y] \subseteq slips'[y]
        /\ proc[p].dto.isActive /\ Outdates(p) => "late" \in slips'[x]
    <3>1. PICK h \in BOOLEAN : h = (proc[p].dto.isActive /\ Outdates(p))
      BY <1>3 DEF Outdates
    <3>q. QED BY <1>3, <1>4, <3>1, SlipGrows DEF Slips
  <2>2. Typed' /\ Apart(x)
    BY <1>1, <1>3, <1>4, <2>1 DEF Typed, Apart
  <2>3. PICK v \in Proc : /\ Moves(p, v) /\ At2(proc[p], v, "index")
                          /\ \A q \in Procs \ {p} : proc'[q] = proc[q]
    BY <1>1, <1>3, GotoMoves
  <2>4. LiveAt(x)'
    <3> SUFFICES ASSUME Spared(x, {"fault", "crossed", "late"})'
                 PROVE  /\ profile'[x].isActive =>
                             /\ snapshot'[x] # None => snapshot'[x].isActive
                             /\ \A q \in Procs : Fills(proc'[q], x) => proc'[q].dto.isActive
                        /\ \A q \in Procs : Answers(proc'[q], x) => proc'[q].dto.isActive
      BY DEF LiveAt, Fills, Answers
    <3>1. /\ Spared(x, {"fault", "crossed", "late"}) /\ Spared(x, {"fault", "crossed"})
          /\ ~ (proc[p].dto.isActive /\ Outdates(p))
      BY <2>1 DEF Spared
    <3>2. Saves(proc[p], x)
      BY <1>1, <1>2 DEF Saves, Savers
    <3>3. SaverOk(proc[p])
      BY <1>3, <3>1, <3>2 DEF IndexAt
    <3>4. proc[p].dto.isActive = profile[x].isActive
      BY <1>1, <1>2, <3>3 DEF SaverOk
    <3>5. proc'[p].op = "toggle"
      BY <1>1, <2>3 DEF At2, Moves
    <3>6. \A q \in Procs : Answers(proc'[q], x) => proc'[q].dto.isActive
      BY <1>3, <2>3, <3>1, <3>5 DEF LiveAt, Answers
    <3>7. ASSUME profile'[x].isActive
          PROVE  /\ snapshot'[x] # None => snapshot'[x].isActive
                 /\ \A q \in Procs : Fills(proc'[q], x) => proc'[q].dto.isActive
      <4>1. proc[p].dto.isActive /\ ~ Outdates(p)
        BY <1>1, <3>1, <3>4, <3>7
      <4>2. snapshot'[x] = proc[p].dto
        BY <1>3, <1>4, <4>1
      <4>3. \A q \in Procs : Fills(proc[q], x) => proc[q].dto.isActive
        BY <1>2, <4>1 DEF Outdates, Fills
      <4>4. \A q \in Procs : Fills(proc'[q], x) => proc'[q].dto.isActive
        BY <2>3, <3>5, <4>3 DEF Fills
      <4>q. QED BY <4>1, <4>2, <4>4
    <3>q. QED BY <3>6, <3>7
  <2>q. QED BY <1>1, <1>2, <2>1, <2>2, <2>4, SyncStep
<1>5. CASE Fault(x) /\ UNCHANGED snapshot
  <2>1. /\ slips' \in [Workers -> SUBSET Slips] /\ "fault" \in slips'[x]
        /\ \A y \in Workers : slips[y] \subseteq slips'[y]
    BY <1>3, <1>5, FaultGrows
  <2>2. Typed' /\ Apart(x)
    BY <1>1, <1>3, <1>5, <2>1 DEF Typed, Apart
  <2>q. QED BY <1>1, <1>2, <2>1, <2>2, SyncStep
<1>q. QED BY <1>2, <1>4, <1>5 DEF SyncSnapshot

\* A handler that is lost, or whose last write fails.
LEMMA LostStep ==
  ASSUME Inv, NEW p \in Procs, Done(p), NEW x \in Workers, x = proc[p].w,
         "fault" \in slips'[x], Typed', Apart(x), jobs' = jobs
  PROVE  Inv'
<1>1. TypeOK /\ Base
  BY WorkerOf
<1>2. Moves(p, Idle) /\ \A q \in Procs \ {p} : proc'[q] = proc[q]
  BY <1>1, DoneMoves
<1>3. Handled(Idle) /\ Local(p, Idle, x)
  BY <1>2, IdleTyped DEF Handled, Local, Of
<1>4. Base'
  BY <1>1, <1>2, <1>3, BaseQuiet
<1>q. QED BY <1>3, <1>4, Faulted, StepOf

LEMMA LoseStep ==
  ASSUME Inv, NEW p \in Procs, Lose(p) PROVE Inv'
<1>1. /\ Done(p) /\ UNCHANGED <<profile, jobs, index, location, snapshot, status>>
      /\ TypeOK /\ Typed
  BY WorkerOf DEF Lose, redis
<1>2. PICK x \in Workers : x = proc[p].w
  BY WorkerOf
<1>3. /\ slips' \in [Workers -> SUBSET Slips] /\ "fault" \in slips'[x]
      /\ \A y \in Workers : slips[y] \subseteq slips'[y]
  BY <1>1, <1>2, SlipGrows DEF Lose, Slips
<1>4. Typed' /\ Apart(x)
  BY <1>1, <1>3 DEF Typed, Apart
<1>q. QED BY <1>1, <1>2, <1>3, <1>4, LostStep

\* toggleGoLive's last command: the index is what the profile says again.
LEMMA SyncIndexStep ==
  ASSUME Inv, NEW p \in Procs, SyncIndex(p) PROVE Inv'
<1>1. /\ proc[p].op = "toggle" /\ proc[p].pc = "index" /\ Done(p)
      /\ UNCHANGED <<profile, jobs, location, snapshot, status>>
  BY DEF SyncIndex, At
<1>2. PICK x \in Workers : x = proc[p].w
  BY WorkerOf
<1>3. /\ TypeOK /\ Typed /\ Base /\ IndexAt(x) /\ LiveAt(x) /\ StatusAt(x)
      /\ slips \in [Workers -> SUBSET Slips] /\ index \subseteq Workers
  BY <1>2, WorkerOf DEF Typed
<1>4. CASE /\ index' = IF proc[p].dto.isActive THEN index \cup {x} ELSE index \ {x}
           /\ slips' = [slips EXCEPT ![x] = @ \ {"expired"}]
  <2>1. Moves(p, Idle) /\ \A q \in Procs \ {p} : proc'[q] = proc[q]
    BY <1>1, <1>3, DoneMoves
  <2>2. Handled(Idle) /\ Idle.op = "none" /\ ~ Saves(Idle, x)
    BY IdleTyped DEF Handled, Saves, Savers
  <2>3. Typed' /\ Apart(x)
    BY <1>1, <1>3, <1>4 DEF Typed, Apart
  <2>4. \A c \in Slips \ {"expired"} : c \in slips[x] => c \in slips'[x]
    BY <1>3, <1>4
  <2>5. SaverOk(proc[p]) => IndexOk(x)'
    <3>1. SaverOk(proc[p]) => proc[p].dto.isActive = profile[x].isActive
      BY <1>1, <1>2 DEF SaverOk
    <3>q. QED BY <1>1, <1>4, <3>1 DEF IndexOk
  <2>6. LiveAt(x)'
    <3>1. ~ Syncing(proc[p], x) /\ ~ Fills(Idle, x) /\ ~ Answers(Idle, x)
      BY <1>1, <2>2 DEF Syncing, Fills, Answers
    <3>2. \A c \in {"fault", "crossed", "late"} : c \in slips[x] => c \in slips'[x]
      BY <2>4 DEF Slips
    <3>q. QED BY <1>1, <1>3, <2>1, <3>1, <3>2, LiveQuiet
  <2>7. proc[p].op \in Savers
    BY <1>1 DEF Savers
  <2>q. QED BY <1>1, <1>2, <2>1, <2>2, <2>3, <2>4, <2>5, <2>6, <2>7, SaverStep
<1>5. CASE Fault(x) /\ UNCHANGED index
  <2>1. /\ slips' \in [Workers -> SUBSET Slips] /\ "fault" \in slips'[x]
        /\ \A y \in Workers : slips[y] \subseteq slips'[y]
    BY <1>3, <1>5, FaultGrows
  <2>2. Typed' /\ Apart(x)
    BY <1>1, <1>3, <1>5, <2>1 DEF Typed, Apart
  <2>q. QED BY <1>1, <1>2, <2>1, <2>2, LostStep
<1>q. QED BY <1>2, <1>4, <1>5 DEF SyncIndex

-----------------------------------------------------------------------------
(***************************************************************************)
(* The bookings of a worker.                                               *)
(***************************************************************************)
\* A handler of x's bookings goes to v, neither a saver nor a reader.
LEMMA BookingStep ==
  ASSUME Inv, NEW p \in Procs, NEW v, NEW x \in Workers, Local(p, v, x), Base',
         proc[p].op \in {"accept", "end", "renew", "none"},
         v.op \in {"accept", "end", "renew", "none"},
         profile' = profile, index' = index, snapshot' = snapshot,
         slips[x] \subseteq slips'[x], StatusAt(x)'
  PROVE  Inv'
<1>1. IndexAt(x) /\ LiveAt(x) /\ Moves(p, v)
  BY DEF Inv, Local
<1>2. IndexAt(x)'
  <2>1. ~ Saves(v, x) /\ ~ Saves(proc[p], x) /\ v.op # "search"
    BY DEF Saves, Savers
  <2>q. QED BY <1>1, <2>1, IndexQuiet
<1>3. LiveAt(x)'
  <2>1. ~ Syncing(proc[p], x) /\ ~ Fills(v, x) /\ ~ Answers(v, x)
    BY DEF Syncing, Fills, Answers
  <2>q. QED BY <1>1, <2>1, LiveQuiet
<1>q. QED BY <1>2, <1>3, StepOf

\* The facts of StatusAt when a handler has just changed the bookings and will say so.
LEMMA WillTell ==
  ASSUME NEW x \in Workers, NEW p \in Procs, Tells(proc[p], x)',
         \A b \in jobs'[x], c \in jobs'[x] : b = c,
         \A q \in Procs : proc'[q].w = x =>
           /\ proc'[q].op = "toggle" => jobs'[x] = {}
           /\ proc'[q].op = "accept" => jobs'[x] # {}
           /\ proc'[q].op = "end" /\ proc'[q].pc = "setStatus" => jobs'[x] = {}
  PROVE  StatusAt(x)'
<1>1. Told(x)'
  BY DEF Told
<1>q. QED BY <1>1 DEF StatusAt

LEMMA AcceptBookingStep ==
  ASSUME Inv, NEW p \in Procs, NEW x \in Workers, NEW b \in Bookings, AcceptBooking(p, x, b)
  PROVE  Inv'
<1>1. /\ TypeOK /\ Typed /\ Base /\ StatusAt(x) /\ proc[p].op = "none"
      /\ jobs' = [jobs EXCEPT ![x] = @ \cup {b}] /\ jobs \in [Workers -> SUBSET Bookings]
      /\ UNCHANGED <<profile, index, location, snapshot, status>>
  BY WorkerOf, IdleTyped DEF Inv, AcceptBooking, redis, Typed
<1>2. PICK v \in Proc : v = Handler("accept", "setStatus", x) /\ v.op = "accept"
                         /\ v.pc = "setStatus" /\ v.w = x /\ v.b = None
  <2>1. "accept" \in Ops /\ "setStatus" \in Pcs
    BY DEF Ops, Pcs
  <2>q. QED BY <2>1, HandlerTyped
<1>3. Moves(p, v) /\ \A q \in Procs \ {p} : proc'[q] = proc[q]
  BY <1>1, <1>2, OneMoves DEF AcceptBooking
<1>4. /\ slips' \in [Workers -> SUBSET Slips] /\ \A y \in Workers : slips[y] \subseteq slips'[y]
      /\ jobs[x] # {} \/ InFlight({"end", "toggle"}, x) => "tangled" \in slips'[x]
  <2>1. PICK h \in BOOLEAN : h = (jobs[x] # {} \/ InFlight({"end", "toggle"}, x))
    BY DEF InFlight
  <2>q. QED BY <1>1, <2>1, SlipGrows DEF AcceptBooking, Slips
<1>5. jobs'[x] = jobs[x] \cup {b} /\ Typed' /\ Apart(x)
  BY <1>1, <1>4 DEF Typed, Apart
<1>6. Base'
  <2>1. Handled(v)'
    BY <1>2 DEF Handled
  <2>2. \A q \in Procs \ {p} : proc'[q].b # None => proc'[q].b \in jobs'[proc'[q].w]
    <3>1. ASSUME NEW q \in Procs \ {p}, proc'[q].b # None PROVE proc'[q].b \in jobs'[proc'[q].w]
      <4>1. proc'[q] = proc[q] /\ proc[q].b \in jobs[proc[q].w] /\ proc[q].w \in Workers
        BY <1>1, <1>3, <3>1 DEF Base, Handled, TypeOK, Proc
      <4>2. jobs[proc[q].w] \subseteq jobs'[proc[q].w]
        BY <1>1, <4>1
      <4>q. QED BY <4>1, <4>2
    <3>q. QED BY <3>1
  <2>q. QED BY <1>1, <1>3, <1>5, <2>1, <2>2, BaseMoves
<1>7. Local(p, v, x)
  BY <1>1, <1>2, <1>3, <1>5 DEF Local, Of
<1>8. StatusAt(x)'
  <2> SUFFICES ASSUME Spared(x, {"fault", "late", "tangled"})' PROVE StatusAt(x)'
    BY DEF StatusAt
  <2>1. jobs[x] = {} /\ ~ InFlight({"end", "toggle"}, x)
    BY <1>4 DEF Spared
  <2>2. jobs'[x] = {b}
    BY <1>5, <2>1
  <2>3. proc'[p] = v
    BY <1>3 DEF Moves
  <2>4. Tells(proc[p], x)'
    BY <1>2, <2>2, <2>3 DEF Tells
  <2>5. ASSUME NEW q \in Procs, proc'[q].w = x PROVE proc'[q].op \notin {"toggle", "end"}
    BY <1>2, <1>3, <2>1, <2>3, <2>5 DEF InFlight
  <2>q. QED BY <2>2, <2>4, <2>5, WillTell
<1>q. QED BY <1>1, <1>2, <1>4, <1>6, <1>7, <1>8, BookingStep

LEMMA FindBookingStep ==
  ASSUME Inv, NEW p \in Procs, NEW op \in {"end", "renew"}, NEW x \in Workers,
         NEW b \in Bookings, FindBooking(p, op, x, b)
  PROVE  Inv'
<1>1. /\ TypeOK /\ Typed /\ Base /\ StatusAt(x) /\ proc[p].op = "none" /\ b \in jobs[x]
      /\ UNCHANGED <<profile, jobs, index, location, snapshot, status, slips>>
  BY WorkerOf, IdleTyped DEF Inv, FindBooking, redis
<1>2. PICK h \in Proc : h = Handler(op, "save", x) /\ h.op = op /\ h.pc = "save" /\ h.w = x
  <2>1. op \in Ops /\ "save" \in Pcs
    BY DEF Ops, Pcs
  <2>q. QED BY <2>1, HandlerTyped
<1>3. PICK v : v = [h EXCEPT !.b = b]
  OBVIOUS
<1>4. v \in Proc /\ v.op = op /\ v.pc = "save" /\ v.w = x /\ v.b = b
  BY <1>2, <1>3 DEF Proc
<1>5. Moves(p, v) /\ \A q \in Procs \ {p} : proc'[q] = proc[q]
  BY <1>1, <1>2, <1>3, <1>4, OneMoves DEF FindBooking
<1>6. Typed' /\ Local(p, v, x)
  BY <1>1, <1>4, <1>5 DEF Typed, Local, Of, Apart
<1>7. Base'
  <2>1. Handled(v)
    BY <1>1, <1>4 DEF Handled
  <2>q. QED BY <1>1, <1>5, <1>6, <2>1, BaseQuiet
<1>8. StatusAt(x)'
  <2>1. ~ Tells(proc[p], x) /\ ~ Caches(v, x)
    BY <1>1, <1>4 DEF Tells, Caches
  <2>q. QED BY <1>1, <1>4, <1>5, <2>1, StatusQuiet
<1>q. QED BY <1>1, <1>4, <1>6, <1>7, <1>8, BookingStep

\* What Ended makes of a handler.
LEMMA EndedMoves ==
  ASSUME TypeOK, NEW x \in Workers, NEW b, NEW q \in Procs
  PROVE  /\ Ended(x, b)[q] \in Proc /\ Same(Ended(x, b)[q], proc[q])
         /\ Ended(x, b)[q].b \in {proc[q].b, None}
         /\ proc[q].w = x /\ proc[q].b = b => Ended(x, b)[q].b = None
<1>1. PICK u \in Proc : u = proc[q]
  BY DEF TypeOK
<1>2. PICK y : y = [u EXCEPT !.b = None]
  OBVIOUS
<1>3. /\ y \in Proc /\ y.b = None /\ y.op = u.op /\ y.pc = u.pc /\ y.w = u.w
      /\ y.dto = u.dto /\ y.dirty = u.dirty /\ y.quiet = u.quiet
  BY <1>1, <1>2 DEF Proc
<1>4. Ended(x, b)[q] = IF u.w = x /\ u.b = b THEN y ELSE u
  BY <1>1, <1>2 DEF Ended
<1>q. QED BY <1>1, <1>3, <1>4 DEF Same

\* No handler holds the booking that ended.
LEMMA EndedHolds ==
  ASSUME Base, NEW x \in Workers, NEW b, NEW q \in Procs, NEW u, u = Ended(x, b)[q],
         jobs' = [jobs EXCEPT ![x] = @ \ {b}], u.b # None
  PROVE  u.b \in jobs'[u.w]
<1>1. /\ u.b = proc[q].b /\ u.w = proc[q].w /\ ~ (u.w = x /\ u.b = b)
      /\ jobs \in [Workers -> SUBSET Bookings] /\ proc[q].w \in Workers
  BY EndedMoves DEF Base, Same, TypeOK, Proc
<1>2. u.b \in jobs[u.w]
  BY <1>1 DEF Base, Handled
<1>q. QED BY <1>1, <1>2

LEMMA EndBookingStep ==
  ASSUME Inv, NEW p \in Procs, EndBooking(p) PROVE Inv'
<1>1. /\ proc[p].op = "end" /\ proc[p].pc = "save"
      /\ UNCHANGED <<profile, index, location, snapshot, status>>
  BY DEF EndBooking, At, redis
<1>2. PICK x \in Workers, b \in Bookings \cup {None} : x = proc[p].w /\ b = proc[p].b
  BY WorkerOf DEF Proc
<1>3. /\ TypeOK /\ Typed /\ Base /\ StatusAt(x) /\ Handled(proc[p])
      /\ jobs \in [Workers -> SUBSET Bookings] /\ jobs' = [jobs EXCEPT ![x] = @ \ {b}]
  BY <1>2, WorkerOf DEF Typed, EndBooking
<1>4. PICK v \in Proc : v = Handler("end", "setStatus", x) /\ v.op = "end"
                         /\ v.pc = "setStatus" /\ v.w = x /\ v.b = None
  <2>1. "end" \in Ops /\ "setStatus" \in Pcs
    BY DEF Ops, Pcs
  <2>q. QED BY <2>1, HandlerTyped
<1>5. /\ proc' = [Ended(x, b) EXCEPT ![p] = v]
      /\ Slip(x, "tangled", b = None \/ Pending("accept", x))
  BY <1>2, <1>4 DEF EndBooking
<1>6. proc'[p] = v /\ \A q \in Procs \ {p} : proc'[q] = Ended(x, b)[q]
  BY <1>5 DEF Ended
<1>7. Moves(p, v)
  <2>1. \A q \in Procs \ {p} : proc'[q] \in Proc /\ Same(proc'[q], proc[q])
    BY <1>3, <1>6, EndedMoves
  <2>2. proc' \in [Procs -> Proc]
    BY <1>4, <1>5, <1>6, <2>1 DEF Ended
  <2>q. QED BY <1>4, <1>6, <2>1, <2>2 DEF Moves, Others
<1>8. /\ slips' \in [Workers -> SUBSET Slips] /\ \A y \in Workers : slips[y] \subseteq slips'[y]
      /\ b = None \/ Pending("accept", x) => "tangled" \in slips'[x]
  <2>1. PICK h \in BOOLEAN : h = (b = None \/ Pending("accept", x))
    BY DEF Pending, InFlight
  <2>q. QED BY <1>3, <1>5, <2>1, SlipGrows DEF Slips
<1>9. Typed' /\ Local(p, v, x)
  BY <1>1, <1>2, <1>3, <1>4, <1>7, <1>8 DEF Typed, Local, Of, Apart
<1>10. Base'
  <2>1. Handled(v)'
    BY <1>4 DEF Handled
  <2>2. \A q \in Procs \ {p} : proc'[q].b # None => proc'[q].b \in jobs'[proc'[q].w]
    BY <1>3, <1>6, EndedHolds
  <2>q. QED BY <1>3, <1>7, <1>9, <2>1, <2>2, BaseMoves
<1>11. StatusAt(x)'
  <2> SUFFICES ASSUME Spared(x, {"fault", "late", "tangled"})' PROVE StatusAt(x)'
    BY DEF StatusAt
  <2>1. b # None /\ ~ InFlight({"accept"}, x) /\ Spared(x, {"fault", "late", "tangled"})
    BY <1>8 DEF Spared, Pending
  <2>2. jobs'[x] = {}
    BY <1>2, <1>3, <2>1 DEF Handled, StatusAt
  <2>3. Tells(proc[p], x)'
    BY <1>4, <1>6, <2>2 DEF Tells
  <2>4. ASSUME NEW q \in Procs, proc'[q].w = x PROVE proc'[q].op # "accept"
    BY <1>4, <1>7, <2>1, <2>4 DEF Moves, Others, Same, InFlight
  <2>q. QED BY <2>2, <2>3, <2>4, WillTell
<1>q. QED BY <1>1, <1>4, <1>8, <1>9, <1>10, <1>11, BookingStep

LEMMA RenewBookingStep ==
  ASSUME Inv, NEW p \in Procs, RenewBooking(p) PROVE Inv'
<1>1. /\ proc[p].op = "renew" /\ proc[p].pc = "save" /\ Done(p)
      /\ UNCHANGED <<profile, index, location, snapshot, status>>
  BY DEF RenewBooking, At, redis
<1>2. PICK x \in Workers : x = proc[p].w
  BY WorkerOf
<1>3. /\ TypeOK /\ Typed /\ Base /\ StatusAt(x) /\ jobs \in [Workers -> SUBSET Bookings]
  BY <1>2, WorkerOf DEF Typed
<1>4. Moves(p, Idle) /\ \A q \in Procs \ {p} : proc'[q] = proc[q]
  BY <1>1, <1>3, DoneMoves
<1>5. /\ slips' \in [Workers -> SUBSET Slips] /\ \A y \in Workers : slips[y] \subseteq slips'[y]
      /\ proc[p].b = None => "tangled" \in slips'[x]
  <2>1. PICK h \in BOOLEAN : h = (proc[p].b = None)
    OBVIOUS
  <2>2. Slip(x, "tangled", h)
    BY <1>2, <2>1 DEF RenewBooking
  <2>q. QED BY <1>3, <2>1, <2>2, SlipGrows DEF Slips
<1>6. \/ proc[p].b = None /\ \E b \in Bookings : jobs' = [jobs EXCEPT ![x] = @ \cup {b}]
      \/ proc[p].b # None /\ jobs' = jobs
  BY <1>2 DEF RenewBooking
<1>7. /\ jobs' \in [Workers -> SUBSET Bookings] /\ \A y \in Workers : jobs[y] \subseteq jobs'[y]
      /\ \A y \in Workers \ {x} : jobs'[y] = jobs[y]
  BY <1>3, <1>6
<1>8. Typed' /\ Local(p, Idle, x)
  BY <1>1, <1>2, <1>3, <1>4, <1>5, <1>7, IdleTyped DEF Typed, Local, Of, Apart
<1>9. Base'
  <2>1. Handled(Idle)'
    BY IdleTyped DEF Handled
  <2>2. \A q \in Procs \ {p} : proc'[q].b # None => proc'[q].b \in jobs'[proc'[q].w]
    BY <1>3, <1>4, <1>7 DEF Base, Handled, TypeOK, Proc
  <2>q. QED BY <1>3, <1>4, <1>8, <2>1, <2>2, BaseMoves
<1>10. StatusAt(x)'
  <2>1. CASE proc[p].b = None
    BY <1>5, <2>1 DEF StatusAt, Spared
  <2>2. CASE proc[p].b # None
    <3>1. ~ Tells(proc[p], x) /\ ~ Caches(Idle, x) /\ Idle.op = "none" /\ jobs' = jobs
      BY <1>1, <1>6, <2>2, IdleTyped DEF Tells, Caches, Readers
    <3>q. QED BY <1>1, <1>3, <1>4, <1>5, <3>1, StatusQuiet
  <2>q. QED BY <2>1, <2>2
<1>q. QED BY <1>1, <1>5, <1>8, <1>9, <1>10, IdleTyped, BookingStep

\* The handler that accepted or ended a booking says so.
LEMMA SetWorkerStatusStep ==
  ASSUME Inv, NEW p \in Procs, SetWorkerStatus(p) PROVE Inv'
<1>1. /\ proc[p].op \in {"accept", "end"} /\ proc[p].pc = "setStatus" /\ Done(p)
      /\ UNCHANGED <<profile, jobs, index, location, snapshot>>
  BY DEF SetWorkerStatus
<1>2. PICK x \in Workers : x = proc[p].w
  BY WorkerOf
<1>3. /\ TypeOK /\ Typed /\ Base /\ StatusAt(x)
      /\ status \in [Workers -> Availability \cup {None}]
  BY <1>2, WorkerOf DEF Typed
<1>4. PICK new : new = IF proc[p].op = "accept" THEN "busy" ELSE "available"
  OBVIOUS
<1>5. CASE status' = [status EXCEPT ![x] = new] /\ Slip(x, "late", Contradicts(x, new))
  <2>1. Moves(p, Idle) /\ \A q \in Procs \ {p} : proc'[q] = proc[q]
    BY <1>1, <1>3, DoneMoves
  <2>2. /\ slips' \in [Workers -> SUBSET Slips] /\ \A y \in Workers : slips[y] \subseteq slips'[y]
        /\ Contradicts(x, new) => "late" \in slips'[x]
    <3>1. PICK h \in BOOLEAN : h = Contradicts(x, new)
      BY DEF Contradicts
    <3>q. QED BY <1>3, <1>5, <3>1, SlipGrows DEF Slips
  <2>3. Typed' /\ Local(p, Idle, x)
    BY <1>1, <1>2, <1>3, <1>4, <1>5, <2>1, <2>2, IdleTyped DEF Typed, Local, Of, Apart, Availability
  <2>4. Base'
    <3>1. Handled(Idle)
      BY IdleTyped DEF Handled
    <3>q. QED BY <1>1, <1>3, <2>1, <2>3, <3>1, BaseQuiet
  <2>5. StatusAt(x)'
    <3> SUFFICES ASSUME Spared(x, {"fault", "late", "tangled"})' PROVE StatusAt(x)'
      BY DEF StatusAt
    <3>1. Spared(x, {"fault", "late", "tangled"}) /\ ~ Contradicts(x, new)
      BY <2>2 DEF Spared
    <3>2. new = Truth(x) /\ Truth(x)' = Truth(x) /\ status'[x] = new
      BY <1>1, <1>2, <1>3, <1>4, <1>5, <3>1 DEF StatusAt, Truth
    <3>3. proc'[p].op = "none"
      BY <2>1, IdleTyped DEF Moves
    <3>4. \A q \in Procs : Caches(proc'[q], x) => proc'[q].dto.status = Truth(x)'
      BY <2>1, <3>1, <3>2, <3>3 DEF Caches, Contradicts, Readers
    <3>5. \A b \in jobs'[x], c \in jobs'[x] : b = c
      BY <1>1, <1>3, <3>1 DEF StatusAt
    <3>6. \A q \in Procs : proc'[q].w = x =>
            /\ proc'[q].op = "toggle" => jobs'[x] = {}
            /\ proc'[q].op = "accept" => jobs'[x] # {}
            /\ proc'[q].op = "end" /\ proc'[q].pc = "setStatus" => jobs'[x] = {}
      BY <1>1, <1>3, <2>1, <3>1, <3>3 DEF StatusAt
    <3>q. QED BY <3>2, <3>4, <3>5, <3>6 DEF StatusAt, Caches
  <2>q. QED BY <1>1, <1>2, <2>2, <2>3, <2>4, <2>5, IdleTyped, BookingStep
<1>6. CASE Fault(x) /\ UNCHANGED status
  <2>1. /\ slips' \in [Workers -> SUBSET Slips] /\ "fault" \in slips'[x]
        /\ \A y \in Workers : slips[y] \subseteq slips'[y]
    BY <1>3, <1>6, FaultGrows
  <2>2. Typed' /\ Apart(x)
    BY <1>1, <1>3, <1>6, <2>1 DEF Typed, Apart
  <2>q. QED BY <1>1, <1>2, <2>1, <2>2, LostStep
<1>q. QED BY <1>2, <1>4, <1>5, <1>6 DEF SetWorkerStatus

-----------------------------------------------------------------------------
(***************************************************************************)
(* Steps of no handler.                                                    *)
(***************************************************************************)
\* Every handler is the same; the index is not farther from the profile.
LEMMA StillStep ==
  ASSUME Inv, NEW p \in Procs, proc' \in [Procs -> Proc],
         \A q \in Procs : Same(proc'[q], proc[q]),
         profile' = profile, NEW w \in Workers,
         \A c \in Slips \ {"expired"} : c \in slips[w] => c \in slips'[w],
         IndexOk(w) => IndexOk(w)', snapshot'[w] \in {snapshot[w], None},
         \/ jobs'[w] = jobs[w] /\ status'[w] \in {status[w], None}
         \/ "tangled" \in slips'[w]
  PROVE  IndexAt(w)' /\ LiveAt(w)' /\ StatusAt(w)'
<1>1. IndexAt(w) /\ LiveAt(w) /\ StatusAt(w)
  BY DEF Inv
<1>2. PICK v : v = proc'[p]
  OBVIOUS
<1>3. Moves(p, v) /\ Same(v, proc[p])
  BY <1>2 DEF Moves, Others
<1>4. /\ \A c \in {"fault", "crossed"} : c \in slips[w] => c \in slips'[w]
      /\ \A c \in {"fault", "crossed", "late"} : c \in slips[w] => c \in slips'[w]
      /\ \A c \in {"fault", "late", "tangled"} : c \in slips[w] => c \in slips'[w]
  BY DEF Slips
<1>5. IndexAt(w)'
  <2>1. Spared(w, {"fault", "crossed"}) /\ v.op = "search" /\ v.w = w /\ v.quiet =>
          ~ InFlight(Savers, w) /\ profile[w].isActive
    BY <1>1, <1>3 DEF Same, IndexAt
  <2>2. /\ v.op = proc[p].op /\ v.pc = proc[p].pc /\ v.w = proc[p].w
        /\ v.dto = proc[p].dto /\ v.dirty = proc[p].dirty
    BY <1>3 DEF Same
  <2>q. QED BY <1>1, <1>3, <1>4, <2>1, <2>2, IndexKept
<1>6. LiveAt(w)'
  <2>1. Syncing(proc[p], w) => Syncing(v, w)
    BY <1>3 DEF Same, Syncing
  <2>2. Fills(v, w) => Fills(proc[p], w) /\ v.dto.isActive = proc[p].dto.isActive
    BY <1>3 DEF Same, Fills
  <2>3. Spared(w, {"fault", "crossed", "late"}) => (Answers(v, w) => v.dto.isActive)
    BY <1>1, <1>3 DEF Same, Answers, LiveAt
  <2>q. QED BY <1>1, <1>3, <1>4, <2>1, <2>2, <2>3, LiveQuiet
<1>7. StatusAt(w)'
  <2>1. CASE "tangled" \in slips'[w]
    BY <2>1 DEF StatusAt, Spared
  <2>2. CASE jobs'[w] = jobs[w] /\ status'[w] \in {status[w], None}
    <3>1. Tells(proc[p], w) => Tells(v, w)
      BY <1>3 DEF Same, Tells
    <3>2. Spared(w, {"fault", "late", "tangled"}) =>
            (Caches(v, w) => v.dto.status = Truth(w) \/ Told(w))
      BY <1>1, <1>3 DEF Same, Caches, StatusAt
    <3>3. Spared(w, {"fault", "late", "tangled"}) =>
            (v.w = w => /\ v.op = "toggle" => jobs[w] = {}
                        /\ v.op = "accept" => jobs[w] # {}
                        /\ v.op = "end" /\ v.pc = "setStatus" => jobs[w] = {})
      BY <1>1, <1>3 DEF Same, StatusAt
    <3>4. status'[w] \in {status[w], None, Truth(w)}
      BY <2>2
    <3>q. QED BY <1>1, <1>3, <1>4, <2>2, <3>1, <3>2, <3>3, <3>4, StatusQuiet
  <2>q. QED BY <2>1, <2>2
<1>q. QED BY <1>5, <1>6, <1>7

LEMMA SameSelf == \A v : Same(v, v)
BY DEF Same

LEMMA UpdateLocationStep ==
  ASSUME Inv, NEW x \in Workers, UpdateLocation(x) PROVE Inv'
<1>1. /\ UNCHANGED <<profile, jobs, index, snapshot, status, slips, proc>>
      /\ location' = location \cup {x} /\ Base
  BY DEF UpdateLocation, Inv
<1>2. PICK p : p \in Procs
  BY WorkersAssumption
<1>3. \A q \in Procs : Same(proc'[q], proc[q])
  BY <1>1, SameSelf
<1>4. Base'
  BY <1>1 DEF Base, TypeOK, Handled
<1>5. ASSUME NEW w \in Workers PROVE IndexAt(w)' /\ LiveAt(w)' /\ StatusAt(w)'
  <2>1. IndexOk(w) => IndexOk(w)'
    BY <1>1 DEF IndexOk
  <2>2. proc' \in [Procs -> Proc]
    BY <1>1 DEF Base, TypeOK
  <2>q. QED BY <1>1, <1>2, <1>3, <2>1, <2>2, StillStep
<1>q. QED BY <1>4, <1>5 DEF Inv

LEMMA ExpireStep ==
  ASSUME Inv, NEW x \in Workers, Expire(x) PROVE Inv'
<1>1. UNCHANGED <<profile, jobs, proc>> /\ Base /\ TypeOK
  BY DEF Expire, Inv, Base
<1>2. PICK p : p \in Procs
  BY WorkersAssumption
<1>3. /\ \A q \in Procs : Same(proc'[q], proc[q])
      /\ proc' \in [Procs -> Proc]
  BY <1>1, SameSelf DEF TypeOK
<1>4. CASE index' = index /\ slips' = slips
  <2>1. /\ status' \in [Workers -> Availability \cup {None}]
        /\ snapshot' \in [Workers -> Dto \cup {None}] /\ location' \subseteq Workers
        /\ \A w \in Workers : status'[w] \in {status[w], None} /\ snapshot'[w] \in {snapshot[w], None}
    <3>1. CASE status' = [status EXCEPT ![x] = None] /\ UNCHANGED <<location, snapshot>>
      BY <1>1, <3>1 DEF TypeOK
    <3>2. CASE snapshot' = [snapshot EXCEPT ![x] = None] /\ UNCHANGED <<location, status>>
      BY <1>1, <3>2 DEF TypeOK
    <3>3. CASE location' = location \ {x} /\ UNCHANGED <<snapshot, status>>
      BY <1>1, <3>3 DEF TypeOK
    <3>4. CASE UNCHANGED <<location, snapshot, status>>
      BY <1>1, <3>4 DEF TypeOK
    <3>q. QED BY <3>1, <3>2, <3>3, <3>4 DEF Expire
  <2>2. Base'
    BY <1>1, <1>4, <2>1 DEF Base, TypeOK, Handled
  <2>3. ASSUME NEW w \in Workers PROVE IndexAt(w)' /\ LiveAt(w)' /\ StatusAt(w)'
    <3>1. IndexOk(w) => IndexOk(w)'
      BY <1>1, <1>4 DEF IndexOk
    <3>2. status'[w] \in {status[w], None} /\ snapshot'[w] \in {snapshot[w], None}
      BY <2>1
    <3>q. QED BY <1>1, <1>2, <1>3, <1>4, <3>1, <3>2, StillStep
  <2>q. QED BY <2>2, <2>3 DEF Inv
<1>5. CASE /\ index' = {} /\ slips' = [y \in Workers |-> After(y, "expired", y \in index)]
           /\ UNCHANGED <<location, snapshot, status>>
  <2>1. \A w \in Workers : /\ slips[w] \subseteq slips'[w] /\ slips'[w] \in SUBSET Slips
                           /\ w \in index => "expired" \in slips'[w]
    BY <1>1, <1>5 DEF TypeOK, After, Slips
  <2>2. slips' \in [Workers -> SUBSET Slips]
    BY <1>5, <2>1
  <2>3. Base'
    BY <1>1, <1>5, <2>2 DEF Base, TypeOK, Handled
  <2>4. ASSUME NEW w \in Workers PROVE IndexAt(w)' /\ LiveAt(w)' /\ StatusAt(w)'
    <3>1. IndexOk(w) => IndexOk(w)'
      BY <1>1, <1>5, <2>1 DEF IndexOk
    <3>q. QED BY <1>1, <1>2, <1>3, <1>5, <2>1, <3>1, StillStep
  <2>q. QED BY <2>3, <2>4 DEF Inv
<1>q. QED BY <1>4, <1>5 DEF Expire

LEMMA CancelBookingStep ==
  ASSUME Inv, NEW x \in Workers, NEW b \in Bookings, CancelBooking(x, b) PROVE Inv'
<1>1. /\ Base /\ TypeOK /\ jobs' = [jobs EXCEPT ![x] = @ \ {b}] /\ proc' = Ended(x, b)
      /\ UNCHANGED <<profile, index, location, snapshot, status>>
  BY DEF CancelBooking, Inv, Base, redis
<1>2. PICK p : p \in Procs
  BY WorkersAssumption
<1>3. /\ slips' \in [Workers -> SUBSET Slips] /\ \A y \in Workers : slips[y] \subseteq slips'[y]
      /\ "tangled" \in slips'[x]
  BY <1>1, SlipGrows DEF CancelBooking, Slips
<1>4. \A q \in Procs : proc'[q] \in Proc /\ Same(proc'[q], proc[q])
  BY <1>1, EndedMoves
<1>5. proc' \in [Procs -> Proc]
  BY <1>1, <1>4 DEF Ended
<1>6. jobs' \in [Workers -> SUBSET Bookings] /\ \A w \in Workers \ {x} : jobs'[w] = jobs[w]
  BY <1>1 DEF TypeOK
<1>7. Base'
  <2>1. TypeOK'
    BY <1>1, <1>3, <1>5, <1>6 DEF TypeOK
  <2>2. ASSUME NEW q \in Procs PROVE Handled(proc[q])'
    <3>1. proc'[q].b # None => proc'[q].b \in jobs'[proc'[q].w]
      BY <1>1, EndedHolds
    <3>q. QED BY <1>1, <1>4, <3>1 DEF Base, Handled, Same
  <2>q. QED BY <2>1, <2>2 DEF Base
<1>8. ASSUME NEW w \in Workers PROVE IndexAt(w)' /\ LiveAt(w)' /\ StatusAt(w)'
  <2>1. IndexOk(w) => IndexOk(w)'
    BY <1>1, <1>3 DEF IndexOk
  <2>2. jobs'[w] = jobs[w] \/ "tangled" \in slips'[w]
    BY <1>3, <1>6
  <2>q. QED BY <1>1, <1>2, <1>3, <1>4, <1>5, <2>1, <2>2, StillStep
<1>q. QED BY <1>7, <1>8 DEF Inv

-----------------------------------------------------------------------------
(***************************************************************************)
(* The invariant.                                                          *)
(***************************************************************************)
LEMMA InitInv == Init => Inv
<1> SUFFICES ASSUME Init PROVE Inv
  OBVIOUS
<1>1. Base
  BY IdleTyped DEF Init, Base, TypeOK, Handled, Slips
<1>2. \A p \in Procs : proc[p].op = "none" /\ proc[p].pc = "idle"
  BY IdleTyped DEF Init
<1>3. ASSUME NEW w \in Workers PROVE IndexAt(w) /\ LiveAt(w) /\ StatusAt(w)
  <2>1. /\ ~ profile[w].isActive /\ w \notin index /\ snapshot[w] = None /\ status[w] = None
        /\ jobs[w] = {}
    BY DEF Init
  <2>2. IndexAt(w)
    BY <1>2, <2>1 DEF IndexAt, IndexOk, Saves, Savers
  <2>3. LiveAt(w)
    BY <1>2, <2>1 DEF LiveAt, Answers
  <2>4. StatusAt(w)
    BY <1>2, <2>1 DEF StatusAt, Caches
  <2>q. QED BY <2>2, <2>3, <2>4
<1>q. QED BY <1>1, <1>3 DEF Inv

LEMMA StepInv == Inv /\ [Next]_vars => Inv'
<1> SUFFICES ASSUME Inv, [Next]_vars PROVE Inv'
  OBVIOUS
<1>1. CASE UNCHANGED vars
  <2>1. UNCHANGED <<profile, jobs, index, location, snapshot, status, slips, proc>>
    BY <1>1 DEF vars, redis
  <2>2. Base'
    BY <2>1 DEF Inv, Base, TypeOK, Handled
  <2>3. proc' \in [Procs -> Proc] /\ \A q \in Procs : Same(proc'[q], proc[q])
    BY <2>1, SameSelf DEF Inv, Base, TypeOK
  <2>4. \A w \in Workers : IndexOk(w) => IndexOk(w)'
    BY <2>1 DEF IndexOk
  <2>5. PICK p : p \in Procs
    BY WorkersAssumption
  <2>6. \A w \in Workers : IndexAt(w)' /\ LiveAt(w)' /\ StatusAt(w)'
    BY <2>1, <2>3, <2>4, <2>5, StillStep
  <2>q. QED BY <2>2, <2>6 DEF Inv
<1>2. ASSUME NEW p \in Procs, NEW w \in Workers,
             ToggleGoLive(p, w) \/ EditProfile(p, w) \/ GetNearby(p, w) \/ GetById(p, w)
      PROVE  Inv'
  BY <1>2, ToggleGoLiveStep, EditProfileStep, GetNearbyStep, GetByIdStep
<1>3. ASSUME NEW p \in Procs, NEW w \in Workers, NEW b \in Bookings,
             AcceptBooking(p, w, b) \/ FindBooking(p, "end", w, b) \/ FindBooking(p, "renew", w, b)
      PROVE  Inv'
  BY <1>3, AcceptBookingStep, FindBookingStep
<1>4. ASSUME NEW p \in Procs, EndBooking(p) \/ RenewBooking(p) \/ SetWorkerStatus(p) \/ Lose(p)
      PROVE  Inv'
  BY <1>4, EndBookingStep, RenewBookingStep, SetWorkerStatusStep, LoseStep
<1>5. ASSUME NEW p \in Procs, \/ Select(p) \/ Update(p) \/ DelLocation(p) \/ SyncStatus(p)
                              \/ SyncSnapshot(p) \/ SyncIndex(p)
      PROVE  Inv'
  BY <1>5, SelectStep, UpdateStep, DelLocationStep, SyncStatusStep, SyncSnapshotStep, SyncIndexStep
<1>6. ASSUME NEW p \in Procs, \/ GetLocation(p) \/ GetSnapshot(p) \/ ReadProfile(p)
                              \/ GetStatus(p) \/ FindActiveBooking(p) \/ CacheStatus(p)
                              \/ CacheWorkerSnapshot(p) \/ Answer(p)
      PROVE  Inv'
  BY <1>6, GetLocationStep, GetSnapshotStep, ReadProfileStep, GetStatusStep, FindActiveBookingStep,
     CacheStatusStep, CacheWorkerSnapshotStep, AnswerStep
<1>7. ASSUME NEW w \in Workers,
             UpdateLocation(w) \/ Expire(w) \/ \E b \in Bookings : CancelBooking(w, b)
      PROVE  Inv'
  BY <1>7, UpdateLocationStep, ExpireStep, CancelBookingStep
<1>q. QED BY <1>1, <1>2, <1>3, <1>4, <1>5, <1>6, <1>7 DEF Next

\* The inductive invariant: what toggleGoLive's handler still has to write, and what
\* the searches and the handlers of the bookings hold, account for every copy in Redis.
THEOREM Invariance == Spec => []Inv
BY InitInv, StepInv, PTL DEF Spec

\* The tables, the Redis keys and the handlers have their types.
THEOREM TypeCorrect == Spec => []TypeOK
<1>1. Inv => TypeOK
  BY DEF Inv, Base
<1>q. QED BY <1>1, Invariance, PTL

\* A worker whose profile was never saved by two handlers at once, and none of whose
\* writes to Redis failed, is in the skill index when live, until the index expires,
\* and not when off line.
THEOREM IndexIsLive == Spec => []IndexFollowsProfile
<1>1. Inv => IndexFollowsProfile
  BY DEF Inv, IndexAt, IndexOk, IndexFollowsProfile
<1>q. QED BY <1>1, Invariance, PTL

\* getNearby answers with workers who are live, and shows them live.
THEOREM AnswersLive == Spec => []AnswersAreLive
<1> SUFFICES ASSUME Inv PROVE AnswersAreLive
  BY Invariance, PTL
<1>1. ASSUME NEW p \in Procs, NEW x, x = proc[p].w, At(p, "search", "answer"), proc[p].quiet,
             Spared(x, {"fault", "crossed", "late"})
      PROVE  profile[x].isActive /\ proc[p].dto.isActive
  <2>1. IndexAt(x) /\ LiveAt(x)
    BY <1>1, WorkerOf
  <2>2. profile[x].isActive
    BY <1>1, <2>1, QuietIsLive DEF At
  <2>3. proc[p].dto.isActive
    BY <1>1, <2>1 DEF At, LiveAt, Answers
  <2>q. QED BY <2>2, <2>3
<1>q. QED BY <1>1 DEF AnswersAreLive

\* worker:status says what the bookings do, or the handler that corrects it is under way.
THEOREM StatusTruth == Spec => []StatusFollowsJobs
<1> SUFFICES ASSUME Inv PROVE StatusFollowsJobs
  BY Invariance, PTL
<1>1. ASSUME NEW w \in Workers, Spared(w, {"fault", "late", "tangled"})
      PROVE  \/ status[w] \in {None, IF jobs[w] = {} THEN "available" ELSE "busy"}
             \/ \E p \in Procs : /\ At(p, IF jobs[w] = {} THEN "end" ELSE "accept", "setStatus")
                                 /\ proc[p].w = w
  <2>1. status[w] \in {None, Truth(w)} \/ Told(w)
    BY <1>1 DEF Inv, StatusAt
  <2>q. QED BY <2>1 DEF Truth, Told, Tells, At
<1>q. QED BY <1>1 DEF StatusFollowsJobs
=============================================================================
