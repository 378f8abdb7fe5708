---------------------------- MODULE HiringProofs ----------------------------
(***************************************************************************)
(* What TLAPS proves of module Hiring for every set of jobs, talents and   *)
(* applications, every number of handlers in flight and every penalty.     *)
(***************************************************************************)
EXTENDS Hiring, FiniteSetTheorems, TLAPS

InSave(v) == v.pc \in {"select", "update"}

\* save() is only called on a profile that exists, and no profile is deleted.
SaveInv == \A p \in Procs : InSave(proc[p]) => talent[proc[p].t] # None

\* The no-shows reported and not yet counted.
Counts(v, t) == v.op = "move" /\ v.pc = "count" /\ v.t = t
Counting(t) == {p \in Procs : Counts(proc[p], t)}

\* Every count that is stored, or about to be, leaves room for those.
Fits(n, due, reported) == n + Cardinality(due) <= reported
CountInv ==
  /\ \A t \in Talents : IsFiniteSet(Counting(t)) /\ Fits(0, Counting(t), noShows[t])
  /\ \A t \in Profiled : Fits(talent[t].noShowCount, Counting(t), noShows[t])
  /\ \A p \in Procs : InSave(proc[p]) =>
       Fits(proc[p].entity.noShowCount, Counting(proc[p].t), noShows[proc[p].t])

\* While the reported no-shows have not used up the rank, every row and every
\* entity in flight is exact, so that the SELECT of save() finds both columns
\* changed or neither.
Exact(row) == row.searchRank = MaxRank - Penalty * row.noShowCount
Lasts(t) == Penalty * noShows[t] <= MaxRank
Together(v) ==
  /\ Exact(v.entity)
  /\ v.pc = "update" => ("noShowCount" \in v.dirty <=> "searchRank" \in v.dirty)
RankInv ==
  /\ \A t \in Profiled : Lasts(t) => Exact(talent[t])
  /\ \A p \in Procs : InSave(proc[p]) /\ Lasts(proc[p].t) => Together(proc[p])

\* A status is saved only on an application that is there, and none is deleted.
MoveInv == \A p \in Procs : proc[p].pc = "save" => proc[p].a \in Stored /\ proc[p].s # "NONE"

\* The applications to a job by one talent, stored and about to be.
StoredFor(f) == {a \in Stored : For[a] = f}
Applying(f) == {p \in Procs : proc[p].op = "apply" /\ For[proc[p].a] = f}
RaceInv ==
  \A a \in Applications :
    /\ IsFiniteSet(StoredFor(For[a]))
    /\ Cardinality(StoredFor(For[a])) + Cardinality(Applying(For[a])) <= Cardinality(Procs)

-----------------------------------------------------------------------------
\* What the constants give.
LEMMA Constants ==
  /\ SomeApplication \in Applications
  /\ MaxRank \in Nat /\ Penalty \in Nat /\ Penalty > 0
  /\ \A a \in Applications : For[a].applicant \in Talents
BY HiringSetsAssumption, RankAssumption, ForAssumption DEF SomeApplication

LEMMA NewTalentTyped ==
  /\ NewTalent \in TalentProfile /\ NewTalent # None
  /\ DOMAIN NewTalent = {"noShowCount", "searchRank", "jobAlertsEnabled"}
<1>1. NewTalent \in TalentProfile
  BY Constants DEF NewTalent, TalentProfile
<1>2. DOMAIN NewTalent = {"noShowCount", "searchRank", "jobAlertsEnabled"}
  BY DEF NewTalent
<1>q. QED BY <1>1, <1>2, HiringNoneAssumption

\* The states a handler goes through are typed.
LEMMA StartTyped ==
  ASSUME NEW op \in {"none", "apply", "move", "edit"}, NEW a \in Applications,
         NEW t \in Talents,
         NEW pc \in {"idle", "read", "insert", "save", "count", "select", "update"}
  PROVE  /\ Start(op, a, t, pc) \in Proc
         /\ Start(op, a, t, pc).op = op /\ Start(op, a, t, pc).pc = pc
         /\ Start(op, a, t, pc).t = t /\ Start(op, a, t, pc).a = a
<1>1. {} \in SUBSET DOMAIN NewTalent
  OBVIOUS
<1>q. QED BY <1>1, Constants, NewTalentTyped DEF Start, Idle, Proc

LEMMA IdleTyped == Idle \in Proc /\ Idle.pc = "idle" /\ Idle.op = "none"
<1>1. {} \in SUBSET DOMAIN NewTalent
  OBVIOUS
<1>q. QED BY <1>1, Constants, NewTalentTyped DEF Idle, Proc

\* p goes to v and no other handler moves.
Moves(p, v) ==
  /\ v \in Proc /\ proc'[p] = v /\ proc' \in [Procs -> Proc]
  /\ \A q \in Procs \ {p} : proc'[q] = proc[q]

LEMMA DoneMoves ==
  ASSUME TypeOK, NEW p \in Procs, Done(p) PROVE Moves(p, Idle)
BY IdleTyped DEF Done, Moves, TypeOK

LEMMA KeepMoves ==
  ASSUME TypeOK, NEW p \in Procs, NEW e \in TalentProfile,
         NEW pc \in {"select", "update"}, Keep(p, e, pc)
  PROVE  \E v \in Proc : /\ Moves(p, v) /\ v.entity = e /\ v.pc = pc
                         /\ v.t = proc[p].t /\ v.op = proc[p].op /\ v.a = proc[p].a
<1>1. proc \in [Procs -> Proc] /\ proc[p] \in Proc
  BY DEF TypeOK
<1>2. [proc[p] EXCEPT !.entity = e, !.pc = pc] \in Proc
  BY <1>1 DEF Proc
<1>3. Moves(p, [proc[p] EXCEPT !.entity = e, !.pc = pc])
  BY <1>1, <1>2 DEF Moves, Keep
<1>q. QED BY <1>1, <1>2, <1>3 DEF Proc

\* Both counters of a row.
LEMMA RowTyped ==
  ASSUME NEW row \in TalentProfile
  PROVE  /\ row.noShowCount \in Nat /\ row.searchRank \in Nat
         /\ row.jobAlertsEnabled \in BOOLEAN /\ DOMAIN row = DOMAIN NewTalent
BY NewTalentTyped DEF TalentProfile

LEMMA LoweredTyped ==
  ASSUME NEW rank \in Nat
  PROVE  /\ Lowered(rank) \in Nat
         /\ rank >= Penalty => Lowered(rank) = rank - Penalty
BY Constants DEF Lowered

\* The row after an UPDATE.
LEMMA UpdatedTyped ==
  ASSUME NEW row \in TalentProfile, NEW e \in TalentProfile, NEW cols
  PROVE  /\ Updated(row, e, cols) \in TalentProfile
         /\ Updated(row, e, cols).noShowCount =
              IF "noShowCount" \in cols THEN e.noShowCount ELSE row.noShowCount
         /\ Updated(row, e, cols).searchRank =
              IF "searchRank" \in cols THEN e.searchRank ELSE row.searchRank
<1>1. DOMAIN row = {"noShowCount", "searchRank", "jobAlertsEnabled"}
  BY NewTalentTyped, RowTyped
<1>q. QED BY <1>1 DEF Updated, TalentProfile

\* Within the rank, two exact rows have the same count when they have the same rank.
LEMMA ExactRows ==
  ASSUME NEW row \in TalentProfile, NEW e \in TalentProfile, Exact(row), Exact(e)
  PROVE  row.noShowCount = e.noShowCount <=> row.searchRank = e.searchRank
<1>1. PICK m \in Nat, n \in Nat : m = row.noShowCount /\ n = e.noShowCount
  BY RowTyped
<1>2. m = n \/ m >= n + 1 \/ n >= m + 1
  BY <1>1
<1>3. m >= n + 1 => Penalty * m >= Penalty * n + Penalty
  BY <1>1, Constants
<1>4. n >= m + 1 => Penalty * n >= Penalty * m + Penalty
  BY <1>1, Constants
<1>5. PICK x \in Nat, y \in Nat : x = Penalty * m /\ y = Penalty * n
  BY <1>1, Constants
<1>6. row.searchRank = MaxRank - x /\ e.searchRank = MaxRank - y
  BY <1>1, <1>5 DEF Exact
<1>7. m = n <=> x = y
  <2>1. (m >= n + 1 => x >= y + Penalty) /\ (n >= m + 1 => y >= x + Penalty)
    BY <1>3, <1>4, <1>5
  <2>2. m = n => x = y
    BY <1>5
  <2>q. QED BY <1>1, <1>2, <1>5, <2>1, <2>2, Constants
<1>q. QED BY <1>1, <1>5, <1>6, <1>7, Constants

\* Two sets that differ in one element at most.
LEMMA OneElement ==
  ASSUME NEW S, NEW T, NEW p, IsFiniteSet(S), T \ {p} = S \ {p}
  PROVE  /\ IsFiniteSet(T) /\ Cardinality(S) \in Nat /\ Cardinality(T) \in Nat
         /\ (p \in S <=> p \in T) => Cardinality(T) = Cardinality(S)
         /\ p \notin S /\ p \in T => Cardinality(T) = Cardinality(S) + 1
         /\ p \in S /\ p \notin T => Cardinality(T) = Cardinality(S) - 1
<1>1. IsFiniteSet(S \ {p}) /\ Cardinality(S) \in Nat
  BY FS_RemoveElement, FS_CardinalityType
<1>2. CASE p \in T
  <2>1. T = (S \ {p}) \cup {p}
    BY <1>2
  <2>2. /\ IsFiniteSet(T)
        /\ Cardinality(T) = Cardinality(S \ {p}) + 1
    BY <1>1, <2>1, FS_AddElement
  <2>q. QED BY <1>1, <1>2, <2>2, FS_RemoveElement, FS_CardinalityType
<1>3. CASE p \notin T
  <2>1. T = S \ {p}
    BY <1>3
  <2>q. QED BY <1>1, <1>3, <2>1, FS_RemoveElement, FS_CardinalityType
<1>q. QED BY <1>2, <1>3

-----------------------------------------------------------------------------
(***************************************************************************)
(* How a step that moves p to v bears on each part of the invariant.       *)
(***************************************************************************)

\* The no-shows yet to be counted.
LEMMA CountingMoves ==
  ASSUME NEW p \in Procs, NEW v, Moves(p, v), NEW t, IsFiniteSet(Counting(t))
  PROVE  /\ IsFiniteSet(Counting(t)') /\ Cardinality(Counting(t)) \in Nat
         /\ Cardinality(Counting(t)') \in Nat
         /\ ~ Counts(v, t) =>
              Cardinality(Counting(t)') =
                Cardinality(Counting(t)) - (IF Counts(proc[p], t) THEN 1 ELSE 0)
         /\ Cardinality(Counting(t)') <= Cardinality(Counting(t)) + 1
<1>1. Counting(t)' \ {p} = Counting(t) \ {p}
  BY DEF Counting, Counts, Moves
<1>2. /\ p \in Counting(t) <=> Counts(proc[p], t)
      /\ p \in Counting(t)' <=> Counts(v, t)
  BY DEF Counting, Moves, Counts
<1>3. PICK S, T : S = Counting(t) /\ T = Counting(t)'
  OBVIOUS
<1>4. /\ IsFiniteSet(T) /\ Cardinality(S) \in Nat /\ Cardinality(T) \in Nat
      /\ (p \in S <=> p \in T) => Cardinality(T) = Cardinality(S)
      /\ p \notin S /\ p \in T => Cardinality(T) = Cardinality(S) + 1
      /\ p \in S /\ p \notin T => Cardinality(T) = Cardinality(S) - 1
  BY <1>1, <1>3, OneElement
<1>q. QED BY <1>2, <1>3, <1>4

\* When nothing new is reported, what had room keeps it; the handler that
\* counts makes room for one more.
LEMMA RoomStays ==
  ASSUME TypeOK, CountInv, NEW p \in Procs, NEW v, Moves(p, v), noShows' = noShows,
         ~ (v.op = "move" /\ v.pc = "count"), NEW t \in Talents
  PROVE  /\ IsFiniteSet(Counting(t)')
         /\ \A n \in Nat : Fits(n, Counting(t), noShows[t]) =>
              /\ Fits(n, Counting(t)', noShows'[t])
              /\ Counts(proc[p], t) => Fits(n + 1, Counting(t)', noShows'[t])
<1>1. IsFiniteSet(Counting(t)) /\ noShows[t] \in Nat /\ ~ Counts(v, t)
  BY DEF CountInv, TypeOK, Counts
<1>2. PICK i \in Nat, j \in Nat : /\ i = Cardinality(Counting(t)) /\ j = Cardinality(Counting(t)')
                                  /\ j = i - (IF Counts(proc[p], t) THEN 1 ELSE 0)
                                  /\ IsFiniteSet(Counting(t)')
  BY <1>1, CountingMoves
<1>q. QED BY <1>1, <1>2 DEF Fits

LEMMA CountStays ==
  ASSUME TypeOK, CountInv, NEW p \in Procs, NEW v, Moves(p, v), noShows' = noShows,
         ~ (v.op = "move" /\ v.pc = "count"), 
         \A t \in Talents : talent'[t] # None =>
           talent'[t].noShowCount \in Nat
             /\ Fits(talent'[t].noShowCount, Counting(t), noShows[t]),
         InSave(v) => /\ v.entity.noShowCount \in Nat /\ v.t \in Talents
                      /\ \/ Fits(v.entity.noShowCount, Counting(v.t), noShows[v.t])
                         \/ /\ Counts(proc[p], v.t)
                            /\ \E n \in Nat : /\ v.entity.noShowCount = n + 1
                                              /\ Fits(n, Counting(v.t), noShows[v.t])
  PROVE  CountInv'
<1>1. \A t \in Talents : IsFiniteSet(Counting(t)') /\ Fits(0, Counting(t)', noShows'[t])
  BY RoomStays DEF CountInv
<1>2. ASSUME NEW t \in Talents, talent'[t] # None
      PROVE  Fits(talent'[t].noShowCount, Counting(t)', noShows'[t])
  <2>1. PICK n \in Nat : n = talent'[t].noShowCount /\ Fits(n, Counting(t), noShows[t])
    BY <1>2
  <2>q. QED BY <2>1, RoomStays
<1>3. ASSUME NEW q \in Procs, InSave(proc'[q])
      PROVE  Fits(proc'[q].entity.noShowCount, Counting(proc[q].t)', noShows'[proc'[q].t])
  <2>1. CASE q = p
    <3>1. proc'[q] = v
      BY <2>1 DEF Moves
    <3>2. PICK t \in Talents : t = v.t
      BY <1>3, <3>1
    <3>3. Fits(v.entity.noShowCount, Counting(t)', noShows'[t])
      BY <1>3, <3>1, <3>2, RoomStays
    <3>q. QED BY <3>1, <3>2, <3>3 DEF Counting, Counts
  <2>2. CASE q # p
    <3>1. proc'[q] = proc[q] /\ proc[q] \in Proc
      BY <2>2 DEF Moves, TypeOK
    <3>2. PICK t \in Talents : t = proc[q].t
      BY <3>1 DEF Proc
    <3>3. proc[q].entity.noShowCount \in Nat
      BY <3>1, RowTyped DEF Proc
    <3>4. Fits(proc[q].entity.noShowCount, Counting(t), noShows[t])
      BY <1>3, <3>1, <3>2 DEF CountInv
    <3>5. Fits(proc[q].entity.noShowCount, Counting(t)', noShows'[t])
      BY <3>3, <3>4, RoomStays
    <3>q. QED BY <3>1, <3>2, <3>5 DEF Counting, Counts
  <2>q. QED BY <2>1, <2>2
<1>q. QED BY <1>1, <1>2, <1>3 DEF CountInv, Profiled

LEMMA RankStays ==
  ASSUME TypeOK, RankInv, NEW p \in Procs, NEW v, Moves(p, v),
         \A t \in Talents : Lasts(t)' => Lasts(t),
         \A t \in Talents : talent'[t] # None /\ Lasts(t) => Exact(talent'[t]),
         InSave(v) /\ Lasts(v.t) => Together(v)
  PROVE  RankInv'
<1>1. ASSUME NEW t \in Talents, talent'[t] # None, Lasts(t)' PROVE Exact(talent'[t])
  BY <1>1
<1>2. ASSUME NEW q \in Procs, InSave(proc'[q]), Lasts(proc[q].t)' PROVE Together(proc'[q])
  <2>1. proc'[q] \in Proc /\ proc'[q].t \in Talents
    BY DEF Moves, Proc
  <2>2. PICK t \in Talents : t = proc'[q].t
    BY <2>1
  <2>3. Lasts(t)'
    BY <1>2, <2>2 DEF Lasts
  <2>4. CASE q = p
    BY <1>2, <2>2, <2>3, <2>4 DEF Moves
  <2>5. CASE q # p
    BY <1>2, <2>2, <2>3, <2>5 DEF Moves, RankInv
  <2>q. QED BY <2>4, <2>5
<1>q. QED BY <1>1, <1>2 DEF RankInv, Profiled

\* The applications about to be stored, when p's handler does not begin one.
LEMMA RaceStays ==
  ASSUME RaceInv, NEW p \in Procs, NEW v, Moves(p, v), v.op # "apply",
         application' \in [Applications -> ApplicationStatus \cup {"NONE"}],
         \A a \in Applications : a \in Stored' =>
           a \in Stored \/ (proc[p].op = "apply" /\ a = proc[p].a),
         Stored \subseteq Stored'
  PROVE  RaceInv'
<1> SUFFICES ASSUME NEW a \in Applications
             PROVE  /\ IsFiniteSet(StoredFor(For[a])')
                    /\ Cardinality(StoredFor(For[a])') + Cardinality(Applying(For[a])')
                         <= Cardinality(Procs)
  BY DEF RaceInv
<1>1. PICK f : f = For[a]
  OBVIOUS
<1>2. PICK S, T, X, Y : /\ S = StoredFor(f) /\ T = StoredFor(f)'
                        /\ X = Applying(f) /\ Y = Applying(f)'
  OBVIOUS
<1>3. IsFiniteSet(S) /\ Cardinality(S) + Cardinality(X) <= Cardinality(Procs)
  BY <1>1, <1>2 DEF RaceInv
<1>4. IsFiniteSet(X) /\ Cardinality(X) \in Nat /\ Cardinality(Procs) \in Nat
  <2>1. X \subseteq Procs
    BY <1>2 DEF Applying
  <2>q. QED BY <2>1, HiringSetsAssumption, FS_Subset, FS_CardinalityType
<1>5. Y \ {p} = X \ {p} /\ p \notin Y /\ (p \in X <=> proc[p].op = "apply" /\ For[proc[p].a] = f)
  BY <1>2 DEF Applying, Moves
<1>6. Cardinality(Y) = Cardinality(X) - (IF p \in X THEN 1 ELSE 0) /\ Cardinality(Y) \in Nat
  BY <1>4, <1>5, OneElement
<1>7. S \subseteq T
  BY <1>2 DEF StoredFor
<1>8. CASE p \in X
  <2>1. PICK x : x = proc[p].a
    OBVIOUS
  <2>2. T \ {x} = S \ {x}
    <3>1. \A y \in T : y \in S \/ y = x
      BY <1>2, <2>1 DEF StoredFor, Stored
    <3>q. QED BY <1>7, <3>1
  <2>3. Cardinality(T) <= Cardinality(S) + 1 /\ IsFiniteSet(T)
        /\ Cardinality(S) \in Nat /\ Cardinality(T) \in Nat
    <3>1. /\ IsFiniteSet(T) /\ Cardinality(S) \in Nat /\ Cardinality(T) \in Nat
          /\ (x \in S <=> x \in T) => Cardinality(T) = Cardinality(S)
          /\ x \notin S /\ x \in T => Cardinality(T) = Cardinality(S) + 1
      BY <1>3, <2>2, OneElement
    <3>2. (x \in S <=> x \in T) \/ (x \notin S /\ x \in T)
      BY <1>7
    <3>q. QED BY <3>1, <3>2
  <2>q. QED BY <1>1, <1>2, <1>3, <1>4, <1>6, <1>8, <2>3
<1>9. CASE p \notin X
  <2>1. T = S
    <3>1. \A y \in T : y \in S
      BY <1>2, <1>5, <1>9 DEF StoredFor, Stored
    <3>q. QED BY <1>7, <3>1
  <2>q. QED BY <1>1, <1>2, <1>3, <1>4, <1>6, <1>9, <2>1
<1>q. QED BY <1>8, <1>9

\* SaveInv and the types.
LEMMA TypeStays ==
  ASSUME TypeOK, SaveInv, NEW p \in Procs, NEW v, Moves(p, v),
         application' \in [Applications -> ApplicationStatus \cup {"NONE"}],
         talent' \in [Talents -> TalentProfile \cup {None}],
         noShows' \in [Talents -> Nat],
         \A t \in Talents : talent[t] # None => talent'[t] # None,
         InSave(v) => talent'[v.t] # None
  PROVE  TypeOK' /\ SaveInv'
<1>1. TypeOK'
  BY DEF TypeOK, Moves
<1>2. ASSUME NEW q \in Procs, InSave(proc'[q]) PROVE talent'[proc'[q].t] # None
  <2>1. CASE q = p
    BY <1>2, <2>1 DEF Moves
  <2>2. CASE q # p
    <3>1. proc'[q] = proc[q] /\ proc[q].t \in Talents
      BY <2>2 DEF Moves, TypeOK, Proc
    <3>q. QED BY <1>2, <3>1 DEF SaveInv
  <2>q. QED BY <2>1, <2>2
<1>q. QED BY <1>1, <1>2 DEF SaveInv

\* A step that leaves the profiles alone and takes the handler neither to save()
\* nor to recordNoShow.
LEMMA ProfilesStay ==
  ASSUME TypeOK, CountInv, RankInv, NEW p \in Procs, NEW v, Moves(p, v),
         ~ InSave(v), v.pc # "count", UNCHANGED <<talent, noShows>>
  PROVE  CountInv' /\ RankInv'
<1>1. \A t \in Talents : talent'[t] # None =>
         talent'[t].noShowCount \in Nat
           /\ Fits(talent'[t].noShowCount, Counting(t), noShows[t])
  BY RowTyped DEF CountInv, Profiled, TypeOK
<1>2. \A t \in Talents : Lasts(t)' => Lasts(t)
  BY DEF Lasts
<1>3. \A t \in Talents : talent'[t] # None /\ Lasts(t) => Exact(talent'[t])
  BY DEF RankInv, Profiled
<1>q. QED BY <1>1, <1>2, <1>3, CountStays, RankStays

Inv == TypeOK /\ SaveInv /\ CountInv /\ RankInv /\ RaceInv

\* A step that leaves the profiles alone and does not take the handler to
\* save(), to recordNoShow or to an INSERT of an application.
LEMMA Quiet ==
  ASSUME Inv, NEW p \in Procs, NEW v, Moves(p, v),
         ~ InSave(v), v.pc # "count", v.op # "apply",
         UNCHANGED <<application, talent, noShows>>
  PROVE  Inv'
<1>1. TypeOK /\ SaveInv /\ CountInv /\ RankInv /\ RaceInv
  BY DEF Inv
<1>2. /\ application \in [Applications -> ApplicationStatus \cup {"NONE"}]
      /\ talent \in [Talents -> TalentProfile \cup {None}] /\ noShows \in [Talents -> Nat]
  BY <1>1 DEF TypeOK
<1>3. TypeOK' /\ SaveInv'
  BY <1>1, <1>2, TypeStays
<1>4. CountInv' /\ RankInv'
  BY <1>1, ProfilesStay
<1>6. RaceInv'
  <2>1. Stored' = Stored
    BY DEF Stored
  <2>q. QED BY <1>1, <1>2, <2>1, RaceStays
<1>q. QED BY <1>3, <1>4, <1>6 DEF Inv

-----------------------------------------------------------------------------
(***************************************************************************)
(* The actions.                                                            *)
(***************************************************************************)

LEMMA InitInv == Init => Inv
<1> SUFFICES ASSUME Init PROVE Inv
  OBVIOUS
<1>1. TypeOK /\ SaveInv
  BY IdleTyped DEF Init, TypeOK, SaveInv, InSave
<1>2. Profiled = {} /\ Stored = {} /\ \A p \in Procs : proc[p] = Idle
  BY DEF Init, Profiled, Stored
<1>3. CountInv
  <2>1. \A t \in Talents : Counting(t) = {} /\ noShows[t] = 0
    BY <1>2, IdleTyped DEF Init, Counting, Counts
  <2>2. \A t \in Talents : IsFiniteSet(Counting(t)) /\ Fits(0, Counting(t), noShows[t])
    BY <2>1, FS_EmptySet DEF Fits
  <2>q. QED BY <1>2, <2>2, IdleTyped DEF CountInv, InSave
<1>4. RankInv
  BY <1>2, IdleTyped DEF RankInv, InSave
<1>5. RaceInv
  <2>1. \A f : StoredFor(f) = {} /\ Applying(f) = {}
    BY <1>2, IdleTyped DEF StoredFor, Applying
  <2>2. Cardinality(Procs) \in Nat
    BY HiringSetsAssumption, FS_CardinalityType
  <2>q. QED BY <2>1, <2>2, FS_EmptySet DEF RaceInv
<1>q. QED BY <1>1, <1>3, <1>4, <1>5 DEF Inv

\* A new application is begun only when none is stored: the handlers that are
\* about to store one are all there is.
LEMMA ApplyStep ==
  ASSUME Inv, NEW p \in Procs, NEW a \in Applications, ApplyForJob(p, a) PROVE Inv'
<1> DEFINE v == Start("apply", a, For[a].applicant, "insert")
<1>1. /\ v \in Proc /\ v.op = "apply" /\ v.pc = "insert" /\ v.a = a
      /\ UNCHANGED <<application, talent, noShows>> /\ proc[p] = Idle
      /\ \A x \in Stored : For[x] # For[a]
  BY StartTyped, Constants DEF ApplyForJob
<1>2. Moves(p, v)
  BY <1>1 DEF Moves, ApplyForJob, Inv, TypeOK
<1> HIDE DEF v
<1>3. TypeOK /\ SaveInv /\ CountInv /\ RankInv /\ RaceInv
  BY DEF Inv
<1>4. TypeOK' /\ SaveInv'
  BY <1>1, <1>2, <1>3, TypeStays DEF TypeOK, InSave
<1>5. CountInv' /\ RankInv'
  BY <1>1, <1>2, <1>3, ProfilesStay DEF InSave
<1>7. RaceInv'
  <2> SUFFICES ASSUME NEW b \in Applications
               PROVE  /\ IsFiniteSet(StoredFor(For[b])')
                      /\ Cardinality(StoredFor(For[b])') + Cardinality(Applying(For[b])')
                           <= Cardinality(Procs)
    BY DEF RaceInv
  <2>1. StoredFor(For[b])' = StoredFor(For[b])
    BY <1>1 DEF StoredFor, Stored
  <2>2. CASE For[b] = For[a]
    <3>1. StoredFor(For[b])' = {}
      BY <1>1, <2>1, <2>2 DEF StoredFor
    <3>2. Applying(For[b])' \subseteq Procs
      BY DEF Applying
    <3>q. QED BY <3>1, <3>2, HiringSetsAssumption, FS_EmptySet, FS_Subset, FS_CardinalityType
  <2>3. CASE For[b] # For[a]
    <3>1. Applying(For[b])' = Applying(For[b])
      BY <1>1, <1>2, <2>3, IdleTyped DEF Applying, Moves
    <3>q. QED BY <1>3, <2>1, <3>1 DEF RaceInv
  <2>q. QED BY <2>2, <2>3
<1>q. QED BY <1>4, <1>5, <1>7 DEF Inv

LEMMA InsertStep ==
  ASSUME Inv, NEW p \in Procs, InsertApplication(p) PROVE Inv'
<1>1. TypeOK /\ SaveInv /\ CountInv /\ RankInv /\ RaceInv
  BY DEF Inv
<1>2. Moves(p, Idle) /\ UNCHANGED <<talent, noShows>>
  BY <1>1, DoneMoves DEF InsertApplication
<1>3. /\ proc[p].op = "apply"
      /\ application' = [application EXCEPT ![proc[p].a] = "APPLIED"]
      /\ application \in [Applications -> ApplicationStatus \cup {"NONE"}]
      /\ application' \in [Applications -> ApplicationStatus \cup {"NONE"}]
  BY <1>1 DEF InsertApplication, At, TypeOK, ApplicationStatus
<1>4. TypeOK' /\ SaveInv'
  BY <1>1, <1>2, <1>3, TypeStays, IdleTyped DEF TypeOK, InSave
<1>5. CountInv' /\ RankInv'
  BY <1>1, <1>2, ProfilesStay, IdleTyped DEF InSave
<1>7. RaceInv'
  <2>1. /\ \A a \in Applications : a \in Stored' =>
             a \in Stored \/ (proc[p].op = "apply" /\ a = proc[p].a)
        /\ Stored \subseteq Stored'
    BY <1>3 DEF Stored
  <2>q. QED BY <1>1, <1>2, <1>3, <2>1, RaceStays, IdleTyped
<1>q. QED BY <1>4, <1>5, <1>7 DEF Inv

\* The handlers that end, or get as far as the insert of a profile.
LEMMA DoneStep ==
  ASSUME Inv, NEW p \in Procs, Done(p), UNCHANGED <<application, talent, noShows>>
  PROVE  Inv'
<1>1. Moves(p, Idle)
  BY DoneMoves DEF Inv
<1>q. QED BY <1>1, IdleTyped, Quiet DEF InSave

\* A move reads its application.
LEMMA MoveStep ==
  ASSUME Inv, NEW p \in Procs, NEW a \in Applications, NEW s \in ApplicationStatus,
         UpdateApplicationStatus(p, a, s)
  PROVE  Inv'
<1> DEFINE w == Start("move", a, For[a].applicant, "save")
           v == [w EXCEPT !.s = s]
<1>1. w \in Proc /\ w.op = "move" /\ w.pc = "save"
  BY StartTyped, Constants
<1> HIDE DEF w
<1>2. v \in Proc /\ v.op = "move" /\ v.pc = "save"
  BY <1>1 DEF Proc
<1>3. proc' = [proc EXCEPT ![p] = v]
  BY DEF UpdateApplicationStatus, w
<1> HIDE DEF v
<1>4. Moves(p, v)
  BY <1>2, <1>3 DEF Moves, Inv, TypeOK
<1>q. QED BY <1>2, <1>4, Quiet DEF UpdateApplicationStatus, InSave

\* A move to NO_SHOW is reported and still to be counted: the same room.
LEMMA SaveStep ==
  ASSUME Inv, MoveInv, NEW p \in Procs, SaveApplication(p) PROVE Inv'
<1>1. TypeOK /\ SaveInv /\ CountInv /\ RankInv /\ RaceInv
  BY DEF Inv
<1>0. PICK a \in Applications, s \in ApplicationStatus : a = proc[p].a /\ s = proc[p].s
  BY <1>1 DEF SaveApplication, At, MoveInv, TypeOK, Proc
<1>2. /\ proc[p].op = "move" /\ proc[p].pc = "save" /\ UNCHANGED talent /\ a \in Stored
      /\ application' = [application EXCEPT ![a] = s]
      /\ application' \in [Applications -> ApplicationStatus \cup {"NONE"}]
  BY <1>0, <1>1 DEF SaveApplication, At, MoveInv, TypeOK
<1>3. Stored' = Stored
  <2>1. s # "NONE"
    BY DEF ApplicationStatus
  <2>q. QED BY <1>1, <1>2, <2>1 DEF Stored, TypeOK
<1>4. CASE s # "NO_SHOW"
  <2>1. Moves(p, Idle) /\ UNCHANGED noShows
    BY <1>0, <1>1, <1>4, DoneMoves DEF SaveApplication
  <2>2. CountInv' /\ RankInv'
    BY <1>1, <1>2, <2>1, ProfilesStay, IdleTyped DEF InSave
  <2>3. TypeOK' /\ SaveInv'
    BY <1>1, <1>2, <2>1, TypeStays, IdleTyped DEF TypeOK, InSave
  <2>4. RaceInv'
    BY <1>1, <1>2, <1>3, <2>1, RaceStays, IdleTyped
  <2>q. QED BY <2>2, <2>3, <2>4 DEF Inv
<1>5. CASE s = "NO_SHOW"
  <2> DEFINE v == Start("move", a, For[a].applicant, "count")
  <2>1. PICK t \in Talents : t = For[a].applicant
    BY Constants
  <2>2. v \in Proc /\ v.op = "move" /\ v.pc = "count" /\ v.t = t /\ v.a = a
    BY <2>1, StartTyped
  <2>3. Moves(p, v)
    BY <1>0, <1>1, <1>5, <2>2 DEF SaveApplication, Moves, TypeOK
  <2>4. /\ noShows' = [noShows EXCEPT ![t] = @ + 1] /\ noShows \in [Talents -> Nat]
        /\ noShows' \in [Talents -> Nat]
        /\ noShows'[t] = noShows[t] + 1 /\ noShows[t] \in Nat
        /\ \A x \in Talents \ {t} : noShows'[x] = noShows[x]
    BY <1>0, <1>1, <1>5, <2>1 DEF SaveApplication, TypeOK
  <2> HIDE DEF v
  <2>5. TypeOK' /\ SaveInv'
    BY <1>1, <1>2, <2>2, <2>3, <2>4, TypeStays DEF TypeOK, InSave
  <2>6. \A x \in Talents :
          /\ IsFiniteSet(Counting(x)')
          /\ \A n \in Nat : Fits(n, Counting(x), noShows[x]) =>
               Fits(n, Counting(x)', noShows'[x])
    <3> SUFFICES ASSUME NEW x \in Talents
                 PROVE  /\ IsFiniteSet(Counting(x)')
                        /\ \A n \in Nat : Fits(n, Counting(x), noShows[x]) =>
                             Fits(n, Counting(x)', noShows'[x])
      OBVIOUS
    <3>1. IsFiniteSet(Counting(x)) /\ noShows[x] \in Nat
      BY <1>1, <2>4 DEF CountInv
    <3>2. ~ Counts(proc[p], x) /\ (x # t => ~ Counts(v, x))
      BY <1>2, <2>2, IdleTyped DEF Counts
    <3>3. PICK i \in Nat, j \in Nat :
            /\ i = Cardinality(Counting(x)) /\ j = Cardinality(Counting(x)')
            /\ j <= i + 1 /\ (x # t => j = i) /\ IsFiniteSet(Counting(x)')
      BY <2>3, <3>1, <3>2, CountingMoves
    <3>q. QED BY <2>4, <3>1, <3>3 DEF Fits
  <2>7. CountInv'
    <3>1. \A x \in Talents : IsFiniteSet(Counting(x)') /\ Fits(0, Counting(x)', noShows'[x])
      BY <1>1, <2>6 DEF CountInv
    <3>2. \A x \in Talents : talent'[x] # None =>
            Fits(talent'[x].noShowCount, Counting(x)', noShows'[x])
      BY <1>1, <1>2, <2>6, RowTyped DEF CountInv, Profiled, TypeOK
    <3>3. ASSUME NEW q \in Procs, InSave(proc'[q])
          PROVE  Fits(proc'[q].entity.noShowCount, Counting(proc[q].t)', noShows'[proc'[q].t])
      <4>1. proc'[q] = proc[q] /\ proc[q] \in Proc
        BY <1>1, <2>2, <2>3, <3>3 DEF Moves, InSave, TypeOK
      <4>2. PICK x \in Talents : x = proc[q].t
        BY <4>1 DEF Proc
      <4>3. proc[q].entity.noShowCount \in Nat
        BY <4>1, RowTyped DEF Proc
      <4>4. Fits(proc[q].entity.noShowCount, Counting(x)', noShows'[x])
        BY <1>1, <2>6, <3>3, <4>1, <4>2, <4>3 DEF CountInv
      <4>q. QED BY <4>1, <4>2, <4>4 DEF Counting, Counts
    <3>q. QED BY <3>1, <3>2, <3>3 DEF CountInv, Profiled
  <2>8. RankInv'
    <3>1. ASSUME NEW x \in Talents, Lasts(x)' PROVE Lasts(x)
      <4>1. PICK m \in Nat, n \in Nat : m = noShows[x] /\ n = noShows'[x] /\ m <= n
        BY <2>4
      <4>2. Penalty * m <= Penalty * n
        BY <4>1, Constants
      <4>3. PICK y \in Nat, z \in Nat : y = Penalty * m /\ z = Penalty * n
        BY <4>1, Constants
      <4>q. QED BY <3>1, <4>1, <4>2, <4>3, Constants DEF Lasts
    <3>2. \A x \in Talents : talent'[x] # None /\ Lasts(x) => Exact(talent'[x])
      BY <1>1, <1>2 DEF RankInv, Profiled
    <3>q. QED BY <1>1, <2>2, <2>3, <3>1, <3>2, RankStays DEF InSave
  <2>9. RaceInv'
    BY <1>1, <1>2, <1>3, <2>2, <2>3, RaceStays
  <2>q. QED BY <2>5, <2>7, <2>8, <2>9 DEF Inv
<1>q. QED BY <1>4, <1>5

\* A handler takes an entity e to save(): what is stored stays.
LEMMA KeepStep ==
  ASSUME Inv, NEW p \in Procs, NEW e \in TalentProfile, NEW v \in Proc, Moves(p, v),
         v.entity = e, v.pc = "select", v.t = proc[p].t, v.op \in {"move", "edit"},
         UNCHANGED <<application, noShows>>,
         talent' \in [Talents -> TalentProfile \cup {None}],
         talent'[v.t] # None,
         \A t \in Talents : talent[t] # None => talent'[t] = talent[t],
         \A t \in Talents : talent[t] = None => talent'[t] \in {None, NewTalent},
         \/ Fits(e.noShowCount, Counting(v.t), noShows[v.t])
         \/ /\ Counts(proc[p], v.t)
            /\ \E n \in Nat : e.noShowCount = n + 1 /\ Fits(n, Counting(v.t), noShows[v.t]),
         Lasts(v.t) => Exact(e)
  PROVE  Inv'
<1>1. TypeOK /\ SaveInv /\ CountInv /\ RankInv /\ RaceInv
  BY DEF Inv
<1>2. v.t \in Talents /\ InSave(v)
  BY DEF Proc, InSave
<1>3. TypeOK' /\ SaveInv'
  BY <1>1, TypeStays DEF TypeOK
<1>4. CountInv'
  <2>1. \A t \in Talents : talent'[t] # None =>
          talent'[t].noShowCount \in Nat
            /\ Fits(talent'[t].noShowCount, Counting(t), noShows[t])
    <3> SUFFICES ASSUME NEW t \in Talents, talent'[t] # None
                 PROVE  talent'[t].noShowCount \in Nat
                          /\ Fits(talent'[t].noShowCount, Counting(t), noShows[t])
      OBVIOUS
    <3>1. CASE talent[t] = None
      <4>1. talent'[t].noShowCount = 0
        BY <3>1 DEF NewTalent
      <4>q. QED BY <1>1, <4>1 DEF CountInv
    <3>2. CASE talent[t] # None
      BY <1>1, <3>2, RowTyped DEF CountInv, Profiled, TypeOK
    <3>q. QED BY <3>1, <3>2
  <2>2. e.noShowCount \in Nat
    BY RowTyped
  <2>q. QED BY <1>1, <1>2, <2>1, <2>2, CountStays
<1>5. RankInv'
  <2>1. \A t \in Talents : Lasts(t)' => Lasts(t)
    BY DEF Lasts
  <2>2. Exact(NewTalent)
    <3>1. Penalty * 0 = 0
      BY Constants
    <3>q. QED BY <3>1, Constants DEF Exact, NewTalent
  <2>3. \A t \in Talents : talent'[t] # None /\ Lasts(t) => Exact(talent'[t])
    BY <1>1, <2>2 DEF RankInv, Profiled
  <2>4. Lasts(v.t) => Together(v)
    BY DEF Together
  <2>q. QED BY <1>1, <2>1, <2>3, <2>4, RankStays
<1>6. RaceInv'
  <2>1. Stored' = Stored /\ v.op # "apply"
    BY DEF Stored
  <2>q. QED BY <1>1, <2>1, RaceStays DEF TypeOK
<1>q. QED BY <1>3, <1>4, <1>5, <1>6 DEF Inv

\* recordNoShow counts one of the no-shows still to be counted.
LEMMA RecordStep ==
  ASSUME Inv, NEW p \in Procs, RecordNoShow(p) PROVE Inv'
<1>1. TypeOK /\ SaveInv /\ CountInv /\ RankInv /\ RaceInv
  BY DEF Inv
<1>2. /\ proc[p].op = "move" /\ proc[p].pc = "count" /\ proc[p] \in Proc
      /\ UNCHANGED <<application, talent, noShows>>
  BY <1>1 DEF RecordNoShow, At, TypeOK
<1>3. PICK t \in Talents : t = proc[p].t
  BY <1>2 DEF Proc
<1>4. CASE talent[t] = None
  BY <1>2, <1>3, <1>4, DoneStep DEF RecordNoShow
<1>5. CASE talent[t] # None
  <2>1. PICK row \in TalentProfile : row = talent[t]
    BY <1>1, <1>5 DEF TypeOK
  <2>2. PICK e : e = [row EXCEPT !.noShowCount = @ + 1, !.searchRank = Lowered(@)]
    OBVIOUS
  <2>3. /\ e \in TalentProfile /\ e.noShowCount = row.noShowCount + 1
        /\ e.searchRank = Lowered(row.searchRank)
    <3>1. /\ row.noShowCount \in Nat /\ row.noShowCount + 1 \in Nat
          /\ Lowered(row.searchRank) \in Nat
      BY RowTyped, LoweredTyped
    <3>q. QED BY <2>2, <3>1 DEF TalentProfile
  <2>4. Keep(p, e, "select")
    BY <1>3, <1>5, <2>1, <2>2 DEF RecordNoShow
  <2>5. PICK v \in Proc : /\ Moves(p, v) /\ v.entity = e /\ v.pc = "select"
                          /\ v.t = proc[p].t /\ v.op = proc[p].op
    BY <1>1, <2>3, <2>4, KeepMoves
  <2>6. Counts(proc[p], t) /\ Fits(row.noShowCount, Counting(t), noShows[t])
    BY <1>1, <1>2, <1>3, <1>5, <2>1 DEF Counts, CountInv, Profiled
  <2>7. ASSUME Lasts(t) PROVE Exact(e)
    <3>1. PICK n \in Nat, m \in Nat :
            n = row.noShowCount /\ m = noShows[t] /\ n + 1 <= m
      <4>1. IsFiniteSet(Counting(t)) /\ p \in Counting(t)
        BY <1>1, <2>6 DEF CountInv, Counting
      <4>2. Cardinality(Counting(t)) \in Nat /\ Cardinality(Counting(t)) # 0
        BY <4>1, FS_CardinalityType, FS_EmptySet
      <4>3. noShows[t] \in Nat /\ row.noShowCount \in Nat
        BY <1>1, RowTyped DEF TypeOK
      <4>q. QED BY <2>6, <4>2, <4>3 DEF Fits
    <3>2. Penalty * (n + 1) <= Penalty * m /\ Penalty * (n + 1) = Penalty * n + Penalty
      BY <3>1, Constants
    <3>3. PICK x \in Nat, y \in Nat, z \in Nat :
            x = Penalty * n /\ y = Penalty * (n + 1) /\ z = Penalty * m
      BY <3>1, Constants
    <3>4. row.searchRank = MaxRank - x /\ z <= MaxRank /\ y <= z /\ y = x + Penalty
      BY <1>1, <1>5, <2>1, <2>7, <3>1, <3>2, <3>3 DEF RankInv, Exact, Lasts, Profiled
    <3>5. row.searchRank >= Penalty /\ row.searchRank \in Nat
      BY <3>3, <3>4, Constants, RowTyped
    <3>6. e.searchRank = row.searchRank - Penalty
      BY <2>3, <3>5, LoweredTyped
    <3>q. QED BY <2>3, <3>1, <3>3, <3>4, <3>6, Constants DEF Exact
  <2>8. row.noShowCount \in Nat
    BY RowTyped
  <2>9. talent' \in [Talents -> TalentProfile \cup {None}]
    BY <1>1, <1>2 DEF TypeOK
  <2>q. QED BY <1>2, <1>3, <1>5, <2>3, <2>5, <2>6, <2>7, <2>8, <2>9, KeepStep
<1>q. QED BY <1>4, <1>5

LEMMA UpdateProfileStep ==
  ASSUME Inv, NEW p \in Procs, NEW t \in Talents, UpdateProfile(p, t) PROVE Inv'
<1> DEFINE v == Start("edit", SomeApplication, t, "read")
<1>1. v \in Proc /\ v.op = "edit" /\ v.pc = "read"
  BY StartTyped, Constants
<1>2. Moves(p, v)
  BY <1>1 DEF Moves, UpdateProfile, Inv, TypeOK
<1> HIDE DEF v
<1>q. QED BY <1>1, <1>2, Quiet DEF UpdateProfile, InSave

LEMMA GetProfileStep ==
  ASSUME Inv, NEW p \in Procs, NEW enabled \in BOOLEAN, GetProfile(p, enabled) PROVE Inv'
<1>1. TypeOK /\ SaveInv /\ CountInv /\ RankInv /\ RaceInv
  BY DEF Inv
<1>2. /\ proc[p].op = "edit" /\ proc[p] \in Proc /\ proc \in [Procs -> Proc]
      /\ UNCHANGED <<application, talent, noShows>>
  BY <1>1 DEF GetProfile, At, TypeOK
<1>3. PICK t \in Talents : t = proc[p].t
  BY <1>2 DEF Proc
<1>4. CASE talent[t] = None
  <2> DEFINE v == [proc[p] EXCEPT !.pc = "insert"]
  <2>1. v \in Proc /\ v.op = "edit" /\ v.pc = "insert"
    BY <1>2 DEF Proc
  <2>2. Moves(p, v)
    BY <1>2, <1>3, <1>4, <2>1 DEF Moves, GetProfile
  <2> HIDE DEF v
  <2>q. QED BY <1>2, <2>1, <2>2, Quiet DEF InSave
<1>5. CASE talent[t] # None
  <2>1. PICK row \in TalentProfile : row = talent[t]
    BY <1>1, <1>5 DEF TypeOK
  <2>2. PICK e : e = [row EXCEPT !.jobAlertsEnabled = enabled]
    OBVIOUS
  <2>3. /\ e \in TalentProfile /\ e.noShowCount = row.noShowCount
        /\ e.searchRank = row.searchRank
    BY <2>2 DEF TalentProfile
  <2>4. Keep(p, e, "select")
    BY <1>3, <1>5, <2>1, <2>2 DEF GetProfile
  <2>5. PICK v \in Proc : /\ Moves(p, v) /\ v.entity = e /\ v.pc = "select"
                          /\ v.t = proc[p].t /\ v.op = proc[p].op
    BY <1>1, <2>3, <2>4, KeepMoves
  <2>6. Fits(e.noShowCount, Counting(t), noShows[t])
    BY <1>1, <1>5, <2>1, <2>3 DEF CountInv, Profiled
  <2>7. Lasts(t) => Exact(e)
    BY <1>1, <1>5, <2>1, <2>3 DEF RankInv, Profiled, Exact
  <2>8. talent' \in [Talents -> TalentProfile \cup {None}]
    BY <1>1, <1>2 DEF TypeOK
  <2>q. QED BY <1>2, <1>3, <1>5, <2>3, <2>5, <2>6, <2>7, <2>8, KeepStep
<1>q. QED BY <1>4, <1>5

LEMMA CreateProfileStep ==
  ASSUME Inv, NEW p \in Procs, NEW enabled \in BOOLEAN, CreateProfile(p, enabled)
  PROVE  Inv'
<1>1. TypeOK /\ SaveInv /\ CountInv /\ RankInv /\ RaceInv
  BY DEF Inv
<1>2. /\ proc[p].op = "edit" /\ proc[p] \in Proc /\ UNCHANGED <<application, noShows>>
      /\ talent \in [Talents -> TalentProfile \cup {None}]
  BY <1>1 DEF CreateProfile, At, TypeOK
<1>3. PICK t \in Talents : t = proc[p].t
  BY <1>2 DEF Proc
<1>4. CASE talent[t] # None
  BY <1>2, <1>3, <1>4, DoneStep DEF CreateProfile
<1>5. CASE talent[t] = None
  <2>1. PICK e : e = [NewTalent EXCEPT !.jobAlertsEnabled = enabled]
    OBVIOUS
  <2>2. e \in TalentProfile /\ e.noShowCount = 0 /\ e.searchRank = MaxRank
    BY <2>1, NewTalentTyped DEF TalentProfile, NewTalent
  <2>3. Keep(p, e, "select") /\ talent' = [talent EXCEPT ![t] = NewTalent]
    BY <1>3, <1>5, <2>1 DEF CreateProfile
  <2>4. PICK v \in Proc : /\ Moves(p, v) /\ v.entity = e /\ v.pc = "select"
                          /\ v.t = proc[p].t /\ v.op = proc[p].op
    BY <1>1, <2>2, <2>3, KeepMoves
  <2>5. Fits(e.noShowCount, Counting(t), noShows[t])
    BY <1>1, <2>2 DEF CountInv
  <2>6. Exact(e)
    <3>1. Penalty * 0 = 0
      BY Constants
    <3>q. QED BY <2>2, <3>1, Constants DEF Exact
  <2>7. /\ talent' \in [Talents -> TalentProfile \cup {None}] /\ talent'[t] # None
        /\ \A x \in Talents : talent[x] # None => talent'[x] = talent[x]
        /\ \A x \in Talents : talent[x] = None => talent'[x] \in {None, NewTalent}
    BY <1>2, <1>5, <2>3, NewTalentTyped
  <2>q. QED BY <1>2, <1>3, <2>2, <2>4, <2>5, <2>6, <2>7, KeepStep
<1>q. QED BY <1>4, <1>5

\* The SELECT finds both columns changed or neither, while the rank lasts.
LEMMA SelectStep ==
  ASSUME Inv, NEW p \in Procs, Select(p) PROVE Inv'
<1>1. TypeOK /\ SaveInv /\ CountInv /\ RankInv /\ RaceInv
  BY DEF Inv
<1>2. /\ proc[p].pc = "select" /\ proc[p] \in Proc /\ proc \in [Procs -> Proc]
      /\ UNCHANGED <<application, talent, noShows>>
  BY <1>1 DEF Select, TypeOK
<1>3. PICK t \in Talents, e \in TalentProfile : t = proc[p].t /\ e = proc[p].entity
  BY <1>2 DEF Proc
<1>4. PICK row \in TalentProfile : row = talent[t] /\ talent[t] # None
  BY <1>1, <1>2, <1>3 DEF SaveInv, InSave, TypeOK
<1>5. PICK cols : cols = Changed(row, e)
  OBVIOUS
<1>6. /\ cols \in SUBSET DOMAIN NewTalent
      /\ "noShowCount" \in cols <=> row.noShowCount # e.noShowCount
      /\ "searchRank" \in cols <=> row.searchRank # e.searchRank
  BY <1>5, NewTalentTyped, RowTyped DEF Changed
<1> DEFINE v == [proc[p] EXCEPT !.pc = "update", !.dirty = cols]
<1>7. /\ v \in Proc /\ v.op = proc[p].op /\ v.pc = "update" /\ v.a = proc[p].a
      /\ v.t = t /\ v.entity = e /\ v.dirty = cols
  BY <1>2, <1>3, <1>6 DEF Proc
<1>8. Moves(p, v)
  BY <1>2, <1>3, <1>4, <1>5, <1>7 DEF Moves, Select
<1> HIDE DEF v
<1>9. TypeOK' /\ SaveInv'
  BY <1>1, <1>2, <1>4, <1>7, <1>8, TypeStays DEF TypeOK
<1>10. CountInv'
  <2>1. \A x \in Talents : talent'[x] # None =>
           talent'[x].noShowCount \in Nat
             /\ Fits(talent'[x].noShowCount, Counting(x), noShows[x])
    BY <1>1, <1>2, RowTyped DEF CountInv, Profiled, TypeOK
  <2>2. e.noShowCount \in Nat /\ Fits(e.noShowCount, Counting(t), noShows[t])
    BY <1>1, <1>2, <1>3, RowTyped DEF CountInv, InSave
  <2>q. QED BY <1>1, <1>2, <1>7, <1>8, <2>1, <2>2, CountStays
<1>11. RankInv'
  <2>1. \A x \in Talents : Lasts(x)' => Lasts(x)
    BY <1>2 DEF Lasts
  <2>2. \A x \in Talents : talent'[x] # None /\ Lasts(x) => Exact(talent'[x])
    BY <1>1, <1>2 DEF RankInv, Profiled
  <2>3. ASSUME Lasts(t) PROVE Together(v)
    <3>1. Exact(row) /\ Exact(e)
      BY <1>1, <1>2, <1>3, <1>4, <2>3 DEF RankInv, InSave, Profiled, Together
    <3>q. QED BY <1>6, <1>7, <3>1, ExactRows DEF Together
  <2>q. QED BY <1>1, <1>7, <1>8, <2>1, <2>2, <2>3, RankStays
<1>12. RaceInv'
  <2>1. Stored' = Stored
    BY <1>2 DEF Stored
  <2>2. \A a \in Applications : /\ Applying(For[a])' = Applying(For[a])
                                /\ StoredFor(For[a])' = StoredFor(For[a])
    BY <1>2, <1>7, <1>8, <2>1 DEF Applying, StoredFor, Moves
  <2>q. QED BY <1>1, <2>2 DEF RaceInv
<1>q. QED BY <1>9, <1>10, <1>11, <1>12 DEF Inv

\* The UPDATE writes both columns of an exact entity or neither.
LEMMA UpdateStep ==
  ASSUME Inv, NEW p \in Procs, Update(p) PROVE Inv'
<1>1. TypeOK /\ SaveInv /\ CountInv /\ RankInv /\ RaceInv
  BY DEF Inv
<1>2. /\ proc[p].pc = "update" /\ proc[p] \in Proc /\ Moves(p, Idle)
      /\ UNCHANGED <<application, noShows>>
      /\ talent \in [Talents -> TalentProfile \cup {None}]
  BY <1>1, DoneMoves DEF Update, TypeOK
<1>3. PICK t \in Talents, e \in TalentProfile, cols \in SUBSET DOMAIN NewTalent :
        t = proc[p].t /\ e = proc[p].entity /\ cols = proc[p].dirty
  BY <1>2 DEF Proc
<1>4. PICK row \in TalentProfile : row = talent[t] /\ talent[t] # None
  BY <1>1, <1>2, <1>3 DEF SaveInv, InSave, TypeOK
<1>5. PICK new \in TalentProfile :
        /\ new = Updated(row, e, cols) /\ talent' = [talent EXCEPT ![t] = new]
        /\ new.noShowCount = IF "noShowCount" \in cols THEN e.noShowCount ELSE row.noShowCount
        /\ new.searchRank = IF "searchRank" \in cols THEN e.searchRank ELSE row.searchRank
  <2>1. talent' = [talent EXCEPT ![t] = Updated(row, e, cols)]
    BY <1>3, <1>4 DEF Update
  <2>2. PICK new : new = Updated(row, e, cols)
    OBVIOUS
  <2>3. /\ new \in TalentProfile
        /\ new.noShowCount = IF "noShowCount" \in cols THEN e.noShowCount ELSE row.noShowCount
        /\ new.searchRank = IF "searchRank" \in cols THEN e.searchRank ELSE row.searchRank
    BY <2>2, UpdatedTyped
  <2>q. QED BY <2>1, <2>2, <2>3
<1>6. /\ talent' \in [Talents -> TalentProfile \cup {None}] /\ talent'[t] = new /\ new # None
      /\ \A x \in Talents \ {t} : talent'[x] = talent[x]
  BY <1>2, <1>5, HiringNoneAssumption
<1>7. TypeOK' /\ SaveInv'
  BY <1>1, <1>2, <1>4, <1>6, TypeStays, IdleTyped DEF TypeOK, InSave
<1>8. CountInv'
  <2>1. /\ Fits(e.noShowCount, Counting(t), noShows[t])
        /\ Fits(row.noShowCount, Counting(t), noShows[t])
    BY <1>1, <1>2, <1>3, <1>4 DEF CountInv, InSave, Profiled
  <2>2. \A x \in Talents : talent'[x] # None =>
          talent'[x].noShowCount \in Nat
            /\ Fits(talent'[x].noShowCount, Counting(x), noShows[x])
    <3>1. new.noShowCount \in Nat /\ Fits(new.noShowCount, Counting(t), noShows[t])
      BY <1>5, <2>1, RowTyped
    <3>2. \A x \in Talents \ {t} : talent[x] # None =>
            talent[x].noShowCount \in Nat
              /\ Fits(talent[x].noShowCount, Counting(x), noShows[x])
      BY <1>1, RowTyped DEF CountInv, Profiled, TypeOK
    <3>q. QED BY <1>6, <3>1, <3>2
  <2>q. QED BY <1>1, <1>2, <2>2, CountStays, IdleTyped DEF InSave
<1>9. RankInv'
  <2>1. \A x \in Talents : Lasts(x)' => Lasts(x)
    BY <1>2 DEF Lasts
  <2>2. ASSUME Lasts(t) PROVE Exact(new)
    <3>1. /\ Exact(row) /\ Exact(e)
          /\ "noShowCount" \in cols <=> "searchRank" \in cols
      BY <1>1, <1>2, <1>3, <1>4, <2>2 DEF RankInv, InSave, Profiled, Together
    <3>q. QED BY <1>5, <3>1 DEF Exact
  <2>3. \A x \in Talents : talent'[x] # None /\ Lasts(x) => Exact(talent'[x])
    BY <1>1, <1>6, <2>2 DEF RankInv, Profiled
  <2>q. QED BY <1>1, <1>2, <2>1, <2>3, RankStays, IdleTyped DEF InSave
<1>10. RaceInv'
  <2>1. Stored' = Stored
    BY <1>2 DEF Stored
  <2>q. QED BY <1>1, <1>2, <2>1, RaceStays, IdleTyped DEF TypeOK
<1>q. QED BY <1>7, <1>8, <1>9, <1>10 DEF Inv

\* No handler comes to save a status but one whose application is stored.
SavesStay == \A q \in Procs : proc'[q].pc = "save" =>
  proc'[q] = proc[q] \/ (proc'[q].a \in Stored /\ proc'[q].s # "NONE")

LEMMA MoveStays ==
  ASSUME TypeOK, MoveInv, [Next]_vars PROVE MoveInv'
<1>1. CASE UNCHANGED vars
  BY <1>1 DEF vars, MoveInv, Stored
<1>2. Stored \subseteq Stored' /\ SavesStay
  <2>1. CASE UNCHANGED vars
    BY <2>1 DEF vars, Stored, SavesStay
  <2>2. ASSUME NEW p \in Procs, NEW v, proc' = [proc EXCEPT ![p] = v],
               v.pc = "save" => v.a \in Stored /\ v.s # "NONE"
        PROVE  SavesStay
    BY <2>2 DEF TypeOK, SavesStay
  <2>3. ASSUME NEW p \in Procs, NEW op \in {"none", "apply", "move", "edit"}, NEW a \in Applications,
               NEW t \in Talents, NEW pc \in {"read", "insert", "count"},
               proc' = [proc EXCEPT ![p] = Start(op, a, t, pc)]
        PROVE  SavesStay
    <3>1. PICK v : v = Start(op, a, t, pc)
      OBVIOUS
    <3>2. v.pc = pc /\ proc' = [proc EXCEPT ![p] = v]
      BY <2>3, <3>1, StartTyped
    <3>q. QED BY <2>2, <3>2
  <2>4. ASSUME NEW p \in Procs, Done(p)
        PROVE  SavesStay
    BY <2>2, <2>4, IdleTyped DEF Done
  <2>5. ASSUME NEW p \in Procs, NEW e, Keep(p, e, "select")
        PROVE  SavesStay
    <3>1. [proc[p] EXCEPT !.entity = e, !.pc = "select"].pc = "select"
      BY DEF TypeOK, Proc
    <3>q. QED BY <2>2, <2>5, <3>1 DEF Keep
  <2>6. CASE UNCHANGED application
    <3>1. Stored' = Stored
      BY <2>6 DEF Stored
    <3>2. ASSUME NEW p \in Procs, NEW a \in Applications, NEW s \in ApplicationStatus,
                 UpdateApplicationStatus(p, a, s)
          PROVE  SavesStay
      <4> DEFINE w == Start("move", a, For[a].applicant, "save")
      <4>1. w \in Proc /\ w.a = a
        BY StartTyped, Constants
      <4>2. proc' = [proc EXCEPT ![p] = [w EXCEPT !.s = s]] /\ a \in Stored /\ s # "NONE"
        BY <3>2 DEF UpdateApplicationStatus, ApplicationStatus
      <4> HIDE DEF w
      <4>3. [w EXCEPT !.s = s].a = a /\ [w EXCEPT !.s = s].s = s
        BY <4>1 DEF Proc
      <4>q. QED BY <2>2, <4>2, <4>3
    <3>3. ASSUME NEW p \in Procs, NEW a \in Applications, ApplyForJob(p, a)
          PROVE  SavesStay
      BY <2>3, <3>3, Constants DEF ApplyForJob
    <3>4. ASSUME NEW p \in Procs, NEW t \in Talents, UpdateProfile(p, t)
          PROVE  SavesStay
      BY <2>3, <3>4, Constants DEF UpdateProfile
    <3>5. ASSUME NEW p \in Procs, RecordNoShow(p)
          PROVE  SavesStay
      BY <2>4, <2>5, <3>5 DEF RecordNoShow
    <3>6. ASSUME NEW p \in Procs, NEW enabled \in BOOLEAN, GetProfile(p, enabled) \/ CreateProfile(p, enabled)
          PROVE  SavesStay
      <4>1. [proc[p] EXCEPT !.pc = "insert"].pc = "insert"
        BY DEF TypeOK, Proc
      <4>2. CASE proc' = [proc EXCEPT ![p].pc = "insert"]
        BY <2>2, <4>1, <4>2
      <4>q. QED BY <2>4, <2>5, <3>6, <4>2 DEF GetProfile, CreateProfile
    <3>7. ASSUME NEW p \in Procs, Select(p) \/ Update(p)
          PROVE  SavesStay
      <4> DEFINE cols == Changed(talent[proc[p].t], proc[p].entity)
                 v == [proc[p] EXCEPT !.pc = "update", !.dirty = cols]
      <4> HIDE DEF cols
      <4>1. v.pc = "update"
        BY DEF TypeOK, Proc
      <4>2. Select(p) => proc' = [proc EXCEPT ![p] = v]
        BY DEF Select, cols
      <4> HIDE DEF v
      <4>q. QED BY <2>2, <2>4, <3>7, <4>1, <4>2 DEF Update
    <3>8. ASSUME NEW p \in Procs, InsertApplication(p) \/ SaveApplication(p)
          PROVE  SavesStay
      BY <2>3, <2>4, <3>8, Constants DEF InsertApplication, SaveApplication, TypeOK, Proc
    <3>q. QED BY <2>1, <3>1, <3>2, <3>3, <3>4, <3>5, <3>6, <3>7, <3>8 DEF Next
  <2>7. CASE ~ UNCHANGED application
    <3>1. PICK p \in Procs : InsertApplication(p) \/ SaveApplication(p)
      BY <2>7
         DEF Next, vars, ApplyForJob, UpdateApplicationStatus, UpdateProfile, GetProfile,
             CreateProfile, RecordNoShow, Select, Update
    <3>2. Stored \subseteq Stored'
      BY <3>1 DEF InsertApplication, SaveApplication, At, MoveInv, Stored, TypeOK
    <3>q. QED BY <2>3, <2>4, <3>1, <3>2, Constants
             DEF InsertApplication, SaveApplication, TypeOK, Proc
  <2>q. QED BY <2>6, <2>7
<1>q. QED BY <1>2 DEF MoveInv, SavesStay

LEMMA StepInv == Inv /\ MoveInv /\ [Next]_vars => Inv' /\ MoveInv'
<1> SUFFICES ASSUME Inv, MoveInv, [Next]_vars PROVE Inv'
  BY MoveStays DEF Inv
<1>1. CASE UNCHANGED vars
  BY <1>1 DEF vars, Inv, TypeOK, SaveInv, CountInv, RankInv, RaceInv, Profiled, Stored,
              StoredFor, Applying, Counting, Counts, Lasts
<1>2. CASE Next
  BY <1>2, ApplyStep, InsertStep, MoveStep, SaveStep, RecordStep, UpdateProfileStep, GetProfileStep,
     CreateProfileStep, SelectStep, UpdateStep DEF Next
<1>q. QED BY <1>1, <1>2

-----------------------------------------------------------------------------
\* Applications and profiles keep the invariant.
THEOREM Invariance == Spec => []Inv
<1>1. Init => MoveInv
  BY IdleTyped DEF Init, MoveInv
<1>q. QED BY <1>1, InitInv, StepInv, PTL DEF Spec

\* Every variable keeps its type: in particular the rank never goes below zero,
\* and save() is never called on a profile that is not there.
THEOREM TypeCorrect == Spec => []TypeOK
<1>1. Inv => TypeOK
  BY DEF Inv
<1>q. QED BY <1>1, Invariance, PTL

\* Until the reported no-shows have used up the rank, rank and count agree,
\* however many old profiles are saved over newer ones.
THEOREM RankAndCountAgree == Spec => []RankFollowsCount
<1>1. Inv => RankFollowsCount
  BY DEF Inv, RankInv, RankFollowsCount, Lasts, Exact
<1>q. QED BY <1>1, Invariance, PTL

\* No profile ever holds more no-shows than employers have reported.
THEOREM CountsAreReported == Spec => []NoShowsAreReported
<1>1. Inv => NoShowsAreReported
  <2> SUFFICES ASSUME Inv, NEW t \in Profiled PROVE talent[t].noShowCount <= noShows[t]
    BY DEF NoShowsAreReported
  <2>1. t \in Talents /\ talent[t].noShowCount \in Nat /\ noShows[t] \in Nat
    BY RowTyped DEF Inv, TypeOK, Profiled
  <2>2. /\ IsFiniteSet(Counting(t))
        /\ talent[t].noShowCount + Cardinality(Counting(t)) <= noShows[t]
    BY <2>1 DEF Inv, CountInv, Fits
  <2>q. QED BY <2>1, <2>2, FS_CardinalityType
<1>q. QED BY <1>1, Invariance, PTL

\* One talent's applications to one job are never more than the handlers.
THEOREM DuplicatesAreRaces == Spec => []DuplicatesNeedRaces
<1>1. Inv => DuplicatesNeedRaces
  <2> SUFFICES ASSUME Inv, NEW a \in Stored
               PROVE  Cardinality({x \in Stored : For[x] = For[a]}) <= Cardinality(Procs)
    BY DEF DuplicatesNeedRaces
  <2>1. /\ IsFiniteSet(StoredFor(For[a]))
        /\ Cardinality(StoredFor(For[a])) + Cardinality(Applying(For[a])) <= Cardinality(Procs)
    BY DEF Inv, RaceInv, Stored
  <2>2. Applying(For[a]) \subseteq Procs
    BY DEF Applying
  <2>3. Cardinality(Applying(For[a])) \in Nat /\ Cardinality(Procs) \in Nat
    BY <2>2, HiringSetsAssumption, FS_Subset, FS_CardinalityType
  <2>4. Cardinality(StoredFor(For[a])) \in Nat
    BY <2>1, FS_CardinalityType
  <2>q. QED BY <2>1, <2>3, <2>4 DEF StoredFor
<1>q. QED BY <1>1, Invariance, PTL
=============================================================================
