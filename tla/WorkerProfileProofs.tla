------------------------- MODULE WorkerProfileProofs -------------------------
(***************************************************************************)
(* What TLAPS proves of module WorkerProfile for every number of workers,  *)
(* handlers in flight, calls and days, and every daily limit.              *)
(***************************************************************************)
EXTENDS WorkerProfile, TLAPS

InSave(v) == v.pc \in {"select", "update"}

\* An entity only carries the flag of the first job to save() once the bonus has
\* been granted.
MaySave(v) == InSave(v) \/ v.pc = "balance"
FlagInv ==
  /\ FlagFollowsBonus
  /\ \A p \in Procs :
       MaySave(proc[p]) /\ proc[p].entity.isFirstJobDone => bonuses[proc[p].w] >= 1

\* The columns that limit the changes of a day.
SameToggles(e, row) == e.toggles = row.toggles /\ e.toggleDay = row.toggleDay
SameRates(e, row) == e.rates = row.rates /\ e.rateDay = row.rateDay

\* What a handler that runs alone is going to save of them: one change more on the
\* date it took, which midnight may have made an earlier one than today.
OneMore(count, date, before) == /\ count <= Limit /\ date <= day
                                /\ IF date = day THEN count = before + 1 ELSE before = 0
Counted(v, row) ==
  /\ IF v.op = "toggle" THEN OneMore(v.entity.toggles, v.entity.toggleDay, TogglesToday(row))
                        ELSE SameToggles(v.entity, row)
  /\ IF v.op = "rate" THEN OneMore(v.entity.rates, v.entity.rateDay, RatesToday(row))
                      ELSE SameRates(v.entity, row)

\* While toggleGoLive asks for the balance it has not counted yet.
Asking(v, row) ==
  /\ v.op = "toggle" /\ SameRates(v.entity, row) /\ v.entity.toggleDay <= day
  /\ TogglesToday(row) = (IF v.entity.toggleDay = day THEN v.entity.toggles ELSE 0)

\* The counters of a row are today's changes.
Tallied(w, row) ==
  /\ changes.toggle[w] = TogglesToday(row) /\ row.toggleDay <= day
  /\ changes.rate[w] = RatesToday(row) /\ row.rateDay <= day

Alone == \A p \in Procs, q \in Procs : proc[p] # Idle /\ proc[q] # Idle => p = q

\* The row is still the one the handler has read.
Ready(v) ==
  /\ v.pc = "bonus" => v.op = "complete"
  /\ v.pc = "balance" => Asking(v, profile[v.w])
  /\ v.pc = "bonus" \/ InSave(v) => Counted(v, profile[v.w])
  /\ v.pc = "update" => v.dirty = Changed(profile[v.w], v.entity)

SerialInv ==
  ~ overlap =>
    /\ Alone
    /\ \A w \in Workers : Tallied(w, profile[w])
    /\ Limited
    /\ \A p \in Procs : Ready(proc[p])

Inv == TypeOK /\ FlagInv /\ SerialInv

-----------------------------------------------------------------------------
\* The values a column may have.
LEMMA RowTyped ==
  ASSUME NEW row \in Profile
  PROVE  /\ row.isActive \in BOOLEAN /\ row.isFirstJobDone \in BOOLEAN
         /\ row.toggles \in Nat /\ row.toggleDay \in Nat
         /\ row.rates \in Nat /\ row.rateDay \in Nat /\ row.reviews \in Nat
         /\ DOMAIN row = DOMAIN NewProfile
BY DEF Profile, NewProfile

LEMMA NewProfileTyped ==
  /\ NewProfile \in Profile
  /\ DOMAIN NewProfile = {"isActive", "toggles", "toggleDay", "rates", "rateDay",
                          "isFirstJobDone", "reviews"}
BY DEF Profile, NewProfile

LEMMA IdleTyped == Idle \in Proc /\ Idle.pc = "idle"
<1>1. {} \in SUBSET DOMAIN NewProfile /\ (CHOOSE w \in Workers : TRUE) \in Workers
  BY WorkersAssumption
<1>q. QED BY <1>1, NewProfileTyped DEF Idle, Start, Proc

LEMMA StartTyped ==
  ASSUME NEW op \in Calls, NEW w \in Workers
  PROVE  /\ Start(op, w) \in Proc /\ Start(op, w).op = op
         /\ Start(op, w).w = w /\ Start(op, w).pc = "read"
<1>1. {} \in SUBSET DOMAIN NewProfile /\ op \in Handlers
  BY CallsAssumption
<1>q. QED BY <1>1, NewProfileTyped DEF Start, Proc

LEMMA TodayTyped ==
  ASSUME TypeOK, NEW row \in Profile
  PROVE  TogglesToday(row) \in Nat /\ RatesToday(row) \in Nat /\ day \in Nat
BY RowTyped, ProfileBoundAssumption DEF TypeOK, TogglesToday, RatesToday

\* Saving a row over the one it was read from stores it as it is.
LEMMA SavedAlone ==
  ASSUME NEW row \in Profile, NEW e \in Profile
  PROVE  Updated(row, e, Changed(row, e)) = e
<1>1. DOMAIN row = DOMAIN e
  BY RowTyped
<1>2. Updated(row, e, Changed(row, e)) = [c \in DOMAIN e |-> e[c]]
  BY <1>1 DEF Updated, Changed
<1>3. e = [c \in DOMAIN e |-> e[c]]
  BY DEF Profile
<1>q. QED BY <1>2, <1>3

LEMMA UpdatedTyped ==
  ASSUME NEW row \in Profile, NEW e \in Profile, NEW cols
  PROVE  /\ Updated(row, e, cols) \in Profile
         /\ Updated(row, e, cols).isFirstJobDone \in
              {row.isFirstJobDone, e.isFirstJobDone}
<1>1. DOMAIN row = {"isActive", "toggles", "toggleDay", "rates", "rateDay",
                    "isFirstJobDone", "reviews"}
  BY NewProfileTyped, RowTyped
<1>q. QED BY <1>1 DEF Updated, Profile

\* p goes to v and no other handler moves.
Moves(p, v) ==
  /\ v \in Proc /\ proc'[p] = v /\ proc' \in [Procs -> Proc]
  /\ \A q \in Procs \ {p} : proc'[q] = proc[q]

LEMMA DoneMoves ==
  ASSUME TypeOK, NEW p \in Procs, Done(p) PROVE Moves(p, Idle)
BY IdleTyped DEF Done, Moves, TypeOK

LEMMA KeepMoves ==
  ASSUME TypeOK, NEW p \in Procs, NEW e \in Profile, NEW pc \in {"balance", "bonus", "select"},
         Keep(p, e, pc)
  PROVE  \E v \in Proc : /\ Moves(p, v) /\ v.entity = e /\ v.pc = pc
                         /\ v.w = proc[p].w /\ v.op = proc[p].op
<1>1. proc \in [Procs -> Proc] /\ proc[p] \in Proc
  BY DEF TypeOK
<1>2. [proc[p] EXCEPT !.entity = e, !.pc = pc] \in Proc
  BY <1>1 DEF Proc
<1>3. Moves(p, [proc[p] EXCEPT !.entity = e, !.pc = pc])
  BY <1>1, <1>2 DEF Moves, Keep
<1>q. QED BY <1>1, <1>2, <1>3 DEF Proc

-----------------------------------------------------------------------------
(***************************************************************************)
(* How a step that moves p to v bears on each part of the invariant.       *)
(***************************************************************************)

LEMMA FlagMoves ==
  ASSUME TypeOK, FlagInv, NEW p \in Procs, NEW v, Moves(p, v),
         bonuses' \in [Workers -> Nat],
         \A w \in Workers : bonuses'[w] >= bonuses[w],
         \A w \in Workers : profile'[w].isFirstJobDone => bonuses[w] >= 1,
         MaySave(v) /\ v.entity.isFirstJobDone => bonuses'[v.w] >= 1
  PROVE  FlagInv'
<1>1. \A w \in Workers : bonuses[w] \in Nat /\ bonuses'[w] \in Nat
  BY DEF TypeOK
<1>2. FlagFollowsBonus'
  BY <1>1 DEF FlagFollowsBonus
<1>3. ASSUME NEW q \in Procs, MaySave(proc'[q]), proc'[q].entity.isFirstJobDone
      PROVE  bonuses'[proc'[q].w] >= 1
  <2>1. CASE q = p
    BY <1>3, <2>1 DEF Moves
  <2>2. CASE q # p
    <3>1. proc'[q] = proc[q] /\ proc[q].w \in Workers
      BY <2>2 DEF Moves, TypeOK, Proc
    <3>2. bonuses[proc[q].w] >= 1
      BY <1>3, <3>1 DEF FlagInv
    <3>q. QED BY <1>1, <3>1, <3>2
  <2>q. QED BY <2>1, <2>2
<1>q. QED BY <1>2, <1>3 DEF FlagInv

\* Alone, p is the only handler there is anything to say about.
LEMMA SerialMoves ==
  ASSUME SerialInv, NEW p \in Procs, NEW v, Moves(p, v), proc[p] # Idle,
         overlap' = overlap,
         ~ overlap => /\ \A w \in Workers : Tallied(w, profile[w])'
                      /\ Limited' /\ Ready(v)'
  PROVE  SerialInv'
<1> SUFFICES ASSUME ~ overlap
             PROVE  /\ Alone' /\ \A w \in Workers : Tallied(w, profile[w])'
                    /\ Limited' /\ \A q \in Procs : Ready(proc[q])'
  BY DEF SerialInv
<1>1. \A q \in Procs \ {p} : proc[q] = Idle /\ proc'[q] = Idle
  BY DEF SerialInv, Alone, Moves
<1>2. Alone'
  BY <1>1 DEF Alone
<1>3. ASSUME NEW q \in Procs PROVE Ready(proc[q])'
  <2>1. CASE q = p
    BY <2>1 DEF Moves, Ready, Counted, Asking
  <2>2. CASE q # p
    BY <1>1, <2>2, IdleTyped DEF Ready, InSave
  <2>q. QED BY <2>1, <2>2
<1>q. QED BY <1>2, <1>3

\* Nothing that the limits look at has changed.
LEMMA TalliesStay ==
  ASSUME SerialInv, ~ overlap, UNCHANGED <<day, profile, changes>>
  PROVE  (\A w \in Workers : Tallied(w, profile[w])') /\ Limited'
<1>1. \A w \in Workers : Tallied(w, profile[w])'
  BY DEF SerialInv, Tallied, TogglesToday, RatesToday
<1>2. Limited'
  BY DEF SerialInv, Limited
<1>q. QED BY <1>1, <1>2

LEMMA CountedStays ==
  ASSUME NEW v, NEW w, Counted(v, profile[w]), UNCHANGED <<day, profile>>
  PROVE  Counted(v, profile[w])'
BY DEF Counted, OneMore, SameToggles, SameRates, TogglesToday, RatesToday

LEMMA AskingStays ==
  ASSUME NEW v, NEW w, Asking(v, profile[w]), UNCHANGED <<day, profile>>
  PROVE  Asking(v, profile[w])'
BY DEF Asking, SameRates, TogglesToday

-----------------------------------------------------------------------------
(***************************************************************************)
(* The actions.                                                            *)
(***************************************************************************)

LEMMA InitInv == Init => Inv
<1> SUFFICES ASSUME Init PROVE Inv
  OBVIOUS
<1>1. TypeOK
  <2>1. day \in 1..LastDay
    BY ProfileBoundAssumption DEF Init
  <2>4. overlap \in BOOLEAN
    BY DEF Init
  <2>2. profile \in [Workers -> Profile] /\ proc \in [Procs -> Proc]
    BY IdleTyped, NewProfileTyped DEF Init
  <2>3. /\ funded \in [Workers -> BOOLEAN] /\ bonuses \in [Workers -> Nat]
        /\ changes \in [{"toggle", "rate"} -> [Workers -> Nat]]
    BY DEF Init
  <2>q. QED BY <2>1, <2>2, <2>3, <2>4 DEF TypeOK
<1>2. FlagInv
  BY IdleTyped DEF Init, FlagInv, FlagFollowsBonus, NewProfile, MaySave, InSave
<1>3. Alone /\ \A p \in Procs : Ready(proc[p])
  BY IdleTyped DEF Init, Alone, Ready, InSave
<1>4. (\A w \in Workers : Tallied(w, profile[w])) /\ Limited
  BY ProfileBoundAssumption
     DEF Init, Tallied, Limited, TogglesToday, RatesToday, NewProfile
<1>q. QED BY <1>1, <1>2, <1>3, <1>4 DEF Inv, SerialInv

\* A handler that ends without saving.
LEMMA DoneStep ==
  ASSUME Inv, NEW p \in Procs, proc[p] # Idle, Done(p),
         UNCHANGED <<day, profile, funded, bonuses, changes, overlap>>
  PROVE  Inv'
<1>1. TypeOK /\ FlagInv /\ SerialInv /\ Moves(p, Idle)
  BY DoneMoves DEF Inv
<1>2. TypeOK'
  BY <1>1 DEF TypeOK, Moves
<1>3. FlagInv'
  BY <1>1, FlagMoves, IdleTyped DEF MaySave, InSave, TypeOK, FlagInv, FlagFollowsBonus
<1>4. SerialInv'
  BY <1>1, TalliesStay, SerialMoves, IdleTyped DEF Ready, InSave
<1>q. QED BY <1>2, <1>3, <1>4 DEF Inv

\* A handler keeps an entity e that it is going to save.
LEMMA KeepStep ==
  ASSUME Inv, NEW p \in Procs, proc[p] # Idle, NEW e \in Profile,
         NEW pc \in {"balance", "bonus", "select"}, Keep(p, e, pc),
         pc = "bonus" => proc[p].op = "complete",
         UNCHANGED <<day, profile, funded, bonuses, changes, overlap>>,
         pc # "bonus" /\ e.isFirstJobDone => bonuses[proc[p].w] >= 1,
         ~ overlap => \A v \in Proc : v.entity = e /\ v.op = proc[p].op =>
                        IF pc = "balance" THEN Asking(v, profile[proc[p].w])
                                          ELSE Counted(v, profile[proc[p].w])
  PROVE  Inv'
<1>1. TypeOK /\ FlagInv /\ SerialInv
  BY DEF Inv
<1>2. PICK v \in Proc : /\ Moves(p, v) /\ v.entity = e /\ v.pc = pc
                        /\ v.w = proc[p].w /\ v.op = proc[p].op
  BY <1>1, KeepMoves
<1>3. TypeOK'
  BY <1>1, <1>2 DEF TypeOK, Moves
<1>4. FlagInv'
  BY <1>1, <1>2, FlagMoves DEF MaySave, InSave, TypeOK, FlagInv, FlagFollowsBonus
<1>5. SerialInv'
  <2>1. ASSUME ~ overlap PROVE Ready(v)'
    <3>1. CASE pc = "balance"
      <4>1. Asking(v, profile[v.w])'
        BY <1>2, <2>1, <3>1, AskingStays
      <4>q. QED BY <1>2, <3>1, <4>1 DEF Ready, InSave
    <3>2. CASE pc # "balance"
      <4>1. Counted(v, profile[v.w])'
        BY <1>2, <2>1, <3>2, CountedStays
      <4>q. QED BY <1>2, <3>2, <4>1 DEF Ready
    <3>q. QED BY <3>1, <3>2
  <2>q. QED BY <1>1, <1>2, <2>1, TalliesStay, SerialMoves
<1>q. QED BY <1>3, <1>4, <1>5 DEF Inv

LEMMA CallStep ==
  ASSUME Inv, NEW p \in Procs, NEW op \in Calls, NEW w \in Workers, Call(p, op, w)
  PROVE  Inv'
<1>1. TypeOK /\ FlagInv /\ SerialInv
  BY DEF Inv
<1>2. /\ UNCHANGED <<day, profile, funded, bonuses, changes>> /\ proc[p] = Idle
      /\ proc' = [proc EXCEPT ![p] = Start(op, w)]
      /\ overlap' = (overlap \/ \E q \in Procs : proc[q] # Idle)
  BY DEF Call
<1>3. PICK v \in Proc : v = Start(op, w) /\ v.pc = "read"
  BY StartTyped
<1>4. Moves(p, v)
  BY <1>1, <1>2, <1>3 DEF Moves, TypeOK
<1>5. TypeOK'
  BY <1>1, <1>2, <1>4 DEF TypeOK, Moves
<1>6. FlagInv'
  BY <1>1, <1>2, <1>3, <1>4, FlagMoves DEF MaySave, InSave, TypeOK, FlagInv, FlagFollowsBonus
<1>7. SerialInv'
  <2> SUFFICES ASSUME ~ overlap'
               PROVE  /\ Alone' /\ \A x \in Workers : Tallied(x, profile[x])'
                      /\ Limited' /\ \A q \in Procs : Ready(proc[q])'
    BY DEF SerialInv
  <2>1. ~ overlap /\ \A q \in Procs : proc[q] = Idle
    BY <1>1, <1>2 DEF TypeOK
  <2>2. \A q \in Procs \ {p} : proc'[q] = Idle
    BY <1>4, <2>1 DEF Moves
  <2>3. Alone'
    BY <2>2 DEF Alone
  <2>4. \A q \in Procs : Ready(proc[q])'
    BY <1>3, <1>4, <2>2, IdleTyped DEF Moves, Ready, InSave
  <2>q. QED BY <1>1, <1>2, <2>1, <2>3, <2>4, TalliesStay
<1>q. QED BY <1>5, <1>6, <1>7 DEF Inv

\* toggleGoLive counts on from today's changes, at once or after asking the balance.
LEMMA LimitStep ==
  ASSUME Inv, NEW p \in Procs, proc[p] # Idle, proc[p].op = "toggle", NEW e \in Profile,
         LimitToggle(p, e), UNCHANGED <<day, profile, funded, bonuses, changes, overlap>>,
         e.isFirstJobDone => bonuses[proc[p].w] >= 1,
         ~ overlap => \A v \in Proc : v.entity = e /\ v.op = "toggle" =>
                        Asking(v, profile[proc[p].w])
  PROVE  Inv'
<1>1. TypeOK /\ proc[p] \in Proc
  BY DEF Inv, TypeOK
<1>2. CASE e.toggles >= Limit
  BY <1>2, DoneStep DEF LimitToggle
<1>3. CASE ~ (e.toggles >= Limit)
  <2>1. PICK f : f = [e EXCEPT !.isActive = ~ @, !.toggles = @ + 1]
    OBVIOUS
  <2>2. /\ f \in Profile /\ f.isFirstJobDone = e.isFirstJobDone
        /\ f.toggles = e.toggles + 1 /\ f.toggleDay = e.toggleDay /\ SameRates(f, e)
    <3>1. e.toggles + 1 \in Nat /\ (~ e.isActive) \in BOOLEAN
      BY RowTyped
    <3>q. QED BY <2>1, <3>1 DEF Profile, SameRates
  <2>3. f.toggles <= Limit
    BY <1>3, <2>2, RowTyped, ProfileBoundAssumption
  <2>4. PICK row : row = profile[proc[p].w]
    OBVIOUS
  <2>5. ASSUME ~ overlap, NEW v \in Proc, v.entity = f, v.op = "toggle" PROVE Counted(v, row)
    <3>1. PICK u : u = [v EXCEPT !.entity = e]
      OBVIOUS
    <3>2. u \in Proc /\ u.entity = e /\ u.op = "toggle"
      BY <2>5, <3>1 DEF Proc
    <3>3. Asking(u, row)
      BY <2>4, <2>5, <3>2
    <3>q. QED BY <2>2, <2>3, <2>5, <3>2, <3>3 DEF Asking, Counted, OneMore, SameRates
  <2>6. Keep(p, f, "select")
    BY <1>3, <2>1 DEF LimitToggle
  <2>q. QED BY <2>2, <2>4, <2>5, <2>6, KeepStep
<1>q. QED BY <1>2, <1>3

LEMMA ToggleStep ==
  ASSUME Inv, NEW p \in Procs, ToggleGoLive(p) PROVE Inv'
<1>1. /\ TypeOK /\ FlagInv /\ SerialInv /\ proc[p] \in Proc
      /\ proc[p].op = "toggle" /\ proc[p].pc = "read" /\ proc[p] # Idle
      /\ UNCHANGED <<day, profile, funded, bonuses, changes, overlap>>
  BY IdleTyped DEF Inv, TypeOK, ToggleGoLive, At
<1>2. PICK w \in Workers, row \in Profile : w = proc[p].w /\ row = profile[w]
  BY <1>1 DEF Proc, TypeOK
<1>3. PICK e : e = [row EXCEPT !.toggleDay = day, !.toggles = TogglesToday(row)]
  OBVIOUS
<1>4. /\ e \in Profile /\ e.isFirstJobDone = row.isFirstJobDone
      /\ e.toggles = TogglesToday(row) /\ e.toggleDay = day /\ SameRates(e, row) /\ day \in Nat
  <2>1. TogglesToday(row) \in Nat /\ day \in Nat
    BY <1>1, TodayTyped
  <2>q. QED BY <1>3, <2>1 DEF Profile, SameRates
<1>5. \A v \in Proc : v.entity = e /\ v.op = "toggle" => Asking(v, row)
  BY <1>4 DEF Asking
<1>6. e.isFirstJobDone => bonuses[w] >= 1
  BY <1>1, <1>2, <1>4 DEF FlagInv, FlagFollowsBonus
<1>7. Keep(p, e, "balance") \/ LimitToggle(p, e)
  BY <1>2, <1>3 DEF ToggleGoLive
<1>8. CASE Keep(p, e, "balance")
  BY <1>1, <1>2, <1>4, <1>5, <1>6, <1>8, KeepStep
<1>9. CASE LimitToggle(p, e)
  BY <1>1, <1>2, <1>4, <1>5, <1>6, <1>9, LimitStep
<1>q. QED BY <1>7, <1>8, <1>9

LEMMA BalanceStep ==
  ASSUME Inv, NEW p \in Procs, CheckBalance(p) PROVE Inv'
<1>1. /\ TypeOK /\ FlagInv /\ SerialInv /\ proc[p] \in Proc
      /\ proc[p].op = "toggle" /\ proc[p].pc = "balance" /\ proc[p] # Idle
      /\ UNCHANGED <<day, profile, funded, bonuses, changes, overlap>>
  BY IdleTyped DEF Inv, TypeOK, CheckBalance, At
<1>2. PICK e \in Profile : e = proc[p].entity
  BY <1>1 DEF Proc
<1>3. CASE Done(p)
  BY <1>1, <1>3, DoneStep
<1>4. CASE LimitToggle(p, e)
  <2>1. e.isFirstJobDone => bonuses[proc[p].w] >= 1
    BY <1>1, <1>2 DEF FlagInv, MaySave
  <2>2. ASSUME ~ overlap, NEW v \in Proc, v.entity = e, v.op = "toggle"
        PROVE  Asking(v, profile[proc[p].w])
    <3>1. Asking(proc[p], profile[proc[p].w])
      BY <1>1, <2>2 DEF SerialInv, Ready
    <3>q. QED BY <1>1, <1>2, <2>2, <3>1 DEF Asking
  <2>q. QED BY <1>1, <1>4, <2>1, <2>2, LimitStep
<1>q. QED BY <1>2, <1>3, <1>4 DEF CheckBalance

LEMMA RateStep ==
  ASSUME Inv, NEW p \in Procs, UpdateHourlyRate(p) PROVE Inv'
<1>1. /\ TypeOK /\ FlagInv /\ SerialInv /\ proc[p] \in Proc
      /\ proc[p].op = "rate" /\ proc[p].pc = "read" /\ proc[p] # Idle
      /\ UNCHANGED <<day, profile, funded, bonuses, changes, overlap>>
  BY IdleTyped DEF Inv, TypeOK, UpdateHourlyRate, At
<1>2. PICK w \in Workers, row \in Profile : w = proc[p].w /\ row = profile[w]
  BY <1>1 DEF Proc, TypeOK
<1>3. CASE RatesToday(row) >= Limit
  BY <1>1, <1>2, <1>3, DoneStep DEF UpdateHourlyRate
<1>4. CASE ~ (RatesToday(row) >= Limit)
  <2>1. PICK e : e = [row EXCEPT !.rateDay = day, !.rates = RatesToday(row) + 1]
    OBVIOUS
  <2>2. Keep(p, e, "select")
    BY <1>2, <1>4, <2>1 DEF UpdateHourlyRate
  <2>3. /\ e \in Profile /\ e.isFirstJobDone = row.isFirstJobDone
        /\ e.rates = RatesToday(row) + 1 /\ e.rateDay = day
        /\ SameToggles(e, row)
    <3>1. RatesToday(row) + 1 \in Nat /\ day \in Nat
      BY <1>1, TodayTyped
    <3>q. QED BY <2>1, <3>1 DEF Profile, SameToggles
  <2>4. e.rates <= Limit
    BY <1>1, <1>4, <2>3, TodayTyped, ProfileBoundAssumption
  <2>5. \A v \in Proc : v.entity = e /\ v.op = proc[p].op => Counted(v, row)
    <3>1. day \in Nat
      BY <1>1, TodayTyped
    <3>q. QED BY <1>1, <2>3, <2>4, <3>1 DEF Counted, OneMore
  <2>6. e.isFirstJobDone => bonuses[w] >= 1
    BY <1>1, <1>2, <2>3 DEF FlagInv, FlagFollowsBonus
  <2>q. QED BY <1>1, <1>2, <2>2, <2>3, <2>5, <2>6, KeepStep
<1>q. QED BY <1>3, <1>4

\* verifyCompletionOtp keeps the row as it found it until the bonus is granted.
LEMMA CompletionStep ==
  ASSUME Inv, NEW p \in Procs, CompletionReadsProfile(p) PROVE Inv'
<1>1. /\ TypeOK /\ FlagInv /\ SerialInv /\ proc[p] \in Proc
      /\ proc[p].op = "complete" /\ proc[p].pc = "read" /\ proc[p] # Idle
      /\ UNCHANGED <<day, profile, funded, bonuses, changes, overlap>>
  BY IdleTyped DEF Inv, TypeOK, CompletionReadsProfile, At
<1>2. PICK w \in Workers, row \in Profile : w = proc[p].w /\ row = profile[w]
  BY <1>1 DEF Proc, TypeOK
<1>3. CASE row.isFirstJobDone
  BY <1>1, <1>2, <1>3, DoneStep DEF CompletionReadsProfile
<1>4. CASE ~ row.isFirstJobDone
  <2>1. Keep(p, row, "bonus")
    BY <1>2, <1>4 DEF CompletionReadsProfile
  <2>2. \A v \in Proc : v.entity = row /\ v.op = proc[p].op => Counted(v, row)
    BY <1>1 DEF Counted, SameToggles, SameRates
  <2>q. QED BY <1>1, <1>2, <2>1, <2>2, KeepStep
<1>q. QED BY <1>3, <1>4

LEMMA RatingStep ==
  ASSUME Inv, NEW p \in Procs, SubmitRating(p) PROVE Inv'
<1>1. /\ TypeOK /\ FlagInv /\ SerialInv /\ proc[p] \in Proc
      /\ proc[p].op = "rating" /\ proc[p].pc = "read" /\ proc[p] # Idle
      /\ UNCHANGED <<day, profile, funded, bonuses, changes, overlap>>
  BY IdleTyped DEF Inv, TypeOK, SubmitRating, At
<1>2. PICK w \in Workers, row \in Profile : w = proc[p].w /\ row = profile[w]
  BY <1>1 DEF Proc, TypeOK
<1>3. PICK e : e = [row EXCEPT !.reviews = @ + 1]
  OBVIOUS
<1>4. Keep(p, e, "select")
  BY <1>2, <1>3 DEF SubmitRating
<1>5. /\ e \in Profile /\ e.isFirstJobDone = row.isFirstJobDone
      /\ SameToggles(e, row) /\ SameRates(e, row)
  <2>1. row.reviews + 1 \in Nat
    BY RowTyped
  <2>q. QED BY <1>3, <2>1 DEF Profile, SameToggles, SameRates
<1>6. \A v \in Proc : v.entity = e /\ v.op = proc[p].op => Counted(v, row)
  BY <1>1, <1>5 DEF Counted, SameToggles, SameRates
<1>7. e.isFirstJobDone => bonuses[w] >= 1
  BY <1>1, <1>2, <1>5 DEF FlagInv, FlagFollowsBonus
<1>q. QED BY <1>1, <1>2, <1>4, <1>5, <1>6, <1>7, KeepStep

\* The bonus is granted before the flag is kept for save().
LEMMA BonusStep ==
  ASSUME Inv, NEW p \in Procs, GrantBonus(p) PROVE Inv'
<1>1. /\ TypeOK /\ FlagInv /\ SerialInv /\ proc[p] \in Proc /\ proc \in [Procs -> Proc]
      /\ proc[p].op = "complete" /\ proc[p].pc = "bonus" /\ proc[p] # Idle
      /\ UNCHANGED <<day, profile, changes, overlap>>
  BY IdleTyped DEF Inv, TypeOK, GrantBonus, At
<1>2. PICK w \in Workers, row \in Profile, e0 \in Profile :
        w = proc[p].w /\ row = profile[w] /\ e0 = proc[p].entity
  BY <1>1 DEF Proc, TypeOK
<1>3. PICK e : e = [e0 EXCEPT !.isFirstJobDone = TRUE]
  OBVIOUS
<1>4. e \in Profile /\ SameToggles(e, e0) /\ SameRates(e, e0)
  BY <1>3 DEF Profile, SameToggles, SameRates
<1>5. PICK v : v = [proc[p] EXCEPT !.entity = e, !.pc = "select"]
  OBVIOUS
<1>6. /\ v \in Proc /\ v.entity = e /\ v.pc = "select"
      /\ v.w = w /\ v.op = "complete"
  BY <1>1, <1>2, <1>4, <1>5 DEF Proc
<1>7. Moves(p, v)
  <2>1. v = [proc[p] EXCEPT !.entity.isFirstJobDone = TRUE, !.pc = "select"]
    BY <1>1, <1>2, <1>3, <1>5 DEF Proc
  <2>2. proc' = [proc EXCEPT ![p].entity.isFirstJobDone = TRUE, ![p].pc = "select"]
    BY DEF GrantBonus
  <2>q. QED BY <1>1, <1>6, <2>1, <2>2 DEF Moves
<1>8. /\ bonuses' = [bonuses EXCEPT ![w] = @ + 1] /\ funded' \in [Workers -> BOOLEAN]
      /\ bonuses \in [Workers -> Nat]
  BY <1>1, <1>2 DEF GrantBonus, TypeOK
<1>9. /\ bonuses' \in [Workers -> Nat] /\ bonuses'[w] >= 1
      /\ \A x \in Workers : bonuses'[x] >= bonuses[x]
  BY <1>8
<1>10. TypeOK'
  BY <1>1, <1>7, <1>8, <1>9 DEF TypeOK, Moves
<1>11. FlagInv'
  <2>1. \A x \in Workers : profile'[x].isFirstJobDone => bonuses[x] >= 1
    BY <1>1 DEF FlagInv, FlagFollowsBonus
  <2>q. QED BY <1>1, <1>6, <1>7, <1>9, <2>1, FlagMoves
<1>12. SerialInv'
  <2>1. ASSUME ~ overlap PROVE Ready(v)'
    <3>1. Counted(proc[p], row)
      BY <1>1, <1>2, <2>1 DEF SerialInv, Ready
    <3>2. Counted(v, row)
      BY <1>1, <1>2, <1>4, <1>6, <3>1 DEF Counted, SameToggles, SameRates
    <3>3. Counted(v, profile[w])'
      BY <1>1, <1>2, <3>2, CountedStays
    <3>q. QED BY <1>6, <3>3 DEF Ready
  <2>q. QED BY <1>1, <1>7, <2>1, TalliesStay, SerialMoves
<1>q. QED BY <1>10, <1>11, <1>12 DEF Inv

\* The SELECT of save() notes the changed columns.
LEMMA SelectStep ==
  ASSUME Inv, NEW p \in Procs, Select(p) PROVE Inv'
<1>1. /\ TypeOK /\ FlagInv /\ SerialInv /\ proc[p] \in Proc /\ proc \in [Procs -> Proc]
      /\ proc[p].pc = "select" /\ proc[p] # Idle
      /\ UNCHANGED <<day, profile, funded, bonuses, changes, overlap>>
  BY IdleTyped DEF Inv, TypeOK, Select
<1>2. PICK w \in Workers, row \in Profile, e \in Profile :
        w = proc[p].w /\ row = profile[w] /\ e = proc[p].entity
  BY <1>1 DEF Proc, TypeOK
<1>3. PICK cols \in SUBSET DOMAIN NewProfile : cols = Changed(row, e)
  BY RowTyped DEF Changed
<1>4. PICK v : v = [proc[p] EXCEPT !.pc = "update", !.dirty = cols]
  OBVIOUS
<1>5. /\ v \in Proc /\ v.entity = e /\ v.pc = "update" /\ v.dirty = cols
      /\ v.w = w /\ v.op = proc[p].op
  BY <1>1, <1>2, <1>3, <1>4 DEF Proc
<1>6. Moves(p, v)
  BY <1>1, <1>2, <1>3, <1>4, <1>5 DEF Moves, Select
<1>7. TypeOK'
  BY <1>1, <1>6 DEF TypeOK, Moves
<1>8. FlagInv'
  <2>1. e.isFirstJobDone => bonuses[w] >= 1
    BY <1>1, <1>2 DEF FlagInv, MaySave, InSave
  <2>2. \A x \in Workers : profile'[x].isFirstJobDone => bonuses[x] >= 1
    BY <1>1 DEF FlagInv, FlagFollowsBonus
  <2>q. QED BY <1>1, <1>5, <1>6, <2>1, <2>2, FlagMoves DEF TypeOK
<1>9. SerialInv'
  <2>1. ASSUME ~ overlap PROVE Ready(v)'
    <3>1. Counted(proc[p], row)
      BY <1>1, <1>2, <2>1 DEF SerialInv, Ready, InSave
    <3>2. Counted(v, row)
      BY <1>2, <1>5, <3>1 DEF Counted
    <3>3. Counted(v, profile[w])'
      BY <1>1, <1>2, <3>2, CountedStays
    <3>q. QED BY <1>1, <1>2, <1>3, <1>5, <3>3 DEF Ready, InSave
  <2>q. QED BY <1>1, <1>6, <2>1, TalliesStay, SerialMoves
<1>q. QED BY <1>7, <1>8, <1>9 DEF Inv

\* The UPDATE of a handler that runs alone writes what it counted; of others, a
\* mixture of the row and an old entity.
LEMMA UpdateStep ==
  ASSUME Inv, NEW p \in Procs, Update(p) PROVE Inv'
<1>1. /\ TypeOK /\ FlagInv /\ SerialInv /\ proc[p] \in Proc /\ Moves(p, Idle)
      /\ proc[p].pc = "update" /\ proc[p] # Idle
      /\ UNCHANGED <<day, funded, bonuses, overlap>>
  BY IdleTyped, DoneMoves DEF Inv, TypeOK, Update
<1>2. PICK w \in Workers, op \in Handlers \cup {"none"}, row \in Profile, e \in Profile,
           cols \in SUBSET DOMAIN NewProfile :
        /\ w = proc[p].w /\ op = proc[p].op /\ row = profile[w]
        /\ e = proc[p].entity /\ cols = proc[p].dirty
  BY <1>1 DEF Proc, TypeOK
<1>3. /\ profile' = [profile EXCEPT ![w] = Updated(row, e, cols)]
      /\ changes' = IF DatedToday(proc[p])
                      THEN [changes EXCEPT ![op][w] = @ + 1] ELSE changes
      /\ profile \in [Workers -> Profile]
      /\ changes \in [{"toggle", "rate"} -> [Workers -> Nat]]
  BY <1>1, <1>2 DEF Update, TypeOK
<1>4. PICK new \in Profile :
        /\ new = Updated(row, e, cols)
        /\ new.isFirstJobDone \in {row.isFirstJobDone, e.isFirstJobDone}
  BY UpdatedTyped
<1>5. /\ profile' \in [Workers -> Profile] /\ profile'[w] = new
      /\ \A x \in Workers \ {w} : profile'[x] = profile[x]
  BY <1>3, <1>4
<1>6. changes' \in [{"toggle", "rate"} -> [Workers -> Nat]]
  <2>1. CASE DatedToday(proc[p])
    <3>0. op \in {"toggle", "rate"}
      BY <1>2, <2>1 DEF DatedToday
    <3>1. changes[op] \in [Workers -> Nat] /\ changes[op][w] + 1 \in Nat
      BY <1>3, <3>0
    <3>2. [changes[op] EXCEPT ![w] = @ + 1] \in [Workers -> Nat]
      BY <3>1
    <3>3. changes' = [changes EXCEPT ![op] = [changes[op] EXCEPT ![w] = @ + 1]]
      BY <1>3, <2>1
    <3>q. QED BY <1>3, <3>0, <3>2, <3>3
  <2>2. CASE ~ DatedToday(proc[p])
    BY <1>3, <2>2
  <2>q. QED BY <2>1, <2>2
<1>7. TypeOK'
  BY <1>1, <1>5, <1>6 DEF TypeOK, Moves
<1>8. FlagInv'
  <2>1. e.isFirstJobDone \/ row.isFirstJobDone => bonuses[w] >= 1
    BY <1>1, <1>2 DEF FlagInv, FlagFollowsBonus, MaySave, InSave
  <2>2. \A x \in Workers : profile'[x].isFirstJobDone => bonuses[x] >= 1
    BY <1>1, <1>4, <1>5, <2>1 DEF FlagInv, FlagFollowsBonus
  <2>q. QED BY <1>1, <2>2, FlagMoves, IdleTyped DEF TypeOK, MaySave, InSave
<1>9. SerialInv'
  <2> SUFFICES ASSUME ~ overlap
               PROVE  (\A x \in Workers : Tallied(x, profile[x])') /\ Limited'
    BY <1>1, SerialMoves, IdleTyped DEF Ready, InSave
  <2>1. Counted(proc[p], row) /\ new = e
    <3>1. Counted(proc[p], row) /\ cols = Changed(row, e)
      BY <1>1, <1>2 DEF SerialInv, Ready, InSave
    <3>q. QED BY <1>4, <3>1, SavedAlone
  <2>2. /\ Tallied(w, row) /\ \A x \in Workers : Tallied(x, profile[x])
        /\ Limited
    BY <1>1, <1>2 DEF SerialInv
  <2>3. /\ changes.toggle \in [Workers -> Nat] /\ changes.rate \in [Workers -> Nat]
        /\ \A x \in Workers \ {w} : /\ changes'.toggle[x] = changes.toggle[x]
                                    /\ changes'.rate[x] = changes.rate[x]
        /\ changes'.toggle[w] = changes.toggle[w]
             + (IF op = "toggle" /\ e.toggleDay = day THEN 1 ELSE 0)
        /\ changes'.rate[w] = changes.rate[w] + (IF op = "rate" /\ e.rateDay = day THEN 1 ELSE 0)
    BY <1>2, <1>3 DEF DatedToday
  <2>4. /\ day \in Nat /\ e.toggles \in Nat /\ e.rates \in Nat
        /\ TogglesToday(row) \in Nat /\ RatesToday(row) \in Nat /\ Limit \in Nat
    BY <1>1, TodayTyped, RowTyped, ProfileBoundAssumption
  <2>5. /\ TogglesToday(e) = TogglesToday(row)
             + (IF op = "toggle" /\ e.toggleDay = day THEN 1 ELSE 0)
        /\ RatesToday(e) = RatesToday(row) + (IF op = "rate" /\ e.rateDay = day THEN 1 ELSE 0)
        /\ e.toggleDay <= day /\ e.rateDay <= day
        /\ TogglesToday(e) <= Limit \/ op # "toggle"
        /\ RatesToday(e) <= Limit \/ op # "rate"
    BY <1>2, <2>1, <2>2, <2>4
       DEF Counted, OneMore, SameToggles, SameRates, TogglesToday, RatesToday, Tallied
  <2>6. Tallied(w, e)' 
    BY <1>1, <2>2, <2>3, <2>4, <2>5 DEF Tallied, TogglesToday, RatesToday
  <2>7. \A x \in Workers : Tallied(x, profile[x])'
    <3>1. ASSUME NEW x \in Workers PROVE Tallied(x, profile[x])'
      <4>1. CASE x = w
        BY <1>5, <2>1, <2>6, <4>1 DEF Tallied, TogglesToday, RatesToday
      <4>2. CASE x # w
        BY <1>1, <1>5, <2>2, <2>3, <4>2 DEF Tallied, TogglesToday, RatesToday
      <4>q. QED BY <4>1, <4>2
    <3>q. QED BY <3>1
  <2>8. ASSUME NEW x \in Workers
        PROVE  changes'.toggle[x] <= Limit /\ changes'.rate[x] <= Limit
    <3>1. CASE x = w
      BY <2>2, <2>3, <2>4, <2>5, <3>1 DEF Limited, Tallied
    <3>2. CASE x # w
      BY <2>2, <2>3, <3>2 DEF Limited
    <3>q. QED BY <3>1, <3>2
  <2>q. QED BY <2>7, <2>8 DEF Limited
<1>q. QED BY <1>7, <1>8, <1>9 DEF Inv

LEMMA SpendStep ==
  ASSUME Inv, NEW w \in Workers, Spend(w) PROVE Inv'
<1>1. UNCHANGED <<day, profile, bonuses, changes, overlap, proc>>
  BY DEF Spend
<1>2. TypeOK'
  BY <1>1 DEF Inv, TypeOK, Spend
<1>q. QED
  BY <1>1, <1>2 DEF Inv, FlagInv, FlagFollowsBonus, SerialInv, Alone, Tallied, Limited,
     Ready, Counted, OneMore, Asking, SameToggles, SameRates, TogglesToday, RatesToday

\* On a new day the counters of the rows belong to an earlier one, and so do the
\* dates of the handlers in flight.
LEMMA NextDayStep ==
  ASSUME Inv, NextDay PROVE Inv'
<1>1. /\ TypeOK /\ FlagInv /\ SerialInv /\ day \in Nat /\ day' = day + 1 /\ day < LastDay
      /\ changes' = [op \in {"toggle", "rate"} |-> [w \in Workers |-> 0]]
      /\ UNCHANGED <<profile, funded, bonuses, overlap, proc>>
  BY ProfileBoundAssumption DEF Inv, TypeOK, NextDay
<1>2. TypeOK'
  BY <1>1, ProfileBoundAssumption DEF TypeOK
<1>3. FlagInv'
  BY <1>1 DEF FlagInv, FlagFollowsBonus
<1>4. SerialInv'
  <2> SUFFICES ASSUME ~ overlap
               PROVE  /\ Alone' /\ \A w \in Workers : Tallied(w, profile[w])'
                      /\ Limited' /\ \A p \in Procs : Ready(proc[p])'
    BY <1>1 DEF SerialInv
  <2>1. Alone' /\ \A p \in Procs : Ready(proc[p])'
    <3>1. Alone'
      BY <1>1 DEF SerialInv, Alone
    <3>2. ASSUME NEW p \in Procs PROVE Ready(proc[p])'
      <4>1. PICK v \in Proc, row \in Profile : v = proc[p] /\ row = profile[v.w]
        BY <1>1 DEF TypeOK, Proc
      <4>2. Ready(v) /\ Tallied(v.w, row)
        BY <1>1, <4>1 DEF SerialInv, Proc
      <4>3. /\ row.toggleDay \in Nat /\ row.rateDay \in Nat
            /\ v.entity.toggleDay \in Nat /\ v.entity.rateDay \in Nat
        BY RowTyped DEF Proc
      <4>4. TogglesToday(row)' = 0 /\ RatesToday(row)' = 0
        BY <1>1, <4>2, <4>3 DEF Tallied, TogglesToday, RatesToday
      <4>5. Counted(v, row) => Counted(v, row)'
        BY <1>1, <4>3, <4>4 DEF Counted, OneMore, SameToggles, SameRates
      <4>6. Asking(v, row) => Asking(v, row)'
        BY <1>1, <4>3, <4>4 DEF Asking, SameRates
      <4>7. proc'[p] = v /\ profile'[v.w] = row
        BY <1>1, <4>1
      <4>q. QED BY <4>1, <4>2, <4>5, <4>6, <4>7 DEF Ready, InSave, Counted, Asking
    <3>q. QED BY <3>1, <3>2
  <2>2. \A w \in Workers : changes'.toggle[w] = 0 /\ changes'.rate[w] = 0
    BY <1>1
  <2>3. Limited'
    BY <2>2, ProfileBoundAssumption DEF Limited
  <2>4. ASSUME NEW w \in Workers PROVE Tallied(w, profile[w])'
    <3>1. PICK row \in Profile : row = profile[w] /\ row = profile'[w]
      BY <1>1 DEF TypeOK
    <3>2. row.toggleDay <= day /\ row.rateDay <= day
      BY <1>1, <3>1 DEF SerialInv, Tallied
    <3>3. row.toggleDay \in Nat /\ row.rateDay \in Nat
      BY RowTyped
    <3>q. QED BY <1>1, <2>2, <3>1, <3>2, <3>3 DEF Tallied, TogglesToday, RatesToday
  <2>q. QED BY <2>1, <2>3, <2>4
<1>q. QED BY <1>2, <1>3, <1>4 DEF Inv

LEMMA StepInv == Inv /\ [Next]_vars => Inv'
<1> SUFFICES ASSUME Inv, [Next]_vars PROVE Inv'
  OBVIOUS
<1>1. CASE UNCHANGED vars
  BY <1>1 DEF vars, Inv, TypeOK, FlagInv, FlagFollowsBonus, SerialInv, Alone, Tallied,
     Limited, Ready, Counted, OneMore, Asking, SameToggles, SameRates, TogglesToday, RatesToday
<1>2. CASE Next
  BY <1>2, CallStep, ToggleStep, BalanceStep, RateStep, CompletionStep, BonusStep, RatingStep,
     SelectStep, UpdateStep, SpendStep, NextDayStep DEF Next
<1>q. QED BY <1>1, <1>2

-----------------------------------------------------------------------------
\* The profiles keep the invariant.
THEOREM Invariance == Spec => []Inv
BY InitInv, StepInv, PTL DEF Spec

\* Every variable keeps its type.
THEOREM TypeCorrect == Spec => []TypeOK
<1>1. Inv => TypeOK
  BY DEF Inv
<1>q. QED BY <1>1, Invariance, PTL

\* The flag that makes the balance a condition of going live is never stored
\* before the bonus, whichever old rows are saved over newer ones.
THEOREM BonusComesFirst == Spec => []FlagFollowsBonus
<1>1. Inv => FlagFollowsBonus
  BY DEF Inv, FlagInv
<1>q. QED BY <1>1, Invariance, PTL

\* As long as handlers run one at a time, nobody saves more than Limit changes of one
\* date, whether or not a handler spans midnight: a limit that is broken needs two
\* handlers in flight together.
THEOREM LimitHoldsAlone == Spec => []SerialLimit
<1>1. Inv => SerialLimit
  BY DEF Inv, SerialInv, SerialLimit
<1>q. QED BY <1>1, Invariance, PTL
=============================================================================
