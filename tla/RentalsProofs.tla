--------------------------- MODULE RentalsProofs ---------------------------
(***************************************************************************)
(* What TLAPS proves of module Rentals for every calendar, every set of    *)
(* items and reservations and any number of handlers in flight.            *)
(***************************************************************************)
EXTENDS Rentals, TLAPS

SameSpan(a, b) == a.item = b.item /\ a.start = b.start /\ a.end = b.end

Spans == \A r \in Stored : table[r].start < table[r].end

\* A handler in flight: what it will save, and what its overlap check showed.
ConfirmOk(v) ==
  /\ v.r \in Stored
  /\ SameSpan(table[v.r], v.row)
  /\ v.row.status = "CONFIRMED"
  /\ v.began \subseteq Confirmed
  /\ v.pc = "save" => \A q \in v.began : ~ Conflicts(table[q], v.row)
HandlerOk(v) ==
  /\ v.op \in {"request", "confirm"}
  /\ v.r \in Reservations /\ v.row \in Row
  /\ v.row.start < v.row.end
  /\ v.op = "confirm" => ConfirmOk(v)
  /\ v.op = "request" => v.r \notin Stored /\ v.row.status = "PENDING"
HandlersOk == \A p \in Procs : proc[p].pc # "idle" => HandlerOk(proc[p])

\* The identity of a reservation being requested is nobody else's.
Fresh == \A p, q \in Procs :
           p # q /\ proc[p].pc # "idle" /\ proc[p].op = "request" => proc[q].r # proc[p].r

\* A stored confirmation conflicts with none that it could see.
SeenOk == \A r \in Confirmed : \A q \in seen[r] :
            q \in Stored /\ ~ Conflicts(table[q], table[r])

Inv == TypeOK /\ Spans /\ HandlersOk /\ Fresh /\ SeenOk

-----------------------------------------------------------------------------
\* The comparison of the ends is exact for spans that are not empty.
LEMMA ConflictIsSharedHour ==
  ASSUME NEW a \in Row, NEW b \in Row, a.start < a.end, b.start < b.end
  PROVE  Conflicts(a, b) <=> ShareAnHour(a, b)
<1>1. /\ a.start \in Int /\ a.end \in Int /\ b.start \in Int /\ b.end \in Int
      /\ a.start \in Time /\ b.start \in Time
  BY HoursAssumption DEF Row, Time
<1>2. ASSUME Conflicts(a, b) PROVE ShareAnHour(a, b)
  <2>1. CASE a.start <= b.start
    <3>1. b.start \in HoursOf(a) /\ b.start \in HoursOf(b)
      BY <1>1, <1>2, <2>1 DEF HoursOf, Conflicts
    <3>q. QED BY <1>2, <3>1 DEF ShareAnHour, Conflicts
  <2>2. CASE b.start < a.start
    <3>1. a.start \in HoursOf(a) /\ a.start \in HoursOf(b)
      BY <1>1, <1>2, <2>2 DEF HoursOf, Conflicts
    <3>q. QED BY <1>2, <3>1 DEF ShareAnHour, Conflicts
  <2>q. QED BY <1>1, <2>1, <2>2
<1>3. ASSUME ShareAnHour(a, b) PROVE Conflicts(a, b)
  <2>1. PICK h \in Time : h \in HoursOf(a) /\ h \in HoursOf(b)
    BY <1>3 DEF ShareAnHour, HoursOf
  <2>2. h \in Int
    BY HoursAssumption DEF Time
  <2>q. QED BY <1>1, <1>3, <2>1, <2>2 DEF HoursOf, Conflicts, ShareAnHour
<1>q. QED BY <1>2, <1>3

\* Conflicts looks at the item and the ends only, and does not mind the order.
LEMMA ConflictsSpan ==
  ASSUME NEW a, NEW b, NEW c, NEW d, SameSpan(a, c), SameSpan(b, d)
  PROVE  Conflicts(a, b) <=> Conflicts(c, d)
BY DEF Conflicts, SameSpan

\* A handler that is done is idle and names no reservation.
LEMMA IdleIs == Idle \in Proc /\ Idle.pc = "idle" /\ Idle.r = None
BY DEF Idle, Proc

-----------------------------------------------------------------------------
\* Nothing is reserved or in flight at first.
LEMMA InvInit == Init => Inv
<1> SUFFICES ASSUME Init PROVE Inv
  OBVIOUS
<1>1. Stored = {} /\ Confirmed = {}
  BY DEF Init, Stored, Confirmed
<1>2. TypeOK
  BY IdleIs DEF Init, TypeOK
<1>3. \A p \in Procs : proc[p].pc = "idle"
  BY IdleIs DEF Init
<1>q. QED BY <1>1, <1>2, <1>3 DEF Inv, Spans, HandlersOk, Fresh, SeenOk

\* A step that leaves the table alone and lets one handler begin, go on or end.
LEMMA HandlerStep ==
  ASSUME Inv, NEW p \in Procs, NEW v \in Proc,
         proc' = [proc EXCEPT ![p] = v], UNCHANGED <<table, seen>>,
         v.pc = "idle" => v.r = None,
         v.pc # "idle" => HandlerOk(v),
         \/ v.r = None
         \/ v.r = proc[p].r /\ v.op = proc[p].op /\ proc[p].pc # "idle"
         \/ v.op = "confirm" /\ v.r \in Stored
         \/ v.op = "request" /\ \A q \in Procs : proc[q].r # v.r
  PROVE  Inv'
<1>1. TypeOK /\ Spans /\ HandlersOk /\ Fresh /\ SeenOk
  BY DEF Inv
<1>2. Stored' = Stored /\ Confirmed' = Confirmed
  BY DEF Stored, Confirmed
<1>3. proc \in [Procs -> Proc] /\ proc'[p] = v /\ \A q \in Procs \ {p} : proc'[q] = proc[q]
  BY <1>1 DEF TypeOK
<1>4. TypeOK'
  BY <1>1 DEF TypeOK
<1>5. Spans' /\ SeenOk'
  BY <1>1, <1>2 DEF Spans, SeenOk
<1>6. HandlersOk'
  <2>1. \A w \in Proc : HandlerOk(w)' <=> HandlerOk(w)
    BY <1>2 DEF HandlerOk, ConfirmOk
  <2>2. \A q \in Procs : proc'[q] \in Proc /\ (proc'[q].pc # "idle" => HandlerOk(proc'[q]))
    BY <1>1, <1>3 DEF HandlersOk
  <2>q. QED BY <2>2, <1>2 DEF HandlersOk, HandlerOk, ConfirmOk
<1>7. Fresh'
  <2>1. SUFFICES ASSUME NEW a \in Procs, NEW b \in Procs, a # b,
                        proc'[a].pc # "idle", proc'[a].op = "request"
                 PROVE  proc'[b].r # proc'[a].r
    BY DEF Fresh
  <2>2. CASE a # p /\ b # p
    BY <1>1, <1>3, <2>1, <2>2 DEF Fresh
  <2>3. CASE a = p
    <3>1. v.pc # "idle" /\ v.op = "request" /\ v.r \in Reservations
      BY <1>3, <2>1, <2>3 DEF HandlerOk
    <3>2. proc[b].r # v.r
      BY <1>1, <1>3, <2>1, <2>3, <3>1, NoneAssumption DEF Fresh
    <3>q. QED BY <1>3, <2>1, <2>3, <3>2
  <2>4. CASE b = p
    <3>1. proc'[a] = proc[a] /\ proc[a].r \in Reservations \ Stored
      BY <1>1, <1>3, <2>1, <2>4 DEF HandlersOk, HandlerOk
    <3>2. v.r # proc[a].r
      BY <1>1, <1>3, <2>1, <2>4, <3>1, NoneAssumption DEF Fresh
    <3>q. QED BY <1>3, <2>4, <3>1, <3>2
  <2>q. QED BY <2>2, <2>3, <2>4
<1>q. QED BY <1>4, <1>5, <1>6, <1>7 DEF Inv

\* requestReservation accepts the item and the span.
LEMMA RequestStep ==
  ASSUME Inv, NEW p \in Procs, NEW r \in Reservations, NEW i \in Items,
         NEW s \in Time, NEW e \in Time, RequestReservation(p, r, i, s, e)
  PROVE  Inv'
<1> DEFINE row == [item |-> i, start |-> s, end |-> e, status |-> "PENDING"]
           v == [op |-> "request", r |-> r, pc |-> "check", began |-> {}, row |-> row]
<1>1. row \in Row /\ row.start < row.end /\ row.status = "PENDING"
  BY DEF RequestReservation, Accepts, Row
<1>2. v \in Proc /\ v.pc = "check" /\ v.op = "request" /\ v.r = r /\ v.row = row
  BY <1>1 DEF Proc
<1>3. proc' = [proc EXCEPT ![p] = v] /\ UNCHANGED <<table, seen>>
  BY DEF RequestReservation
<1>4. r \notin Stored /\ \A q \in Procs : proc[q].r # r
  BY DEF RequestReservation, Stored
<1>5. HandlerOk(v)
  BY <1>1, <1>2, <1>4 DEF HandlerOk
<1> HIDE DEF v
<1>q. QED BY <1>2, <1>3, <1>4, <1>5, HandlerStep

\* confirmReservation reads a pending reservation.
LEMMA ConfirmStep ==
  ASSUME Inv, NEW p \in Procs, NEW r \in Reservations, ConfirmReservation(p, r)
  PROVE  Inv'
<1> DEFINE row == [table[r] EXCEPT !.status = "CONFIRMED"]
           v == [op |-> "confirm", r |-> r, pc |-> "check", began |-> Confirmed, row |-> row]
<1>1. r \in Stored /\ table[r] \in Row /\ table[r].start < table[r].end
  BY DEF ConfirmReservation, Stored, Inv, TypeOK, Spans
<1>2. row \in Row /\ SameSpan(table[r], row) /\ row.status = "CONFIRMED" /\ row.start < row.end
  BY <1>1 DEF Row, SameSpan
<1>3. /\ v \in Proc /\ v.pc = "check" /\ v.op = "confirm" /\ v.r = r /\ v.row = row
      /\ v.began = Confirmed
  BY <1>2 DEF Proc, Confirmed, Stored
<1>4. proc' = [proc EXCEPT ![p] = v] /\ UNCHANGED <<table, seen>>
  BY DEF ConfirmReservation
<1>5. HandlerOk(v)
  BY <1>1, <1>2, <1>3 DEF HandlerOk, ConfirmOk
<1> HIDE DEF v
<1>q. QED BY <1>1, <1>3, <1>4, <1>5, HandlerStep

\* The overlap check: refuse, or go on to save knowing that nothing conflicts.
LEMMA CheckStep ==
  ASSUME Inv, NEW p \in Procs, Check(p) PROVE Inv'
<1>1. /\ proc[p] \in Proc /\ proc[p].pc = "check" /\ HandlerOk(proc[p])
      /\ UNCHANGED <<table, seen>>
  BY DEF Check, Inv, TypeOK, HandlersOk
<1>2. CASE CheckOverlap(proc[p].row)
  <2>1. proc' = [proc EXCEPT ![p] = Idle]
    BY <1>2 DEF Check, Done
  <2>q. QED BY <1>1, <2>1, IdleIs, HandlerStep
<1>3. CASE ~ CheckOverlap(proc[p].row)
  <2> DEFINE v == [proc[p] EXCEPT !.pc = "save"]
  <2>1. /\ v \in Proc /\ v.pc = "save" /\ v.op = proc[p].op /\ v.r = proc[p].r
        /\ v.row = proc[p].row /\ v.began = proc[p].began
    BY <1>1 DEF Proc
  <2>2. proc' = [proc EXCEPT ![p] = v]
    BY <1>3 DEF Check
  <2>3. \A q \in Confirmed : ~ Conflicts(table[q], v.row)
    BY <1>3, <2>1 DEF CheckOverlap
  <2>4. HandlerOk(v)
    BY <1>1, <2>1, <2>3 DEF HandlerOk, ConfirmOk
  <2> HIDE DEF v
  <2>q. QED BY <1>1, <2>1, <2>2, <2>4, HandlerStep
<1>q. QED BY <1>2, <1>3

-----------------------------------------------------------------------------
\* A stored reservation stays where it is in the calendar, and confirmed.
LEMMA SaveShape ==
  ASSUME Inv, NEW p \in Procs, Save(p)
  PROVE  /\ HandlerOk(proc[p]) /\ proc[p] \in Proc
         /\ proc'[p] = Idle /\ \A q \in Procs \ {p} : proc'[q] = proc[q]
         /\ Stored' = Stored \cup {proc[p].r}
         /\ table'[proc[p].r] = proc[p].row
         /\ \A r \in Stored : SameSpan(table[r], table'[r])
         /\ Confirmed \subseteq Confirmed'
         /\ \A r \in Confirmed' : r \in Confirmed \/ (r = proc[p].r /\ proc[p].op = "confirm")
<1>1. TypeOK /\ HandlersOk
  BY DEF Inv
<1>2. HandlerOk(proc[p]) /\ proc[p] \in Proc
  BY <1>1 DEF Save, TypeOK, HandlersOk
<1>3. /\ proc'[p] = Idle /\ \A q \in Procs \ {p} : proc'[q] = proc[q]
  BY <1>1 DEF Save, Done, TypeOK
<1>4. /\ table'[proc[p].r] = proc[p].row /\ proc[p].row # None /\ proc[p].r \in Reservations
      /\ \A r \in Reservations \ {proc[p].r} : table'[r] = table[r]
  BY <1>1, <1>2, NoneAssumption DEF Save, TypeOK, HandlerOk
<1>5. Stored' = Stored \cup {proc[p].r}
  BY <1>4 DEF Stored
<1>6. \A r \in Stored : SameSpan(table[r], table'[r])
  <2>1. TAKE r \in Stored
  <2>2. CASE r = proc[p].r
    BY <1>2, <1>4, <2>1, <2>2 DEF HandlerOk, ConfirmOk
  <2>3. CASE r # proc[p].r
    BY <1>4, <2>1, <2>3 DEF Stored, SameSpan
  <2>q. QED BY <2>2, <2>3
<1>7. Confirmed \subseteq Confirmed'
  BY <1>2, <1>4, <1>5 DEF Confirmed, Stored, HandlerOk, ConfirmOk
<1>8. \A r \in Confirmed' : r \in Confirmed \/ (r = proc[p].r /\ proc[p].op = "confirm")
  <2>1. TAKE r \in Confirmed'
  <2>2. r \in Reservations /\ table'[r].status = "CONFIRMED" /\ r \in Stored'
    BY <2>1 DEF Confirmed, Stored
  <2>3. CASE r # proc[p].r
    <3>1. table'[r] = table[r] /\ r \in Stored
      BY <1>4, <1>5, <2>2, <2>3
    <3>q. QED BY <2>2, <3>1 DEF Confirmed
  <2>4. CASE r = proc[p].r
    BY <1>2, <1>4, <2>2, <2>4 DEF HandlerOk
  <2>q. QED BY <2>3, <2>4
<1>q. QED BY <1>2, <1>3, <1>4, <1>5, <1>6, <1>7, <1>8

\* What the history variable records of a confirmation.
LEMMA SaveSeen ==
  ASSUME Inv, NEW p \in Procs, Save(p)
  PROVE  /\ seen' \in [Reservations -> SUBSET Reservations]
         /\ \A r \in Confirmed : seen'[r] = seen[r]
         /\ proc[p].r \in Confirmed' \ Confirmed => seen'[proc[p].r] = proc[p].began
BY SaveShape DEF Save, Inv, TypeOK, Proc, HandlerOk, Confirmed, Stored

\* Saving a confirmation keeps SeenOk: it conflicts with none of those that
\* were confirmed when it began.
LEMMA SaveSeenOk ==
  ASSUME Inv, NEW p \in Procs, Save(p) PROVE SeenOk'
<1>1. SUFFICES ASSUME NEW r \in Confirmed', NEW q \in seen'[r]
               PROVE  q \in Stored' /\ ~ Conflicts(table'[q], table'[r])
  BY DEF SeenOk
<1>2. /\ \A x \in Stored : x \in Stored' /\ SameSpan(table[x], table'[x])
      /\ HandlerOk(proc[p]) /\ table'[proc[p].r] = proc[p].row
      /\ r \in Confirmed \/ (r = proc[p].r /\ proc[p].op = "confirm")
      /\ Confirmed \subseteq Stored
  BY <1>1, SaveShape DEF Confirmed
<1>3. CASE r \in Confirmed
  <2>1. q \in Stored /\ ~ Conflicts(table[q], table[r])
    BY <1>1, <1>3, SaveSeen DEF Inv, SeenOk
  <2>2. SameSpan(table[q], table'[q]) /\ SameSpan(table[r], table'[r])
    BY <1>2, <1>3, <2>1
  <2>q. QED BY <1>2, <2>1, <2>2, ConflictsSpan
<1>4. CASE r \notin Confirmed
  <2>1. q \in proc[p].began /\ proc[p].pc = "save" /\ ConfirmOk(proc[p])
    <3>1. r = proc[p].r /\ proc[p].op = "confirm"
      BY <1>2, <1>4
    <3>2. seen'[r] = proc[p].began
      BY <1>1, <1>4, <3>1, SaveSeen
    <3>q. QED BY <1>1, <1>2, <3>1, <3>2 DEF Save, HandlerOk
  <2>2. q \in Stored /\ ~ Conflicts(table[q], table'[r])
    BY <1>2, <1>4, <2>1 DEF ConfirmOk
  <2>3. SameSpan(table[q], table'[q]) /\ SameSpan(table'[r], table'[r])
    BY <1>2, <2>2 DEF SameSpan
  <2>q. QED BY <1>2, <2>2, <2>3, ConflictsSpan
<1>q. QED BY <1>3, <1>4

\* Saving a reservation keeps what the other handlers in flight rely on.
LEMMA SaveHandlersOk ==
  ASSUME Inv, NEW p \in Procs, Save(p) PROVE HandlersOk'
<1>1. SUFFICES ASSUME NEW q \in Procs, proc'[q].pc # "idle"
               PROVE  HandlerOk(proc[q])' 
  BY DEF HandlersOk
<1>2. q # p /\ proc'[q] = proc[q] /\ HandlerOk(proc[q]) /\ proc[q].pc # "idle"
  BY <1>1, SaveShape, IdleIs DEF Inv, HandlersOk
<1>3. /\ Stored' = Stored \cup {proc[p].r} /\ Confirmed \subseteq Confirmed'
      /\ Confirmed \subseteq Stored
      /\ \A r \in Stored : SameSpan(table[r], table'[r])
      /\ HandlerOk(proc[p]) /\ proc[p].pc # "idle"
  BY SaveShape DEF Save, Confirmed
<1>4. ASSUME proc[q].op = "request" PROVE proc[q].r \notin Stored'
  BY <1>2, <1>3, <1>4 DEF Inv, Fresh, HandlerOk
<1>5. ASSUME proc[q].op = "confirm" PROVE ConfirmOk(proc[q])'
  <2>1. ConfirmOk(proc[q])
    BY <1>2, <1>5 DEF HandlerOk
  <2>2. proc[q].r \in Stored' /\ SameSpan(table'[proc[q].r], proc[q].row)
    BY <1>3, <2>1 DEF ConfirmOk, SameSpan
  <2>3. proc[q].began \subseteq Confirmed'
    BY <1>3, <2>1 DEF ConfirmOk
  <2>4. ASSUME proc[q].pc = "save", NEW x \in proc[q].began
        PROVE  ~ Conflicts(table'[x], proc[q].row)
    <3>1. ~ Conflicts(table[x], proc[q].row) /\ x \in Stored
      BY <1>3, <2>1, <2>4 DEF ConfirmOk
    <3>2. SameSpan(table[x], table'[x]) /\ SameSpan(proc[q].row, proc[q].row)
      BY <1>3, <3>1 DEF SameSpan
    <3>q. QED BY <3>1, <3>2, ConflictsSpan
  <2>q. QED BY <1>2, <2>1, <2>2, <2>3, <2>4 DEF ConfirmOk
<1>q. QED BY <1>2, <1>4, <1>5 DEF HandlerOk

\* Saving a reservation preserves the invariant.
LEMMA SaveStep ==
  ASSUME Inv, NEW p \in Procs, Save(p) PROVE Inv'
<1>1. TypeOK'
  BY SaveShape, SaveSeen, IdleIs DEF Save, Done, Inv, TypeOK, HandlerOk
<1>2. Spans'
  BY SaveShape DEF Inv, Spans, HandlerOk, SameSpan
<1>3. Fresh'
  <2>1. \A q \in Procs : proc'[q].pc # "idle" => q # p /\ proc'[q] = proc[q]
    BY SaveShape, IdleIs
  <2>2. \A q \in Procs : q # p => proc'[q] = proc[q]
    BY SaveShape
  <2>3. \A q \in Procs : proc[q].pc # "idle" => proc[q].r # None
    BY NoneAssumption DEF Inv, HandlersOk, HandlerOk
  <2>q. QED BY <2>1, <2>2, <2>3, SaveShape, IdleIs DEF Inv, Fresh
<1>q. QED BY <1>1, <1>2, <1>3, SaveSeenOk, SaveHandlersOk DEF Inv

\* Every step preserves the invariant.
LEMMA InvNext == Inv /\ [Next]_vars => Inv'
<1> SUFFICES ASSUME Inv, [Next]_vars PROVE Inv'
  OBVIOUS
<1>1. ASSUME NEW p \in Procs, NEW r \in Reservations, NEW i \in Items,
             NEW s \in Time, NEW e \in Time, RequestReservation(p, r, i, s, e)
      PROVE  Inv'
  BY <1>1, RequestStep
<1>2. ASSUME NEW p \in Procs, NEW r \in Reservations, ConfirmReservation(p, r) PROVE Inv'
  BY <1>2, ConfirmStep
<1>3. ASSUME NEW p \in Procs, Check(p) PROVE Inv'
  BY <1>3, CheckStep
<1>4. ASSUME NEW p \in Procs, Save(p) PROVE Inv'
  BY <1>4, SaveStep
<1>5. CASE UNCHANGED vars
  BY <1>5 DEF vars, Inv, TypeOK, Spans, HandlersOk, HandlerOk, ConfirmOk, Fresh, SeenOk,
              Stored, Confirmed
<1>q. QED BY <1>1, <1>2, <1>3, <1>4, <1>5 DEF Next

\* In every reachable state the conjuncts of the inductive invariant hold.
THEOREM Invariance == Spec => []Inv
<1>1. Inv /\ [Next]_vars => Inv'
  BY InvNext
<1>q. QED BY InvInit, <1>1, PTL DEF Spec

\* Every reachable state of the reservations has the declared types.
THEOREM TypeCorrect == Spec => []TypeOK
<1>1. Inv => TypeOK
  BY DEF Inv
<1>q. QED BY <1>1, Invariance, PTL

\* checkOverlap's comparison of the ends says of any two stored reservations
\* exactly whether they share an hour.
THEOREM OverlapExact == Spec => []OverlapIsSharedHour
<1>1. Inv => OverlapIsSharedHour
  <2>1. SUFFICES ASSUME Inv, NEW r \in Stored, NEW q \in Stored
                 PROVE  Conflicts(table[r], table[q]) <=> ShareAnHour(table[r], table[q])
    BY DEF OverlapIsSharedHour
  <2>2. /\ table[r] \in Row /\ table[r].start < table[r].end
        /\ table[q] \in Row /\ table[q].start < table[q].end
    BY <2>1 DEF Inv, TypeOK, Spans, Stored
  <2>q. QED BY <2>2, ConflictIsSharedHour
<1>q. QED BY <1>1, Invariance, PTL

\* A confirmation that began when an overlapping reservation was confirmed
\* already is refused: double bookings need two confirmations in flight.
THEOREM LateRefused == Spec => []LateConfirmationRefused
<1>1. Inv => LateConfirmationRefused
  <2>1. SUFFICES ASSUME Inv, NEW r \in Confirmed, NEW q \in Confirmed, r # q,
                        ShareAnHour(table[r], table[q])
                 PROVE  q \notin seen[r] /\ r \notin seen[q]
    BY DEF LateConfirmationRefused
  <2>2. /\ table[r] \in Row /\ table[r].start < table[r].end
        /\ table[q] \in Row /\ table[q].start < table[q].end
    BY <2>1 DEF Inv, TypeOK, Spans, Confirmed, Stored
  <2>3. Conflicts(table[r], table[q])
    BY <2>1, <2>2, ConflictIsSharedHour
  <2>4. Conflicts(table[q], table[r])
    <3>1. ShareAnHour(table[q], table[r])
      BY <2>1 DEF ShareAnHour
    <3>q. QED BY <2>2, <3>1, ConflictIsSharedHour
  <2>q. QED BY <2>1, <2>3, <2>4 DEF Inv, SeenOk
<1>q. QED BY <1>1, Invariance, PTL
=============================================================================
