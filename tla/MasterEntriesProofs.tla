------------------------ MODULE MasterEntriesProofs ------------------------
(***************************************************************************)
(* What TLAPS proves of module MasterEntries for every set of ids, types,  *)
(* filters and handlers in flight, with failing Redis commands and lost    *)
(* handlers.                                                               *)
(***************************************************************************)
EXTENDS MasterEntries, TLAPS

\* What a handler in flight knows: a new id is new, an old one old, and an update of
\* an entry removed meanwhile is noted.
HandlerOk(v) ==
  /\ v.pc = "insert" => v.op \in {"create", "update"}
  /\ v.op \in {"update", "remove"} => v.e \in used
  /\ v.op = "create" /\ v.pc = "insert" => v.e \notin used
  /\ v.op = "update" /\ v.e \in removed => v.e \in revived
HandlerInv == \A p \in Procs : HandlerOk(proc[p])

\* Two rows to be inserted have two ids.
Inserting(p) == proc[p].op = "create" /\ proc[p].pc = "insert"
NewIdsInv == \A p, q \in Procs : Inserting(p) /\ Inserting(q) /\ p # q => proc[p].e # proc[q].e

TableInv == \A e \in Entries : table[e] # None => e \in used

RowInv == TypeOK /\ HandlerInv /\ NewIdsInv /\ TableInv /\ RemovedStaysOut

\* A list read before a write is still to be stored only while that write has not
\* asked for the keys yet, or it is counted as escaped.
StoreInv == ~ gap => \A q \in Procs : Escapes(q) => \E p \in Procs : proc[p].pc = "keys"

ListInv == StoreInv /\ ListsFollowTable

-----------------------------------------------------------------------------
LEMMA IdleTyped == Idle \in Proc /\ Idle.pc = "idle" /\ Idle.op = "none"
<1>1. SomeEntry \in Entries /\ SomeFilter \in Filters /\ SomeRow \in Row
  BY EntriesAssumption DEF SomeEntry, SomeFilter, SomeRow, Row
<1>q. QED BY <1>1 DEF Idle, Proc

LEMMA ListedTyped ==
  ASSUME TypeOK, NEW f \in Filters PROVE Listed(f) \in Lists
<1> DEFINE found == {e \in Entries : table[e] # None /\ Holds(f, table[e])}
<1>1. \A e \in found : table[e] \in Row
  BY DEF TypeOK
<1>2. [e \in found |-> table[e]] \in [found -> Row] /\ found \in SUBSET Entries
  BY <1>1
<1>q. QED BY <1>2 DEF Listed, Lists

LEMMA UpdatedTyped ==
  ASSUME NEW row \in Row, NEW entity \in Row, NEW cols
  PROVE  Updated(row, entity, cols) \in Row /\ Changed(row, entity) \subseteq {"type", "isActive"}
BY DEF Updated, Changed, Row

\* What replaces the record of one handler.
LEMMA OneMoves ==
  ASSUME TypeOK, NEW p \in Procs, NEW v \in Proc, proc' = [proc EXCEPT ![p] = v]
  PROVE  /\ proc' \in [Procs -> Proc] /\ proc'[p] = v
         /\ \A q \in Procs \ {p} : proc'[q] = proc[q]
BY DEF TypeOK

LEMMA DoneMoves ==
  ASSUME TypeOK, NEW p \in Procs, Done(p)
  PROVE  /\ proc' \in [Procs -> Proc] /\ proc'[p] = Idle
         /\ \A q \in Procs \ {p} : proc'[q] = proc[q]
BY IdleTyped, OneMoves DEF Done

LEMMA GotoMoves ==
  ASSUME TypeOK, NEW p \in Procs,
         NEW pc \in {"insert", "keys"}, Goto(p, pc)
  PROVE  /\ proc' \in [Procs -> Proc]
         /\ proc'[p].pc = pc /\ proc'[p].op = proc[p].op /\ proc'[p].e = proc[p].e
         /\ \A q \in Procs \ {p} : proc'[q] = proc[q]
<1>1. proc[p] \in Proc
  BY DEF TypeOK
<1> DEFINE v == [proc[p] EXCEPT !.pc = pc]
<1>2. v \in Proc /\ v.pc = pc /\ v.op = proc[p].op /\ v.e = proc[p].e
  BY <1>1 DEF Proc
<1>3. proc' = [proc EXCEPT ![p] = v]
  BY DEF Goto
<1>q. QED BY <1>2, <1>3, OneMoves

-----------------------------------------------------------------------------
(***************************************************************************)
(* The rows.                                                               *)
(***************************************************************************)
\* A step of p that leaves the table and its history alone, and starts nothing new
\* at an insert unless it is an update's.
LEMMA QuietStep ==
  ASSUME RowInv, NEW p \in Procs, UNCHANGED <<table, used, removed, revived>>,
         proc' \in [Procs -> Proc], \A q \in Procs \ {p} : proc'[q] = proc[q],
         HandlerOk(proc'[p]), ~ (proc'[p].op = "create" /\ proc'[p].pc = "insert"),
         cache' \in [Filters -> Lists \cup {None}], gap' \in BOOLEAN
  PROVE  RowInv'
<1>1. TypeOK'
  BY DEF RowInv, TypeOK
<1>2. HandlerInv'
  BY DEF RowInv, HandlerInv, HandlerOk
<1>3. NewIdsInv'
  BY DEF RowInv, NewIdsInv, Inserting
<1>q. QED BY <1>1, <1>2, <1>3 DEF RowInv, TableInv, RemovedStaysOut

LEMMA DoneQuietly ==
  ASSUME RowInv, NEW p \in Procs, UNCHANGED <<table, used, removed, revived>>, Done(p),
         cache' \in [Filters -> Lists \cup {None}], gap' \in BOOLEAN
  PROVE  RowInv'
<1>1. /\ proc' \in [Procs -> Proc] /\ proc'[p] = Idle
      /\ \A q \in Procs \ {p} : proc'[q] = proc[q]
  BY DoneMoves DEF RowInv
<1>2. HandlerOk(proc'[p]) /\ ~ (proc'[p].op = "create" /\ proc'[p].pc = "insert")
  BY <1>1, IdleTyped DEF HandlerOk
<1>q. QED BY <1>1, <1>2, QuietStep

LEMMA InitRows == Init => RowInv
<1> SUFFICES ASSUME Init PROVE RowInv
  OBVIOUS
<1>1. TypeOK
  BY IdleTyped DEF Init, TypeOK
<1>2. \A p \in Procs : proc[p] = Idle
  BY DEF Init
<1>3. HandlerInv /\ NewIdsInv
  BY <1>2, IdleTyped DEF HandlerInv, HandlerOk, NewIdsInv, Inserting
<1>4. TableInv /\ RemovedStaysOut
  BY DEF Init, TableInv, RemovedStaysOut
<1>q. QED BY <1>1, <1>3, <1>4 DEF RowInv

\* The arrival of a request.
LEMMA CreateRows ==
  ASSUME RowInv, NEW p \in Procs, Create(p) PROVE RowInv'
<1>1. PICK e \in Entries \ (used \cup {proc[q].e : q \in {x \in Procs : proc[x].op = "create"}}),
           row \in Row :
        Start(p, [Idle EXCEPT !.op = "create", !.pc = "insert", !.e = e, !.row = row])
  BY DEF Create
<1> DEFINE v == [Idle EXCEPT !.op = "create", !.pc = "insert", !.e = e, !.row = row]
<1>2. v \in Proc /\ v.op = "create" /\ v.pc = "insert" /\ v.e = e
  BY IdleTyped DEF Proc, Ops, Writers
<1>3. /\ proc' \in [Procs -> Proc] /\ proc'[p] = v
      /\ \A q \in Procs \ {p} : proc'[q] = proc[q]
  <2>1. proc' = [proc EXCEPT ![p] = v]
    BY <1>1 DEF Start
  <2>q. QED BY <1>2, <2>1, OneMoves DEF RowInv
<1>4. UNCHANGED <<table, cache, used, removed, gap, revived>>
  BY DEF Create
<1>5. TypeOK' /\ TableInv' /\ RemovedStaysOut'
  BY <1>3, <1>4 DEF RowInv, TypeOK, TableInv, RemovedStaysOut
<1>6. HandlerInv'
  <2>1. e \notin used
    BY <1>1
  <2>2. \A q \in Procs \ {p} : HandlerOk(proc[q])'
    BY <1>3, <1>4 DEF RowInv, HandlerInv, HandlerOk
  <2>3. HandlerOk(proc[p])'
    BY <1>2, <1>3, <1>4, <2>1 DEF HandlerOk
  <2>q. QED BY <2>2, <2>3 DEF HandlerInv
<1>7. NewIdsInv'
  <2>1. \A q \in Procs : Inserting(q) => proc[q].e # e
    BY <1>1 DEF Inserting
  <2> HIDE DEF v
  <2>2. proc'[p].e = e /\ \A q \in Procs \ {p} : Inserting(q)' => proc'[q].e # e
    BY <1>2, <1>3, <2>1 DEF Inserting
  <2>3. \A q, r \in Procs \ {p} :
          Inserting(q)' /\ Inserting(r)' /\ q # r => proc'[q].e # proc'[r].e
    BY <1>3 DEF RowInv, NewIdsInv, Inserting
  <2>q. QED BY <2>2, <2>3 DEF NewIdsInv
<1>q. QED BY <1>5, <1>6, <1>7 DEF RowInv

LEMMA StartRows ==
  ASSUME RowInv, NEW p \in Procs, Update(p) \/ Remove(p) \/ Find(p) PROVE RowInv'
<1>1. UNCHANGED <<table, cache, used, removed, gap, revived>>
  BY DEF Update, Remove, Find
<1>2. cache' \in [Filters -> Lists \cup {None}] /\ gap' \in BOOLEAN
  BY <1>1 DEF RowInv, TypeOK
<1>3. ASSUME NEW v \in Proc, Start(p, v), HandlerOk(v), v.op # "create" PROVE RowInv'
  <2>1. proc' = [proc EXCEPT ![p] = v]
    BY <1>3 DEF Start
  <2>2. /\ proc' \in [Procs -> Proc] /\ proc'[p] = v
        /\ \A q \in Procs \ {p} : proc'[q] = proc[q]
    BY <2>1, OneMoves DEF RowInv
  <2>q. QED BY <1>1, <1>2, <1>3, <2>2, QuietStep
<1>4. \A e \in Entries : table[e] # None => e \in used /\ (e \in removed => e \in revived)
  BY DEF RowInv, TableInv, RemovedStaysOut
<1>5. CASE Update(p)
  <2>1. PICK e \in Entries, row \in Row :
          /\ table[e] # None
          /\ Start(p, [Idle EXCEPT !.op = "update", !.pc = "select", !.e = e, !.row = row])
    BY <1>5 DEF Update
  <2> DEFINE v == [Idle EXCEPT !.op = "update", !.pc = "select", !.e = e, !.row = row]
  <2>2. v \in Proc /\ v.op = "update" /\ v.pc = "select" /\ v.e = e
    BY IdleTyped DEF Proc, Ops, Writers
  <2>3. HandlerOk(v)
    BY <1>4, <2>1, <2>2 DEF HandlerOk
  <2>q. QED BY <1>3, <2>1, <2>2, <2>3
<1>6. CASE Remove(p)
  <2>1. PICK e \in Entries :
          /\ table[e] # None
          /\ Start(p, [Idle EXCEPT !.op = "remove", !.pc = "delete", !.e = e])
    BY <1>6 DEF Remove
  <2> DEFINE v == [Idle EXCEPT !.op = "remove", !.pc = "delete", !.e = e]
  <2>2. v \in Proc /\ v.op = "remove" /\ v.pc = "delete" /\ v.e = e
    BY IdleTyped DEF Proc, Ops, Writers
  <2>3. HandlerOk(v)
    BY <1>4, <2>1, <2>2 DEF HandlerOk
  <2>q. QED BY <1>3, <2>1, <2>2, <2>3
<1>7. CASE Find(p)
  <2>1. PICK f \in Filters : Start(p, [Idle EXCEPT !.op = "find", !.pc = "query", !.f = f])
    BY <1>7 DEF Find
  <2> DEFINE v == [Idle EXCEPT !.op = "find", !.pc = "query", !.f = f]
  <2>2. v \in Proc /\ v.op = "find" /\ v.pc = "query"
    BY IdleTyped DEF Proc, Ops, Writers
  <2>3. HandlerOk(v)
    BY <2>2 DEF HandlerOk
  <2>q. QED BY <1>3, <2>1, <2>2, <2>3
<1>q. QED BY <1>5, <1>6, <1>7

LEMMA SelectRows ==
  ASSUME RowInv, NEW p \in Procs, Select(p) PROVE RowInv'
<1>1. /\ proc[p] \in Proc /\ proc[p].op = "update" /\ HandlerOk(proc[p])
      /\ UNCHANGED <<table, cache, used, removed, gap, revived>>
  BY DEF RowInv, TypeOK, HandlerInv, Select, At
<1>2. cache' \in [Filters -> Lists \cup {None}] /\ gap' \in BOOLEAN
  BY <1>1 DEF RowInv, TypeOK
<1>3. CASE table[proc[p].e] = None
  <2>1. Goto(p, "insert")
    BY <1>3 DEF Select
  <2>2. /\ proc' \in [Procs -> Proc] /\ proc'[p].pc = "insert" /\ proc'[p].op = proc[p].op
        /\ proc'[p].e = proc[p].e /\ \A q \in Procs \ {p} : proc'[q] = proc[q]
    BY <2>1, GotoMoves DEF RowInv
  <2>3. HandlerOk(proc'[p])
    BY <1>1, <2>2 DEF HandlerOk
  <2>q. QED BY <1>1, <1>2, <2>2, <2>3, QuietStep
<1>4. CASE table[proc[p].e] # None
  <2>1. table[proc[p].e] \in Row /\ proc[p].row \in Row
    BY <1>1, <1>4 DEF RowInv, TypeOK, Proc
  <2> DEFINE v == [proc[p] EXCEPT !.pc = "update",
                                  !.dirty = Changed(table[proc[p].e], proc[p].row)]
  <2>2. v \in Proc /\ v.pc = "update" /\ v.op = proc[p].op /\ v.e = proc[p].e
    BY <1>1, <2>1, UpdatedTyped DEF Proc
  <2>3. proc' = [proc EXCEPT ![p] = v]
    BY <1>4 DEF Select
  <2>4. /\ proc' \in [Procs -> Proc] /\ proc'[p] = v
        /\ \A q \in Procs \ {p} : proc'[q] = proc[q]
    BY <2>2, <2>3, OneMoves DEF RowInv
  <2>5. HandlerOk(v)
    BY <1>1, <2>2 DEF HandlerOk
  <2>q. QED BY <1>1, <1>2, <2>2, <2>4, <2>5, QuietStep
<1>q. QED BY <1>3, <1>4

\* The UPDATE changes a row that is there, or none.
LEMMA SaveRows ==
  ASSUME RowInv, NEW p \in Procs, SaveRow(p) PROVE RowInv'
<1> DEFINE e == proc[p].e
<1>1. /\ proc[p] \in Proc /\ e \in Entries /\ proc[p].row \in Row /\ HandlerOk(proc[p])
      /\ UNCHANGED <<cache, used, removed, gap, revived>>
  BY DEF RowInv, TypeOK, HandlerInv, SaveRow, Proc
<1>2. /\ table' \in [Entries -> Row \cup {None}]
      /\ \A x \in Entries : table'[x] # None => table[x] # None
  <2>1. CASE table[e] = None
    BY <1>1, <2>1 DEF SaveRow, RowInv, TypeOK
  <2>2. CASE table[e] # None
    <3>1. table[e] \in Row
      BY <1>1, <2>2 DEF RowInv, TypeOK
    <3>2. PICK row \in Row : table' = [table EXCEPT ![e] = row]
      BY <1>1, <2>2, <3>1, UpdatedTyped DEF SaveRow
    <3>q. QED BY <1>1, <2>2, <3>2 DEF RowInv, TypeOK
  <2>q. QED BY <2>1, <2>2
<1>3. /\ proc' \in [Procs -> Proc] /\ proc'[p].pc = "keys" /\ proc'[p].op = proc[p].op
      /\ proc'[p].e = e /\ \A q \in Procs \ {p} : proc'[q] = proc[q]
  BY GotoMoves DEF SaveRow, RowInv
<1>4. TypeOK'
  BY <1>1, <1>2, <1>3 DEF RowInv, TypeOK
<1>5. HandlerOk(proc[p])'
  BY <1>1, <1>3 DEF HandlerOk
<1>6. HandlerInv'
  BY <1>1, <1>3, <1>5 DEF RowInv, HandlerInv, HandlerOk
<1>7. NewIdsInv'
  BY <1>3 DEF RowInv, NewIdsInv, Inserting
<1>8. TableInv' /\ RemovedStaysOut'
  BY <1>1, <1>2 DEF RowInv, TypeOK, TableInv, RemovedStaysOut
<1>q. QED BY <1>4, <1>6, <1>7, <1>8 DEF RowInv

\* The INSERT uses a new id, or one that an update has held all along.
LEMMA InsertRows ==
  ASSUME RowInv, NEW p \in Procs, InsertRow(p) PROVE RowInv'
<1> DEFINE e == proc[p].e
<1>1. /\ proc[p] \in Proc /\ e \in Entries /\ proc[p].row \in Row /\ HandlerOk(proc[p])
      /\ proc[p].pc = "insert" /\ used' = used \cup {e}
      /\ UNCHANGED <<cache, removed, gap, revived>>
  BY DEF RowInv, TypeOK, HandlerInv, InsertRow, Proc
<1>2. /\ proc' \in [Procs -> Proc] /\ proc'[p].pc # "insert"
      /\ proc'[p].op \in {proc[p].op, "none"}
      /\ proc'[p].op # "none" => proc'[p].e = e
      /\ \A q \in Procs \ {p} : proc'[q] = proc[q]
  <2>1. CASE table[e] = None
    BY <2>1, GotoMoves DEF InsertRow, RowInv
  <2>2. CASE table[e] # None
    BY <2>2, DoneMoves, IdleTyped DEF InsertRow, RowInv
  <2>q. QED BY <2>1, <2>2
<1>3. /\ table' \in [Entries -> Row \cup {None}]
      /\ \A x \in Entries \ {e} : table'[x] = table[x]
  BY <1>1 DEF InsertRow, RowInv, TypeOK
<1>4. TypeOK'
  BY <1>1, <1>2, <1>3 DEF RowInv, TypeOK
<1>5. \A q \in Procs \ {p} : HandlerOk(proc[q])'
  <2> SUFFICES ASSUME NEW q \in Procs \ {p} PROVE HandlerOk(proc[q])'
    OBVIOUS
  <2>1. HandlerOk(proc[q]) /\ proc'[q] = proc[q]
    BY <1>2 DEF RowInv, HandlerInv
  <2>2. Inserting(q) => proc[q].e # e \/ e \in used
    <3>1. CASE proc[p].op = "create"
      BY <1>1, <3>1 DEF RowInv, NewIdsInv, Inserting
    <3>2. CASE proc[p].op = "update"
      BY <1>1, <3>2 DEF HandlerOk
    <3>q. QED BY <1>1, <3>1, <3>2 DEF HandlerOk
  <2>q. QED BY <1>1, <2>1, <2>2 DEF HandlerOk, Inserting
<1>6. HandlerOk(proc[p])'
  BY <1>1, <1>2 DEF HandlerOk
<1>7. NewIdsInv'
  BY <1>2 DEF RowInv, NewIdsInv, Inserting
<1>8. TableInv'
  BY <1>1, <1>3 DEF RowInv, TypeOK, TableInv
<1>9. e \in removed => e \in revived
  <2>1. CASE proc[p].op = "create"
    BY <1>1, <2>1 DEF RowInv, TypeOK, HandlerOk
  <2>2. CASE proc[p].op = "update"
    BY <1>1, <2>2 DEF HandlerOk
  <2>q. QED BY <1>1, <2>1, <2>2 DEF HandlerOk
<1>10. RemovedStaysOut'
  BY <1>1, <1>3, <1>9 DEF RowInv, TypeOK, RemovedStaysOut
<1>q. QED BY <1>4, <1>5, <1>6, <1>7, <1>8, <1>10 DEF RowInv, HandlerInv

\* The DELETE: the updates that hold the row are noted.
LEMMA DeleteRows ==
  ASSUME RowInv, NEW p \in Procs, DeleteRow(p) PROVE RowInv'
<1> DEFINE e == proc[p].e
<1>1. /\ proc[p] \in Proc /\ e \in Entries /\ HandlerOk(proc[p]) /\ proc[p].op = "remove"
      /\ UNCHANGED <<cache, used, gap>>
      /\ table' = [table EXCEPT ![e] = None] /\ removed' = removed \cup {e}
      /\ revived' = IF \E q \in Procs : proc[q].op = "update" /\ proc[q].e = e
                      THEN revived \cup {e} ELSE revived
  BY DEF RowInv, TypeOK, HandlerInv, DeleteRow, Deleted, At, Proc
<1>2. /\ proc' \in [Procs -> Proc] /\ proc'[p].pc = "keys" /\ proc'[p].op = "remove"
      /\ proc'[p].e = e /\ \A q \in Procs \ {p} : proc'[q] = proc[q]
  BY <1>1, GotoMoves DEF DeleteRow, RowInv
<1>3. e \in used
  BY <1>1 DEF HandlerOk
<1>4. table' \in [Entries -> Row \cup {None}] /\ \A x \in Entries : table'[x] \in {table[x], None}
  BY <1>1 DEF RowInv, TypeOK
<1>5. removed' \subseteq used' /\ revived' \subseteq removed'
  BY <1>1, <1>3 DEF RowInv, TypeOK
<1>6. TypeOK'
  BY <1>1, <1>2, <1>4, <1>5 DEF RowInv, TypeOK
<1>7. HandlerInv'
  <2> SUFFICES ASSUME NEW q \in Procs PROVE HandlerOk(proc[q])'
    BY DEF HandlerInv
  <2>1. CASE q = p
    BY <1>1, <1>2, <1>3, <2>1 DEF HandlerOk
  <2>2. CASE q # p
    <3>1. HandlerOk(proc[q]) /\ proc'[q] = proc[q]
      BY <1>2, <2>2 DEF RowInv, HandlerInv
    <3>2. proc[q].op = "update" /\ proc[q].e \in removed' => proc[q].e \in revived'
      BY <1>1, <3>1 DEF HandlerOk
    <3>q. QED BY <1>1, <3>1, <3>2 DEF HandlerOk
  <2>q. QED BY <2>1, <2>2
<1>8. NewIdsInv'
  BY <1>2 DEF RowInv, NewIdsInv, Inserting
<1>9. TableInv' /\ RemovedStaysOut'
  <2>1. \A x \in removed' : table'[x] # None => x \in removed
    BY <1>1, <1>3 DEF RowInv, TypeOK
  <2>2. revived \subseteq revived'
    BY <1>1
  <2>q. QED BY <1>1, <1>4, <2>1, <2>2 DEF RowInv, TypeOK, TableInv, RemovedStaysOut
<1>q. QED BY <1>6, <1>7, <1>8, <1>9 DEF RowInv

\* The steps about Redis leave the rows alone.
LEMMA RedisRows ==
  ASSUME RowInv, NEW p \in Procs,
         GetKeys(p) \/ DelKeys(p) \/ Query(p) \/ Store(p) \/ Lose(p)
  PROVE  RowInv'
<1>1. /\ proc[p] \in Proc /\ HandlerOk(proc[p]) /\ proc[p].f \in Filters
      /\ UNCHANGED <<table, used, removed, revived>>
  BY DEF RowInv, TypeOK, HandlerInv, GetKeys, DelKeys, Query, Store, Lose, Proc
<1>2. cache' \in [Filters -> Lists \cup {None}] /\ gap' \in BOOLEAN
  <2>0. cache \in [Filters -> Lists \cup {None}] /\ gap \in BOOLEAN
    BY DEF RowInv, TypeOK
  <2>1. CASE GetKeys(p)
    BY <2>0, <2>1 DEF GetKeys
  <2>2. CASE DelKeys(p)
    BY <2>0, <2>2 DEF DelKeys
  <2>3. CASE Query(p)
    BY <2>0, <2>3 DEF Query
  <2>4. CASE Store(p)
    <3>1. proc[p].list \in Lists \cup {None}
      BY <1>1 DEF Proc
    <3>2. cache' \in {cache, [cache EXCEPT ![proc[p].f] = proc[p].list]}
      BY <2>4 DEF Store
    <3>q. QED BY <1>1, <2>0, <2>4, <3>1, <3>2 DEF Store
  <2>5. CASE Lose(p)
    BY <2>0, <2>5 DEF Lose
  <2>q. QED BY <2>1, <2>2, <2>3, <2>4, <2>5
<1>3. CASE Done(p)
  BY <1>1, <1>2, <1>3, DoneQuietly
<1>4. ASSUME NEW v \in Proc, proc' = [proc EXCEPT ![p] = v], v.pc # "insert",
             v.op = proc[p].op, v.e = proc[p].e
      PROVE  RowInv'
  <2>1. /\ proc' \in [Procs -> Proc] /\ proc'[p] = v
        /\ \A q \in Procs \ {p} : proc'[q] = proc[q]
    BY <1>4, OneMoves DEF RowInv
  <2>2. HandlerOk(v)
    BY <1>1, <1>4 DEF HandlerOk
  <2>q. QED BY <1>1, <1>2, <1>4, <2>1, <2>2, QuietStep
<1>5. CASE GetKeys(p) /\ ~ Done(p)
  <2> DEFINE keys == {f \in Filters : cache[f] # None}
  <2> DEFINE v == [proc[p] EXCEPT !.pc = "del", !.keys = keys]
  <2>1. v \in Proc /\ v.pc = "del" /\ v.op = proc[p].op /\ v.e = proc[p].e
    BY <1>1 DEF Proc
  <2>2. proc' = [proc EXCEPT ![p] = v]
    BY <1>5 DEF GetKeys
  <2>q. QED BY <1>4, <2>1, <2>2
<1>6. CASE Query(p)
  <2> DEFINE v == [proc[p] EXCEPT !.pc = "store", !.list = Listed(proc[p].f)]
  <2>1. Listed(proc[p].f) \in Lists
    BY <1>1, ListedTyped DEF RowInv
  <2>2. v \in Proc /\ v.pc = "store" /\ v.op = proc[p].op /\ v.e = proc[p].e
    BY <1>1, <2>1 DEF Proc
  <2>3. proc' = [proc EXCEPT ![p] = v]
    BY <1>6 DEF Query
  <2>q. QED BY <1>4, <2>2, <2>3
<1>q. QED BY <1>3, <1>5, <1>6 DEF DelKeys, Store, Lose

LEMMA ExpireRows ==
  ASSUME RowInv, NEW f \in Filters, Expire(f) PROVE RowInv'
<1>1. /\ cache' \in [Filters -> Lists \cup {None}]
      /\ UNCHANGED <<table, used, removed, gap, revived, proc>>
  BY DEF RowInv, TypeOK, Expire
<1>q. QED BY <1>1 DEF RowInv, TypeOK, HandlerInv, HandlerOk, NewIdsInv, Inserting, TableInv,
                      RemovedStaysOut

LEMMA RowStep == RowInv /\ [Next]_vars => RowInv'
<1> SUFFICES ASSUME RowInv, [Next]_vars PROVE RowInv'
  OBVIOUS
<1>1. CASE UNCHANGED vars
  BY <1>1 DEF vars, RowInv, TypeOK, HandlerInv, HandlerOk, NewIdsInv, Inserting, TableInv,
              RemovedStaysOut
<1>2. ASSUME NEW p \in Procs,
             \/ Create(p) \/ Update(p) \/ Remove(p) \/ Find(p)
             \/ Write(p) \/ Query(p) \/ Store(p) \/ Lose(p)
      PROVE  RowInv'
  BY <1>2, CreateRows, StartRows, SelectRows, SaveRows, InsertRows, DeleteRows, RedisRows
     DEF Write
<1>3. ASSUME NEW f \in Filters, Expire(f) PROVE RowInv'
  BY <1>3, ExpireRows
<1>q. QED BY <1>1, <1>2, <1>3 DEF Next

THEOREM RowsInvariant == Spec => []RowInv
<1>q. QED BY InitRows, RowStep, PTL DEF Spec

\* Every reachable state of the entries, their lists and the handlers has the declared
\* types, and only ids that were given to a row are removed.
THEOREM TypeCorrect == Spec => []TypeOK
<1>1. RowInv => TypeOK
  BY DEF RowInv
<1>q. QED BY <1>1, RowsInvariant, PTL

\* MasterEntriesService.remove: an entry returns only with an update that held it.
THEOREM RemovalHolds == Spec => []RemovedStaysOut
<1>1. RowInv => RemovedStaysOut
  BY DEF RowInv
<1>q. QED BY <1>1, RowsInvariant, PTL

-----------------------------------------------------------------------------
(***************************************************************************)
(* The lists.                                                              *)
(***************************************************************************)
LEMMA InitLists == Init => ListInv
BY IdleTyped DEF Init, ListInv, StoreInv, Escapes, ListsFollowTable

\* A write leaves its handler about to ask for the keys, so whatever it made old will
\* be deleted.
LEMMA WriteLists ==
  ASSUME ListInv, NEW p \in Procs, proc'[p].pc = "keys" PROVE ListInv'
BY DEF ListInv, StoreInv, ListsFollowTable

\* A step of p that changes neither rows nor lists, when p was not to delete any and
\* will store none.
LEMMA OtherLists ==
  ASSUME ListInv, NEW p \in Procs, UNCHANGED <<table, cache>>,
         \A q \in Procs \ {p} : proc'[q] = proc[q],
         proc[p].pc \notin {"keys", "del"} \/ gap', proc'[p].pc # "store", gap => gap'
  PROVE  ListInv'
<1>1. \A f \in Filters : Listed(f)' = Listed(f)
  BY DEF Listed
<1>2. \A q \in Procs \ {p} : Escapes(q)' => Escapes(q)
  BY DEF Escapes, Listed
<1>3. ~ Escapes(p)'
  BY DEF Escapes
<1>4. StoreInv'
  BY <1>2, <1>3 DEF ListInv, StoreInv
<1>5. ListsFollowTable'
  BY <1>1 DEF ListInv, ListsFollowTable
<1>q. QED BY <1>4, <1>5 DEF ListInv

\* The steps of a handler other than the writes and what deletes or stores lists.
LEMMA StartLists ==
  ASSUME TypeOK, ListInv, NEW p \in Procs,
         Create(p) \/ Update(p) \/ Remove(p) \/ Find(p) \/ Select(p)
  PROVE  ListInv'
<1>1. UNCHANGED <<table, cache, gap>> /\ proc[p].pc \notin {"keys", "del"}
  BY IdleTyped DEF Create, Update, Remove, Find, Start, Select, At
<1>2. /\ proc'[p].pc # "store" /\ \A q \in Procs \ {p} : proc'[q] = proc[q]
  <2>0. proc \in [Procs -> Proc] /\ proc[p] \in Proc
    BY DEF TypeOK
  <2>1. ASSUME NEW pr, Start(p, pr), pr.pc # "store"
        PROVE  /\ proc'[p].pc # "store" /\ \A q \in Procs \ {p} : proc'[q] = proc[q]
    BY <2>0, <2>1 DEF Start
  <2>2. CASE Create(p) \/ Update(p) \/ Remove(p) \/ Find(p)
    BY <2>1, <2>2, IdleTyped DEF Create, Update, Remove, Find, Proc
  <2>3. CASE Select(p) /\ table[proc[p].e] = None
    BY <2>3, GotoMoves DEF Select
  <2>4. CASE Select(p) /\ table[proc[p].e] # None
    <3> DEFINE v == [proc[p] EXCEPT !.pc = "update",
                                    !.dirty = Changed(table[proc[p].e], proc[p].row)]
    <3>1. proc' = [proc EXCEPT ![p] = v] /\ v.pc = "update"
      BY <2>0, <2>4 DEF Select, Proc
    <3>q. QED BY <2>0, <3>1
  <2>q. QED BY <2>2, <2>3, <2>4
<1>q. QED BY <1>1, <1>2, OtherLists

LEMMA WritesLists ==
  ASSUME TypeOK, ListInv, NEW p \in Procs, SaveRow(p) \/ InsertRow(p) \/ DeleteRow(p)
  PROVE  ListInv'
<1>1. CASE Goto(p, "keys")
  BY <1>1, GotoMoves, WriteLists
<1>2. CASE InsertRow(p) /\ ~ Goto(p, "keys")
  <2>1. UNCHANGED <<table, cache, gap>> /\ Done(p) /\ proc[p].pc = "insert"
    BY <1>2 DEF InsertRow
  <2>q. QED BY <2>1, DoneMoves, IdleTyped, OtherLists
<1>q. QED BY <1>1, <1>2 DEF SaveRow, DeleteRow

\* KEYS finds every list there is, and notes those still to be stored.
LEMMA KeysLists ==
  ASSUME TypeOK, ListInv, NEW p \in Procs, GetKeys(p) PROVE ListInv'
<1> DEFINE keys == {f \in Filters : cache[f] # None}
<1>1. /\ proc \in [Procs -> Proc] /\ proc[p] \in Proc /\ gap \in BOOLEAN
      /\ cache \in [Filters -> Lists \cup {None}] /\ UNCHANGED <<table, cache>>
  BY DEF TypeOK, GetKeys
<1>2. CASE gap'
  BY <1>2 DEF ListInv, StoreInv, ListsFollowTable
<1>3. CASE ~ gap'
  <2>1. \A q \in Procs : ~ Escapes(q)
    BY <1>3 DEF GetKeys
  <2>2. \/ keys = {} /\ Done(p)
        \/ proc' = [proc EXCEPT ![p].pc = "del", ![p].keys = keys]
    BY <1>3 DEF GetKeys
  <2>3. CASE keys = {} /\ Done(p)
    <3>1. proc'[p].pc = "idle" /\ \A q \in Procs \ {p} : proc'[q] = proc[q]
      BY <2>3, DoneMoves, IdleTyped
    <3>2. \A q \in Procs : ~ Escapes(q)'
      BY <1>1, <2>1, <3>1 DEF Escapes, Listed
    <3>3. \A f \in Filters : cache'[f] = None
      BY <1>1, <2>3
    <3>q. QED BY <3>2, <3>3 DEF ListInv, StoreInv, ListsFollowTable
  <2>4. CASE proc' = [proc EXCEPT ![p].pc = "del", ![p].keys = keys]
    <3> DEFINE v == [proc[p] EXCEPT !.pc = "del", !.keys = keys]
    <3>1. v.pc = "del" /\ v.keys = keys
      BY <1>1 DEF Proc
    <3>2. proc'[p] = v /\ \A q \in Procs \ {p} : proc'[q] = proc[q]
      BY <1>1, <2>4
    <3> HIDE DEF v
    <3>3. \A q \in Procs : ~ Escapes(q)'
      <4>1. ~ Escapes(p)'
        BY <3>1, <3>2 DEF Escapes
      <4>2. \A f : Listed(f)' = Listed(f)
        BY <1>1 DEF Listed
      <4>3. \A q \in Procs \ {p} : ~ Escapes(q)'
        BY <2>1, <3>2, <4>2 DEF Escapes
      <4>q. QED BY <4>1, <4>3
    <3>4. \A f \in Filters : cache'[f] = None \/ (proc'[p].pc = "del" /\ f \in proc'[p].keys)
      BY <1>1, <3>1, <3>2
    <3>q. QED BY <3>3, <3>4 DEF ListInv, StoreInv, ListsFollowTable
  <2>q. QED BY <2>2, <2>3, <2>4
<1>q. QED BY <1>2, <1>3

LEMMA DelLists ==
  ASSUME TypeOK, ListInv, NEW p \in Procs, DelKeys(p) PROVE ListInv'
<1>1. /\ cache \in [Filters -> Lists \cup {None}] /\ gap \in BOOLEAN
      /\ UNCHANGED table /\ Done(p) /\ proc[p].pc = "del"
  BY DEF TypeOK, DelKeys
<1>2. proc'[p].pc = "idle" /\ \A q \in Procs \ {p} : proc'[q] = proc[q]
  BY <1>1, DoneMoves, IdleTyped
<1>3. CASE gap'
  BY <1>3 DEF ListInv, StoreInv, ListsFollowTable
<1>4. CASE ~ gap'
  <2>1. /\ cache' = [f \in Filters |-> IF f \in proc[p].keys THEN None ELSE cache[f]]
        /\ ~ gap
    BY <1>4 DEF DelKeys
  <2>2. \A q \in Procs : Escapes(q)' => Escapes(q) /\ q # p
    BY <1>1, <1>2 DEF Escapes, Listed
  <2>3. StoreInv'
    BY <1>1, <1>2, <2>1, <2>2 DEF ListInv, StoreInv
  <2>4. \A f \in Filters : Listed(f)' = Listed(f)
    BY <1>1 DEF Listed
  <2>5. \A f \in Filters : \/ cache'[f] \in {None, Listed(f)}
                           \/ \E q \in Procs \ {p} : \/ proc[q].pc = "keys"
                                                     \/ proc[q].pc = "del" /\ f \in proc[q].keys
    BY <1>1, <2>1 DEF ListInv, ListsFollowTable
  <2>6. ListsFollowTable'
    BY <1>2, <2>4, <2>5 DEF ListsFollowTable
  <2>q. QED BY <2>3, <2>6 DEF ListInv
<1>q. QED BY <1>3, <1>4

\* What is read is what the table lists; it escapes nothing yet.
LEMMA QueryLists ==
  ASSUME TypeOK, ListInv, NEW p \in Procs, Query(p) PROVE ListInv'
<1> DEFINE v == [proc[p] EXCEPT !.pc = "store", !.list = Listed(proc[p].f)]
<1>1. /\ proc \in [Procs -> Proc] /\ proc[p] \in Proc /\ UNCHANGED <<table, cache, gap>>
      /\ proc' = [proc EXCEPT ![p] = v] /\ proc[p].pc = "query"
  BY DEF TypeOK, Query, At
<1>2. v.list = Listed(proc[p].f) /\ v.f = proc[p].f
  BY <1>1 DEF Proc
<1>3. proc'[p] = v /\ \A q \in Procs \ {p} : proc'[q] = proc[q]
  BY <1>1
<1>4. \A f : Listed(f)' = Listed(f)
  BY <1>1 DEF Listed
<1>5. \A q \in Procs : Escapes(q)' => Escapes(q) /\ q # p
  BY <1>2, <1>3, <1>4 DEF Escapes
<1>6. StoreInv'
  BY <1>1, <1>3, <1>5 DEF ListInv, StoreInv
<1>7. ListsFollowTable'
  BY <1>1, <1>3, <1>4 DEF ListInv, ListsFollowTable
<1>q. QED BY <1>6, <1>7 DEF ListInv

\* An old list is stored only while the write that made it old has yet to ask for
\* the keys.
LEMMA StoreLists ==
  ASSUME TypeOK, ListInv, NEW p \in Procs, Store(p) PROVE ListInv'
<1>1. /\ cache \in [Filters -> Lists \cup {None}] /\ UNCHANGED <<table, gap>>
      /\ Done(p) /\ proc[p].pc = "store" /\ proc[p] \in Proc
      /\ \A f \in Filters : cache'[f] \in {cache[f], IF f = proc[p].f THEN proc[p].list ELSE cache[f]}
  <2>1. CASE cache' = cache
    BY <2>1 DEF TypeOK, Store, At
  <2>2. CASE cache' = [cache EXCEPT ![proc[p].f] = proc[p].list]
    BY <2>2 DEF TypeOK, Store, At
  <2>q. QED BY <2>1, <2>2 DEF Store
<1>2. proc'[p].pc = "idle" /\ \A q \in Procs \ {p} : proc'[q] = proc[q]
  BY <1>1, DoneMoves, IdleTyped
<1>3. \A f : Listed(f)' = Listed(f)
  BY <1>1 DEF Listed
<1>4. \A q \in Procs : Escapes(q)' => Escapes(q) /\ q # p
  BY <1>2, <1>3 DEF Escapes
<1>5. StoreInv'
  BY <1>1, <1>2, <1>4 DEF ListInv, StoreInv
<1>6. ListsFollowTable'
  <2> SUFFICES ASSUME ~ gap, NEW f \in Filters
               PROVE  \/ cache'[f] \in {None, Listed(f)'}
                      \/ \E q \in Procs : proc'[q].pc = "keys" \/ (proc'[q].pc = "del" /\ f \in proc'[q].keys)
    BY <1>1 DEF ListsFollowTable
  <2>1. CASE \E q \in Procs : proc[q].pc = "keys" \/ (proc[q].pc = "del" /\ f \in proc[q].keys)
    <3>1. PICK q \in Procs : proc[q].pc = "keys" \/ (proc[q].pc = "del" /\ f \in proc[q].keys)
      BY <2>1
    <3>2. proc'[q] = proc[q]
      BY <1>1, <1>2, <3>1
    <3>3. proc'[q].pc = "keys" \/ (proc'[q].pc = "del" /\ f \in proc'[q].keys)
      BY <3>1, <3>2
    <3>q. QED BY <3>3
  <2>2. CASE ~ \E q \in Procs : proc[q].pc = "keys" \/ (proc[q].pc = "del" /\ f \in proc[q].keys)
    <3>1. cache[f] \in {None, Listed(f)} /\ ~ Escapes(p)
      BY <2>2 DEF ListInv, StoreInv, ListsFollowTable
    <3>2. proc[p].list = Listed(proc[p].f)
      BY <1>1, <3>1 DEF Escapes
    <3>3. CASE f = proc[p].f
      <4>1. cache'[f] \in {cache[f], Listed(f)}
        BY <1>1, <3>2, <3>3
      <4>q. QED BY <1>3, <3>1, <4>1
    <3>4. CASE f # proc[p].f
      <4>1. cache'[f] = cache[f]
        BY <1>1, <3>4
      <4>q. QED BY <1>3, <3>1, <4>1
    <3>q. QED BY <3>3, <3>4
  <2>q. QED BY <2>1, <2>2
<1>q. QED BY <1>5, <1>6 DEF ListInv

LEMMA LoseLists ==
  ASSUME TypeOK, ListInv, NEW p \in Procs, Lose(p) PROVE ListInv'
<1>1. UNCHANGED <<table, cache>> /\ Done(p) /\ (gap' <=> gap \/ proc[p].pc \in {"keys", "del"})
  BY DEF Lose, TypeOK
<1>2. /\ proc'[p].pc = "idle" /\ \A q \in Procs \ {p} : proc'[q] = proc[q]
      /\ proc[p].pc \notin {"keys", "del"} \/ gap'
  BY <1>1, DoneMoves, IdleTyped
<1>q. QED BY <1>1, <1>2, OtherLists

LEMMA ExpireLists ==
  ASSUME TypeOK, ListInv, NEW f \in Filters, Expire(f) PROVE ListInv'
<1>1. /\ cache \in [Filters -> Lists \cup {None}] /\ UNCHANGED <<table, gap, proc>>
      /\ cache' = [cache EXCEPT ![f] = None]
  BY DEF TypeOK, Expire
<1>2. \A g : Listed(g)' = Listed(g)
  BY <1>1 DEF Listed
<1>3. \A g \in Filters : cache'[g] \in {cache[g], None}
  BY <1>1
<1>q. QED BY <1>1, <1>2, <1>3 DEF ListInv, StoreInv, Escapes, ListsFollowTable

LEMMA ListStep == TypeOK /\ ListInv /\ [Next]_vars => ListInv'
<1> SUFFICES ASSUME TypeOK, ListInv, [Next]_vars PROVE ListInv'
  OBVIOUS
<1>1. CASE UNCHANGED vars
  BY <1>1 DEF vars, ListInv, StoreInv, Escapes, Listed, ListsFollowTable
<1>2. ASSUME NEW p \in Procs,
             \/ Create(p) \/ Update(p) \/ Remove(p) \/ Find(p)
             \/ Write(p) \/ Query(p) \/ Store(p) \/ Lose(p)
      PROVE  ListInv'
  BY <1>2, StartLists, WritesLists, KeysLists, DelLists, QueryLists, StoreLists, LoseLists
     DEF Write
<1>3. ASSUME NEW f \in Filters, Expire(f) PROVE ListInv'
  BY <1>3, ExpireLists
<1>q. QED BY <1>1, <1>2, <1>3 DEF Next

\* MasterEntriesService.findAll: a list from the cache differs from the table only
\* while the clearing that follows the write is under way, or a list escaped it.
THEOREM ListsHold == Spec => []ListsFollowTable
<1>1. Spec => []ListInv
  BY TypeCorrect, InitLists, ListStep, PTL DEF Spec
<1>2. ListInv => ListsFollowTable
  BY DEF ListInv
<1>q. QED BY <1>1, <1>2, PTL
=============================================================================
