---------------------------- MODULE MasterEntries ----------------------------
(***************************************************************************)
(* The master entries (categories, services, roles, banners): their table  *)
(* and the lists of it that MasterEntriesService keeps in Redis, one for   *)
(* each filter.  findAll reads the cache, else the table, and stores what  *)
(* it read for an hour; create, update and remove write the table and then *)
(* delete whatever lists KEYS returned.  Nothing orders the two, and       *)
(* RedisService logs a failed command and goes on.                         *)
(***************************************************************************)
EXTENDS TypeOrm

CONSTANTS
  Entries,       \* the ids rows can get
  Types,         \* values of the type column
  Filters,       \* the filters findAll is called with
  Procs,         \* handlers in flight
  None,          \* no row, nothing cached
  RedisMayFail,  \* TRUE when a Redis command may fail
  MayCrash       \* TRUE when a handler may be lost between two statements

ASSUME FiltersAssumption ==
  Filters \subseteq [type : Types \cup {"all"}, isActive : {"any", "true", "false"}]
ASSUME EntriesAssumption == Entries # {} /\ Types # {} /\ Filters # {}
ASSUME SwitchAssumption == RedisMayFail \in BOOLEAN /\ MayCrash \in BOOLEAN

Row == [type : Types, isActive : BOOLEAN]
Lists == UNION {[S -> Row] : S \in SUBSET Entries}
ASSUME NoneAssumption == None \notin Row /\ None \notin Lists

VARIABLES
  table,    \* the master_entries table
  cache,    \* Redis master_entries:<type>:<isActive>
  used,     \* the ids given to a row so far
  removed,  \* history: the ids a DELETE has taken out
  gap,      \* history: a list may have escaped the clearing of the cache
  revived,  \* history: ids removed while an update held the row
  proc

vars == <<table, cache, used, removed, gap, revived, proc>>

Holds(f, row) ==
  /\ f.type # "all" => row.type = f.type
  /\ f.isActive # "any" => row.isActive = (f.isActive = "true")

\* What findAll reads: the rows that pass the filter.
Listed(f) ==
  LET found == {e \in Entries : table[e] # None /\ Holds(f, table[e])}
  IN  [e \in found |-> table[e]]

Writers == {"create", "update", "remove"}
Ops == Writers \cup {"find"}
SomeEntry == CHOOSE e \in Entries : TRUE
SomeRow == [type |-> CHOOSE t \in Types : TRUE, isActive |-> TRUE]
SomeFilter == CHOOSE f \in Filters : TRUE
Idle == [op |-> "none", pc |-> "idle", e |-> SomeEntry, row |-> SomeRow, dirty |-> {},
         f |-> SomeFilter, list |-> None, keys |-> {}]
Proc == [op : Ops \cup {"none"},
         pc : {"idle", "read", "select", "update", "insert", "delete", "keys", "del",
               "query", "store"},
         e : Entries, row : Row, dirty : SUBSET {"type", "isActive"},  \* a writer's entity
         f : Filters, list : Lists \cup {None},    \* a find's filter and what it read
         keys : SUBSET Filters]                    \* what KEYS returned

At(p, op, pc) == proc[p].op = op /\ proc[p].pc = pc
Goto(p, pc) == proc' = [proc EXCEPT ![p].pc = pc]
Done(p) == proc' = [proc EXCEPT ![p] = Idle]
Start(p, pr) == proc[p] = Idle /\ proc' = [proc EXCEPT ![p] = pr]

-----------------------------------------------------------------------------
Create(p) ==   \* the database makes a new id
  /\ \E e \in Entries \ (used \cup {proc[q].e : q \in {x \in Procs : proc[x].op = "create"}}),
        row \in Row :
       Start(p, [Idle EXCEPT !.op = "create", !.pc = "insert", !.e = e, !.row = row])
  /\ UNCHANGED <<table, cache, used, removed, gap, revived>>

\* Mutant: save() is not preceded by findOne.
UpdateUnfound(p) ==
  /\ \E e \in used, row \in Row :
       Start(p, [Idle EXCEPT !.op = "update", !.pc = "select", !.e = e, !.row = row])
  /\ UNCHANGED <<table, cache, used, removed, gap, revived>>

\* update and remove: findOne throws when there is no such row.
Update(p) ==
  /\ \E e \in Entries, row \in Row :
       /\ table[e] # None
       /\ Start(p, [Idle EXCEPT !.op = "update", !.pc = "select", !.e = e, !.row = row])
  /\ UNCHANGED <<table, cache, used, removed, gap, revived>>

Remove(p) ==
  /\ \E e \in Entries :
       /\ table[e] # None
       /\ Start(p, [Idle EXCEPT !.op = "remove", !.pc = "delete", !.e = e])
  /\ UNCHANGED <<table, cache, used, removed, gap, revived>>

\* findAll, the lookup: a hit is returned, a miss or a failure goes to the table.
Find(p) ==
  /\ \E f \in Filters :
       /\ cache[f] = None \/ RedisMayFail
       /\ Start(p, [Idle EXCEPT !.op = "find", !.pc = "query", !.f = f])
  /\ UNCHANGED <<table, cache, used, removed, gap, revived>>

\* save() selects the row first and inserts the entity when it is gone.
Select(p) ==
  LET e == proc[p].e IN
  /\ At(p, "update", "select")
  /\ IF table[e] = None
       THEN Goto(p, "insert")
       ELSE proc' = [proc EXCEPT ![p].pc = "update",
                                 ![p].dirty = Changed(table[e], proc[p].row)]
  /\ UNCHANGED <<table, cache, used, removed, gap, revived>>

\* The UPDATE; it touches no row when the row is gone by now.
SaveRow(p) ==
  LET e == proc[p].e IN
  /\ At(p, "update", "update")
  /\ table' = IF table[e] = None THEN table
              ELSE [table EXCEPT ![e] = Updated(@, proc[p].row, proc[p].dirty)]
  /\ Goto(p, "keys")
  /\ UNCHANGED <<cache, used, removed, gap, revived>>

\* The INSERT: of a new row, or of an updated entity under its old id, which fails
\* when another update was there first.
InsertRow(p) ==
  LET e == proc[p].e IN
  /\ proc[p].pc = "insert"
  /\ IF table[e] = None
       THEN table' = [table EXCEPT ![e] = proc[p].row] /\ Goto(p, "keys")
       ELSE Done(p) /\ UNCHANGED table
  /\ used' = used \cup {e}
  /\ UNCHANGED <<cache, removed, gap, revived>>

Deleted(e) ==
  /\ table' = [table EXCEPT ![e] = None]
  /\ removed' = removed \cup {e}
  /\ revived' = IF \E q \in Procs : proc[q].op = "update" /\ proc[q].e = e
                  THEN revived \cup {e} ELSE revived

\* Mutant: the lists are not cleared.
DeleteRowQuietly(p) ==
  /\ At(p, "remove", "delete")
  /\ Deleted(proc[p].e)
  /\ Done(p)
  /\ UNCHANGED <<cache, used, gap>>

DeleteRow(p) ==
  /\ At(p, "remove", "delete")
  /\ Deleted(proc[p].e)
  /\ Goto(p, "keys")
  /\ UNCHANGED <<cache, used, gap>>

(***************************************************************************)
(* clearCache: KEYS, then DEL of what it returned.  A find that read the   *)
(* table before the write and has not stored its list yet escapes both.    *)
(***************************************************************************)
Escapes(q) == proc[q].pc = "store" /\ proc[q].list # Listed(proc[q].f)

GetKeys(p) ==
  LET keys == {f \in Filters : cache[f] # None} IN
  /\ proc[p].pc = "keys"
  /\ \/ /\ IF keys = {} THEN Done(p)
                        ELSE proc' = [proc EXCEPT ![p].pc = "del", ![p].keys = keys]
        /\ gap' = (gap \/ \E q \in Procs : Escapes(q))
     \/ RedisMayFail /\ Done(p) /\ gap' = TRUE
  /\ UNCHANGED <<table, cache, used, removed, revived>>

DelKeys(p) ==
  /\ proc[p].pc = "del"
  /\ \/ /\ cache' = [f \in Filters |-> IF f \in proc[p].keys THEN None ELSE cache[f]]
        /\ UNCHANGED gap
     \/ RedisMayFail /\ gap' = TRUE /\ UNCHANGED cache
  /\ Done(p)
  /\ UNCHANGED <<table, used, removed, revived>>

\* Mutant: what is kept is not what the filter lets through.
QueryUnfiltered(p) ==
  /\ At(p, "find", "query")
  /\ proc' = [proc EXCEPT ![p].pc = "store", ![p].list = table]
  /\ UNCHANGED <<table, cache, used, removed, gap, revived>>

Query(p) ==
  /\ At(p, "find", "query")
  /\ proc' = [proc EXCEPT ![p].pc = "store", ![p].list = Listed(proc[p].f)]
  /\ UNCHANGED <<table, cache, used, removed, gap, revived>>

Store(p) ==
  /\ At(p, "find", "store")
  /\ \/ cache' = [cache EXCEPT ![proc[p].f] = proc[p].list]
     \/ RedisMayFail /\ UNCHANGED cache
  /\ Done(p)
  /\ UNCHANGED <<table, used, removed, gap, revived>>

\* Mutant: the lists are set without a time to live.
ExpireNever(f) == FALSE /\ UNCHANGED vars

Expire(f) ==
  /\ cache[f] # None
  /\ cache' = [cache EXCEPT ![f] = None]
  /\ UNCHANGED <<table, used, removed, gap, revived, proc>>

\* The backend stops before the handler's next statement.
Lose(p) ==
  /\ MayCrash /\ proc[p] # Idle
  /\ Done(p)
  /\ gap' = (gap \/ proc[p].pc \in {"keys", "del"})
  /\ UNCHANGED <<table, cache, used, removed, revived>>

Init ==
  /\ table = [e \in Entries |-> None]
  /\ cache = [f \in Filters |-> None]
  /\ used = {} /\ removed = {} /\ revived = {} /\ gap = FALSE
  /\ proc = [p \in Procs |-> Idle]

Write(p) == Select(p) \/ SaveRow(p) \/ InsertRow(p) \/ DeleteRow(p) \/ GetKeys(p) \/ DelKeys(p)

Next ==
  \/ \E p \in Procs : \/ Create(p) \/ Update(p) \/ Remove(p) \/ Find(p)
                      \/ Write(p) \/ Query(p) \/ Store(p) \/ Lose(p)
  \/ \E f \in Filters : Expire(f)

Spec == Init /\ [][Next]_vars

\* The event loop runs every continuation; Redis drops what has expired.
Fairness == /\ \A p \in Procs : WF_vars(Write(p) \/ Query(p) \/ Store(p))
            /\ \A f \in Filters : WF_vars(Expire(f))
FairSpec == Spec /\ Fairness

-----------------------------------------------------------------------------
TypeOK ==
  /\ table \in [Entries -> Row \cup {None}]
  /\ cache \in [Filters -> Lists \cup {None}]
  /\ used \subseteq Entries /\ removed \subseteq used /\ revived \subseteq removed
  /\ gap \in BOOLEAN
  /\ proc \in [Procs -> Proc]

\* A cached list differs from the table only while the write that changed it has
\* yet to delete that list, unless a find read the table before the write and
\* stored after its KEYS, or the clearing itself failed or was lost.
ListsFollowTable ==
  ~ gap => \A f \in Filters :
    \/ cache[f] \in {None, Listed(f)}
    \/ \E p \in Procs : proc[p].pc = "keys" \/ (proc[p].pc = "del" /\ f \in proc[p].keys)

\* A removed entry is in the table again only if an update held it when it was
\* removed: save() inserts what it does not find.
RemovedStaysOut == \A e \in removed : table[e] # None => e \in revived

\* Once entries are no longer written, every list settles on the table, whatever
\* races, failures and restarts left in the cache: stale lists expire, and what
\* is read afterwards is current.
ListsSettle ==
  <>[](\A p \in Procs : proc[p].op \notin Writers)
    => <>[](\A f \in Filters : cache[f] \in {None, Listed(f)})
=============================================================================
