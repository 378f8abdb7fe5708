--------------------------- MODULE AccountsProofs ---------------------------
(***************************************************************************)
(* What TLAPS proves of module Accounts for every set of accounts, devices *)
(* and handlers in flight, with failing Redis writes and lost handlers.    *)
(***************************************************************************)
EXTENDS Accounts, TLAPS

\* What a handler in flight knows, in front of these rows and these valid tokens.
HandlerOk(v, rows, tokens) ==
  /\ v.op \in {"verify", "register"} \/ v.pc \in {"store", "push", "clear"} => v.t \in Devices
  /\ v.pc \in {"select", "update"} => v.op \in Savers
  /\ v.op \in Savers => v.pc \in {"select", "update", "cache"}
  /\ v.op \in Savers \/ v.pc = "session" => rows[v.u] # None
  /\ v.pc = "clear" => v.t \notin tokens
HandlerInv == \A p \in Procs : HandlerOk(proc[p], users, alive)

\* Only an account that has a row has sessions.
SessionInv == \A u \in Users : sessions[u] # {} => users[u] # None

BaseInv == TypeOK /\ HandlerInv /\ SessionInv

\* A saver that holds a refused token is counted, and a refused token is not valid.
RejectInv ==
  /\ rejected \cap alive = {}
  /\ RejectedStaysOut
  /\ \A p \in Procs : proc[p].op \in Savers /\ proc[p].t \in rejected
                        => "revived" \in slips[proc[p].u]

(***************************************************************************)
(* Where the pushes of an account go.  Unless saves of its row overlapped, *)
(* one at most is in flight (SaveAt): an edit holds the valid token of    *)
(* the row if there is one, and a registration past its UPDATE has left    *)
(* its token there.  A push about to fill Redis holds the token of the row *)
(* (StoreAt), and a registration begun by the last session is not         *)
(* overtaken by another one that is settled (SettleAt).                   *)
(***************************************************************************)
Shows(u, d) == users[u] = [fcmToken |-> d]
Saves(p, u) == proc[p].op \in Savers /\ proc[p].u = u
Registering(u) == \E q \in Procs : At(q, "register", "cache") /\ proc[q].u = u

SaverOk(p) ==
  /\ proc[p].op = "edit" => \A d \in alive : Shows(proc[p].u, d) => proc[p].t = d
  /\ proc[p].op = "register" /\ proc[p].t \in alive =>
       /\ proc[p].pc = "update" => \/ proc[p].dirty = {"fcmToken"}
                                   \/ Shows(proc[p].u, proc[p].t)
       /\ proc[p].pc = "cache" => Shows(proc[p].u, proc[p].t)
SaveAt(u) == "crossed" \notin slips[u] =>
  /\ \A p, q \in Procs : Saves(p, u) /\ Saves(q, u) => p = q
  /\ \A p \in Procs : Saves(p, u) => SaverOk(p)
StoreAt(u) == Spared(u, {"fault", "crossed", "late"}) =>
  \A p \in Procs : proc[p].pc = "store" /\ proc[p].u = u /\ proc[p].t \in alive =>
    Shows(u, proc[p].t) \/ Registering(u)
SettleAt(u) == u \in settled =>
  /\ users[u] # None
  /\ Spared(u, {"older", "crossed"}) =>
       \A p \in Procs : proc[p].op = "register" /\ proc[p].pc # "cache" /\ proc[p].u = u =>
         refresh[u] \in {proc[p].t, None}
CacheAt(u) == Spared(u, {"fault", "crossed", "late"}) /\ cache[u] \in alive =>
  Shows(u, cache[u]) \/ Registering(u)
PushesAt(u) == \A d \in alive :
  Spared(u, {"fault", "older", "crossed"}) /\ refresh[u] = d /\ u \in settled => Shows(u, d)

PushAt(u) == SaveAt(u) /\ StoreAt(u) /\ SettleAt(u) /\ CacheAt(u) /\ PushesAt(u)
PushInv == \A u \in Users : PushAt(u)

-----------------------------------------------------------------------------
LEMMA IdleTyped == Idle \in Proc /\ Idle.op = "none" /\ Idle.pc = "idle"
BY AccountsAssumption DEF Idle, Proc

\* What the next handler step makes of the handlers.
LEMMA OneMoves ==
  ASSUME TypeOK, NEW p \in Procs, NEW v \in Proc, proc' = [proc EXCEPT ![p] = v]
  PROVE  /\ proc' \in [Procs -> Proc] /\ proc'[p] = v
         /\ \A q \in Procs \ {p} : proc'[q] = proc[q]
BY DEF TypeOK

LEMMA DoneMoves ==
  ASSUME TypeOK, NEW p \in Procs, Done(p)
  PROVE  /\ proc' \in [Procs -> Proc] /\ proc'[p] = Idle
         /\ \A q \in Procs \ {p} : proc'[q] = proc[q]
BY IdleTyped, OneMoves DEF Done

LEMMA GotoMoves ==
  ASSUME TypeOK, NEW p \in Procs,
         NEW pc \in {"find", "insert", "session", "cache", "push", "clear"}, Goto(p, pc)
  PROVE  /\ proc' \in [Procs -> Proc] /\ proc'[p].pc = pc /\ proc'[p].op = proc[p].op
         /\ proc'[p].u = proc[p].u /\ proc'[p].t = proc[p].t
         /\ \A q \in Procs \ {p} : proc'[q] = proc[q]
<1>1. proc[p] \in Proc
  BY DEF TypeOK
<1> DEFINE v == [proc[p] EXCEPT !.pc = pc]
<1>2. v \in Proc /\ v.pc = pc /\ v.op = proc[p].op /\ v.u = proc[p].u /\ v.t = proc[p].t
  BY <1>1 DEF Proc
<1>3. proc' = [proc EXCEPT ![p] = v]
  BY DEF Goto
<1> HIDE DEF v
<1>q. QED BY <1>2, <1>3, OneMoves

LEMMA StartMoves ==
  ASSUME TypeOK, NEW p \in Procs, NEW op \in Savers \cup {"send", "verify"},
         NEW pc \in {"delete", "find", "select", "push"}, NEW u \in Users,
         NEW t \in Devices \cup {None}, Start(p, op, pc, u, t)
  PROVE  /\ proc' \in [Procs -> Proc] /\ proc'[p].pc = pc /\ proc'[p].op = op
         /\ proc'[p].u = u /\ proc'[p].t = t /\ proc[p] = Idle
         /\ \A q \in Procs \ {p} : proc'[q] = proc[q]
<1> DEFINE v == [op |-> op, pc |-> pc, u |-> u, t |-> t, dirty |-> {}]
<1>1. v \in Proc /\ v.pc = pc /\ v.op = op /\ v.u = u /\ v.t = t
  BY DEF Proc
<1>2. proc' = [proc EXCEPT ![p] = v] /\ proc[p] = Idle
  BY DEF Start
<1> HIDE DEF v
<1>q. QED BY <1>1, <1>2, OneMoves

LEMMA UpdatedTyped ==
  ASSUME NEW row \in Row, NEW pr \in Proc, NEW cols
  PROVE  /\ Entity(pr) \in Row /\ Changed(row, Entity(pr)) \subseteq {"fcmToken"}
         /\ Updated(row, Entity(pr), cols) = IF "fcmToken" \in cols THEN Entity(pr) ELSE row
         /\ "fcmToken" \notin Changed(row, Entity(pr)) => row = Entity(pr)
         /\ Updated(row, Entity(pr), cols) \in Row
<1>1. row = [fcmToken |-> row.fcmToken] /\ Entity(pr) = [fcmToken |-> pr.t] /\ Entity(pr) \in Row
  BY DEF Row, Entity, Proc
<1>2. DOMAIN row = {"fcmToken"}
  BY DEF Row
<1>3. Changed(row, Entity(pr)) = {c \in {"fcmToken"} : Entity(pr)[c] # row[c]}
  BY <1>2 DEF Changed
<1>4. Updated(row, Entity(pr), cols) =
        [c \in {"fcmToken"} |-> IF c \in cols THEN Entity(pr)[c] ELSE row[c]]
  BY <1>2 DEF Updated
<1>5. "fcmToken" \notin Changed(row, Entity(pr)) => row = Entity(pr)
  BY <1>1, <1>3
<1>6. CASE "fcmToken" \in cols
  <2>1. Updated(row, Entity(pr), cols) = [fcmToken |-> pr.t]
    BY <1>1, <1>4, <1>6
  <2>q. QED BY <1>1, <1>3, <1>5, <1>6, <2>1
<1>7. CASE "fcmToken" \notin cols
  <2>1. Updated(row, Entity(pr), cols) = [fcmToken |-> row.fcmToken]
    BY <1>4, <1>7
  <2>q. QED BY <1>1, <1>3, <1>5, <1>7, <2>1
<1>q. QED BY <1>6, <1>7

-----------------------------------------------------------------------------
(***************************************************************************)
(* Types and handlers.                                                     *)
(***************************************************************************)
\* A step of p, whose new record is right, among rows that only come.
LEMMA StepBase ==
  ASSUME BaseInv, NEW p \in Procs, proc' \in [Procs -> Proc],
         \A q \in Procs \ {p} : proc'[q] = proc[q],
         users' \in [Users -> Row \cup {None}],
         \A u \in Users : users[u] # None => users'[u] # None,
         UNCHANGED alive, HandlerOk(proc'[p], users', alive),
         sessions' \in [Users -> SUBSET Devices],
         \A u \in Users : sessions'[u] # {} => users'[u] # None,
         otp' \subseteq Users, used' \subseteq Users, settled' \subseteq Users,
         refresh' \in [Users -> Devices \cup {None}], cache' \in [Users -> Devices \cup {None}],
         rejected' \subseteq Devices, slips' \in [Users -> SUBSET Slips]
  PROVE  BaseInv'
<1>1. TypeOK'
  BY DEF BaseInv, TypeOK
<1>2. HandlerInv'
  <2> SUFFICES ASSUME NEW q \in Procs PROVE HandlerOk(proc'[q], users', alive')
    BY DEF HandlerInv
  <2>1. CASE q = p
    BY <2>1
  <2>2. CASE q # p
    <3>1. HandlerOk(proc[q], users, alive) /\ proc'[q] = proc[q] /\ proc[q].u \in Users
      BY <2>2 DEF BaseInv, HandlerInv, TypeOK, Proc
    <3>q. QED BY <3>1 DEF HandlerOk
  <2>q. QED BY <2>1, <2>2
<1>3. SessionInv'
  BY DEF SessionInv
<1>q. QED BY <1>1, <1>2, <1>3 DEF BaseInv

\* The same when rows and sessions stay.
LEMMA QuietBase ==
  ASSUME BaseInv, NEW p \in Procs, proc' \in [Procs -> Proc],
         \A q \in Procs \ {p} : proc'[q] = proc[q],
         UNCHANGED <<users, alive, sessions>>, HandlerOk(proc'[p], users, alive),
         otp' \subseteq Users, used' \subseteq Users, settled' \subseteq Users,
         refresh' \in [Users -> Devices \cup {None}], cache' \in [Users -> Devices \cup {None}],
         rejected' \subseteq Devices, slips' \in [Users -> SUBSET Slips]
  PROVE  BaseInv'
<1>1. /\ users' \in [Users -> Row \cup {None}] /\ sessions' \in [Users -> SUBSET Devices]
      /\ \A u \in Users : sessions'[u] # {} => users'[u] # None
  BY DEF BaseInv, TypeOK, SessionInv
<1>q. QED BY <1>1, StepBase

LEMMA IdleOk == ASSUME NEW rows, NEW tokens PROVE HandlerOk(Idle, rows, tokens)
BY IdleTyped DEF HandlerOk, Savers

LEMMA InitBase == Init => BaseInv
<1> SUFFICES ASSUME Init PROVE BaseInv
  OBVIOUS
<1>1. TypeOK
  BY IdleTyped DEF Init, TypeOK
<1>2. HandlerInv
  BY IdleOk DEF Init, HandlerInv
<1>q. QED BY <1>1, <1>2 DEF Init, BaseInv, SessionInv

LEMMA StartBase ==
  ASSUME BaseInv, NEW p \in Procs, NEW u \in Users, NEW d \in Devices,
         VerifyOtp(p, u, d) \/ UpdatePushToken(p, u, d) \/ EditUser(p, u) \/ SendToUser(p, u)
  PROVE  BaseInv'
<1>1. /\ UNCHANGED <<users, alive, sessions>> /\ otp' \subseteq Users /\ used' \subseteq Users
      /\ settled' \subseteq Users /\ rejected' \subseteq Devices
      /\ refresh' \in [Users -> Devices \cup {None}] /\ cache' \in [Users -> Devices \cup {None}]
  BY DEF VerifyOtp, UpdatePushToken, EditUser, SendToUser, redis, BaseInv, TypeOK
<1>2. slips' \in [Users -> SUBSET Slips]
  BY DEF VerifyOtp, UpdatePushToken, EditUser, SendToUser, Slip, BaseInv, TypeOK, Slips
<1>3. PICK op \in Savers \cup {"send", "verify"}, pc \in {"delete", "find", "select", "push"},
           t \in Devices \cup {None} :
        /\ Start(p, op, pc, u, t)
        /\ op \in {"verify", "register"} \/ pc = "push" => t \in Devices
        /\ pc = "select" <=> op \in Savers
        /\ op \in Savers => users[u] # None
  <2>1. CASE VerifyOtp(p, u, d)
    BY <2>1 DEF VerifyOtp, Savers
  <2>2. CASE UpdatePushToken(p, u, d)
    BY <2>2 DEF UpdatePushToken, BaseInv, SessionInv, Savers
  <2>3. CASE EditUser(p, u)
    <3>1. users[u] \in Row
      BY <2>3 DEF EditUser, BaseInv, TypeOK
    <3>q. QED BY <2>3, <3>1 DEF EditUser, Row, Savers
  <2>4. CASE SendToUser(p, u)
    BY <2>4 DEF SendToUser, BaseInv, TypeOK, Savers
  <2>q. QED BY <2>1, <2>2, <2>3, <2>4
<1>4. /\ proc' \in [Procs -> Proc] /\ proc'[p].pc = pc /\ proc'[p].op = op
      /\ proc'[p].u = u /\ proc'[p].t = t /\ \A q \in Procs \ {p} : proc'[q] = proc[q]
  BY <1>3, StartMoves DEF BaseInv
<1>5. HandlerOk(proc'[p], users, alive)
  BY <1>3, <1>4 DEF HandlerOk, Savers
<1>q. QED BY <1>1, <1>2, <1>4, <1>5, QuietBase

\* A login after its code was accepted.
LEMMA LoginBase ==
  ASSUME BaseInv, NEW p \in Procs,
         DeleteOtp(p) \/ FindOrCreate(p) \/ InsertUser(p) \/ GenerateTokenPair(p)
  PROVE  BaseInv'
<1>1. /\ proc[p] \in Proc /\ proc[p].op = "verify" /\ HandlerOk(proc[p], users, alive)
      /\ UNCHANGED <<alive, cache, rejected>>
      /\ proc[p].u \in Users /\ proc[p].t \in Devices
  BY DEF BaseInv, TypeOK, HandlerInv, HandlerOk, DeleteOtp, FindOrCreate, InsertUser,
         GenerateTokenPair, At, redis, Proc
<1>2. CASE DeleteOtp(p) \/ FindOrCreate(p)
  <2>1. /\ UNCHANGED <<users, refresh, sessions, settled>>
        /\ otp' \subseteq Users /\ used' \subseteq Users /\ slips' \in [Users -> SUBSET Slips]
    BY <1>2 DEF DeleteOtp, FindOrCreate, Slip, redis, BaseInv, TypeOK, Slips
  <2>2. PICK pc \in {"find", "insert", "session"} :
          Goto(p, pc) /\ (pc = "session" => users[proc[p].u] # None)
    BY <1>2 DEF DeleteOtp, FindOrCreate
  <2>3. /\ proc' \in [Procs -> Proc] /\ proc'[p].pc = pc /\ proc'[p].op = proc[p].op
        /\ proc'[p].u = proc[p].u /\ proc'[p].t = proc[p].t
        /\ \A q \in Procs \ {p} : proc'[q] = proc[q]
    BY <2>2, GotoMoves DEF BaseInv
  <2>4. HandlerOk(proc'[p], users, alive)
    BY <1>1, <2>2, <2>3 DEF HandlerOk, Savers
  <2>q. QED BY <1>1, <2>1, <2>3, <2>4, QuietBase DEF BaseInv, TypeOK
<1>3. CASE InsertUser(p)
  <2>1. /\ UNCHANGED <<otp, refresh, cache, sessions, settled, used, slips>>
        /\ users' \in [Users -> Row \cup {None}]
        /\ \A u \in Users : users[u] # None => users'[u] # None
    BY <1>3 DEF InsertUser, redis, BaseInv, TypeOK, NewRow, Row
  <2>2. /\ proc' \in [Procs -> Proc] /\ \A q \in Procs \ {p} : proc'[q] = proc[q]
        /\ HandlerOk(proc'[p], users', alive)
    <3>1. CASE users[proc[p].u] = None
      <4>1. Goto(p, "session") /\ users'[proc[p].u] = NewRow /\ NewRow # None
        BY <1>1, <1>3, <3>1, NoneAssumption DEF InsertUser, NewRow, BaseInv, TypeOK
      <4>2. /\ proc' \in [Procs -> Proc] /\ proc'[p].pc = "session" /\ proc'[p].op = "verify"
            /\ proc'[p].u = proc[p].u /\ proc'[p].t = proc[p].t
            /\ \A q \in Procs \ {p} : proc'[q] = proc[q]
        BY <1>1, <4>1, GotoMoves DEF BaseInv
      <4>q. QED BY <1>1, <4>1, <4>2 DEF HandlerOk, Savers
    <3>2. CASE users[proc[p].u] # None
      BY <1>3, <3>2, DoneMoves, IdleOk DEF InsertUser, BaseInv
    <3>q. QED BY <3>1, <3>2
  <2>3. \A u \in Users : sessions'[u] # {} => users'[u] # None
    BY <2>1 DEF BaseInv, SessionInv
  <2>q. QED BY <1>1, <2>1, <2>2, <2>3, StepBase DEF BaseInv, TypeOK
<1>4. CASE GenerateTokenPair(p)
  <2>1. /\ UNCHANGED <<users, otp, used>> /\ settled' \subseteq Users
        /\ refresh' \in [Users -> Devices \cup {None}] /\ slips' \in [Users -> SUBSET Slips]
        /\ Done(p) /\ users[proc[p].u] # None
    BY <1>1, <1>4 DEF GenerateTokenPair, At, Slip, BaseInv, TypeOK, Slips, HandlerOk
  <2>2. sessions' = [x \in Users |-> IF x = proc[p].u THEN sessions[x] \cup {proc[p].t}
                                     ELSE sessions[x] \ {proc[p].t}]
    BY <1>4 DEF GenerateTokenPair
  <2>3. /\ sessions' \in [Users -> SUBSET Devices]
        /\ \A u \in Users : sessions'[u] # {} => users'[u] # None
    BY <1>1, <2>1, <2>2 DEF BaseInv, TypeOK, SessionInv
  <2>4. /\ proc' \in [Procs -> Proc] /\ \A q \in Procs \ {p} : proc'[q] = proc[q]
        /\ HandlerOk(proc'[p], users', alive)
    BY <2>1, DoneMoves, IdleOk DEF BaseInv
  <2>q. QED BY <1>1, <2>1, <2>3, <2>4, StepBase DEF BaseInv, TypeOK
<1>q. QED BY <1>2, <1>3, <1>4

LEMMA SelectBase ==
  ASSUME BaseInv, NEW p \in Procs, Select(p)
  PROVE  /\ BaseInv' /\ \A q \in Procs \ {p} : proc'[q] = proc[q]
         /\ proc'[p].pc = "update" /\ proc'[p].op = proc[p].op /\ proc'[p].op \in Savers
         /\ proc'[p].u = proc[p].u /\ proc'[p].t = proc[p].t
         /\ proc'[p].dirty = {"fcmToken"} \/ Shows(proc[p].u, proc[p].t)
<1>1. /\ proc[p] \in Proc /\ proc[p].op \in Savers /\ HandlerOk(proc[p], users, alive)
      /\ users[proc[p].u] \in Row
      /\ UNCHANGED <<users, otp, refresh, cache, alive, sessions, settled, used, rejected, slips>>
  <2>1. /\ proc[p] \in Proc /\ proc[p].pc = "select" /\ HandlerOk(proc[p], users, alive)
    BY DEF Select, BaseInv, TypeOK, HandlerInv
  <2>2. proc[p].op \in Savers /\ users[proc[p].u] # None /\ proc[p].u \in Users
    BY <2>1 DEF HandlerOk, Proc
  <2>q. QED BY <2>1, <2>2 DEF Select, redis, BaseInv, TypeOK
<1> DEFINE dirty == Changed(users[proc[p].u], Entity(proc[p]))
           v == [proc[p] EXCEPT !.pc = "update", !.dirty = dirty]
<1>2. /\ dirty \subseteq {"fcmToken"}
      /\ "fcmToken" \notin dirty => users[proc[p].u] = Entity(proc[p])
  BY <1>1, UpdatedTyped
<1>3. proc' = [proc EXCEPT ![p] = v]
  BY DEF Select
<1>4. dirty = {"fcmToken"} \/ Shows(proc[p].u, proc[p].t)
  BY <1>2 DEF Shows, Entity
<1> HIDE DEF dirty
<1>5. /\ v \in Proc /\ v.pc = "update" /\ v.op = proc[p].op /\ v.u = proc[p].u
      /\ v.t = proc[p].t /\ v.dirty = dirty
  BY <1>1, <1>2 DEF Proc
<1> HIDE DEF v
<1>6. /\ proc' \in [Procs -> Proc] /\ proc'[p] = v /\ \A q \in Procs \ {p} : proc'[q] = proc[q]
  BY <1>3, <1>5, OneMoves DEF BaseInv
<1>7. HandlerOk(proc'[p], users, alive)
  BY <1>1, <1>5, <1>6 DEF HandlerOk, Savers
<1>8. BaseInv'
  BY <1>1, <1>6, <1>7, QuietBase DEF BaseInv, TypeOK
<1>q. QED BY <1>1, <1>4, <1>5, <1>6, <1>8

\* The UPDATE writes the token of the entity, or leaves the row as it is.
LEMMA UpdateShape ==
  ASSUME BaseInv, NEW p \in Procs, Update(p)
  PROVE  /\ proc[p] \in Proc /\ proc[p].pc = "update" /\ proc[p].op \in Savers
         /\ proc[p].u \in Users /\ users[proc[p].u] \in Row
         /\ UNCHANGED <<otp, refresh, cache, alive, sessions, used, rejected, slips>>
         /\ users' = [users EXCEPT ![proc[p].u] = IF "fcmToken" \in proc[p].dirty
                                                  THEN [fcmToken |-> proc[p].t] ELSE @]
         /\ IF proc[p].op = "register"
              THEN /\ Goto(p, "cache")
                   /\ settled' = IF refresh[proc[p].u] = proc[p].t THEN settled \cup {proc[p].u}
                                 ELSE settled
              ELSE Done(p) /\ UNCHANGED settled
<1>1. proc[p] \in Proc /\ proc[p].pc = "update" /\ HandlerOk(proc[p], users, alive)
  BY DEF Update, BaseInv, TypeOK, HandlerInv
<1>2. proc[p].op \in Savers /\ users[proc[p].u] # None /\ proc[p].u \in Users
  BY <1>1 DEF HandlerOk, Proc
<1>3. users[proc[p].u] \in Row
  BY <1>2 DEF BaseInv, TypeOK
<1>4. Updated(users[proc[p].u], Entity(proc[p]), proc[p].dirty)
        = IF "fcmToken" \in proc[p].dirty THEN Entity(proc[p]) ELSE users[proc[p].u]
  BY <1>1, <1>3, UpdatedTyped
<1>5. users' = [users EXCEPT ![proc[p].u] = IF "fcmToken" \in proc[p].dirty
                                            THEN [fcmToken |-> proc[p].t] ELSE @]
  BY <1>4 DEF Update, Entity
<1>q. QED BY <1>1, <1>2, <1>3, <1>5 DEF Update, redis

LEMMA UpdateBase ==
  ASSUME BaseInv, NEW p \in Procs, Update(p) PROVE BaseInv'
<1> DEFINE u == proc[p].u
           row == IF "fcmToken" \in proc[p].dirty THEN [fcmToken |-> proc[p].t] ELSE users[u]
<1>1. /\ proc[p] \in Proc /\ proc[p].op \in Savers /\ u \in Users /\ users[u] \in Row
      /\ UNCHANGED <<otp, refresh, cache, alive, sessions, used, rejected, slips>>
      /\ users' = [users EXCEPT ![u] = row] /\ settled' \subseteq Users
  BY UpdateShape DEF BaseInv, TypeOK
<1>2. row \in Row /\ row # None
  BY <1>1, NoneAssumption DEF Proc, Row
<1> HIDE DEF row
<1>3. /\ users' \in [Users -> Row \cup {None}] /\ users'[u] = row
      /\ \A x \in Users : users[x] # None => users'[x] # None
  BY <1>1, <1>2 DEF BaseInv, TypeOK
<1>4. /\ proc' \in [Procs -> Proc] /\ \A q \in Procs \ {p} : proc'[q] = proc[q]
      /\ HandlerOk(proc'[p], users', alive)
  <2>1. CASE proc[p].op = "register"
    <3>1. Goto(p, "cache")
      BY <2>1, UpdateShape
    <3>2. /\ proc' \in [Procs -> Proc] /\ proc'[p].pc = "cache" /\ proc'[p].op = "register"
          /\ proc'[p].u = u /\ proc'[p].t = proc[p].t /\ \A q \in Procs \ {p} : proc'[q] = proc[q]
      BY <2>1, <3>1, GotoMoves DEF BaseInv
    <3>3. proc[p].t \in Devices
      BY <2>1 DEF BaseInv, HandlerInv, HandlerOk
    <3>q. QED BY <1>2, <1>3, <3>2, <3>3 DEF HandlerOk, Savers
  <2>2. CASE proc[p].op # "register"
    <3>1. Done(p)
      BY <2>2, UpdateShape
    <3>2. HandlerOk(Idle, users', alive)
      BY IdleOk
    <3>q. QED BY <3>1, <3>2, DoneMoves DEF BaseInv
  <2>q. QED BY <2>1, <2>2
<1>5. \A x \in Users : sessions'[x] # {} => users'[x] # None
  BY <1>1, <1>3 DEF BaseInv, SessionInv
<1>q. QED BY <1>1, <1>3, <1>4, <1>5, StepBase DEF BaseInv, TypeOK

LEMMA CacheBase ==
  ASSUME BaseInv, NEW p \in Procs, CacheFcmToken(p) PROVE BaseInv'
<1>1. /\ proc[p] \in Proc /\ proc[p].u \in Users /\ proc[p].t \in Devices /\ Done(p)
      /\ UNCHANGED <<users, otp, refresh, alive, sessions, settled, used, rejected>>
  BY DEF CacheFcmToken, At, BaseInv, TypeOK, HandlerInv, HandlerOk, Proc
<1>2. slips' \in [Users -> SUBSET Slips] /\ cache' \in [Users -> Devices \cup {None}]
  BY <1>1 DEF CacheFcmToken, Slip, Slips, BaseInv, TypeOK
<1>q. QED BY <1>1, <1>2, DoneMoves, IdleOk, QuietBase DEF BaseInv, TypeOK

\* A push after its lookup in Redis.
LEMMA PushBase ==
  ASSUME BaseInv, NEW p \in Procs,
         FindToken(p) \/ StoreToken(p) \/ SendToDevice(p) \/ ClearStaleToken(p)
  PROVE  BaseInv'
<1>1. /\ proc[p] \in Proc /\ proc[p].u \in Users /\ HandlerOk(proc[p], users, alive)
      /\ UNCHANGED <<otp, refresh, alive, sessions, settled, used>>
  BY DEF FindToken, StoreToken, SendToDevice, ClearStaleToken, redis, BaseInv, TypeOK,
         HandlerInv, Proc
<1>2. proc[p].op \notin Savers
  BY <1>1 DEF FindToken, StoreToken, SendToDevice, ClearStaleToken, HandlerOk, At, Savers
<1>3. proc[p].pc # "find" => proc[p].t \in Devices
  BY <1>1 DEF FindToken, StoreToken, SendToDevice, ClearStaleToken, HandlerOk, At
<1>4. CASE FindToken(p)
  <2>1. UNCHANGED <<users, cache, rejected, slips>>
    BY <1>4 DEF FindToken, redis
  <2>2. CASE Done(p)
    BY <1>1, <2>1, <2>2, DoneMoves, IdleOk, QuietBase DEF BaseInv, TypeOK
  <2>3. CASE ~ Done(p)
    <3> DEFINE t == users[proc[p].u].fcmToken
               v == [proc[p] EXCEPT !.pc = "store", !.t = t]
    <3>1. users[proc[p].u] \in Row /\ users[proc[p].u] # NewRow /\ proc[p].op = "send"
      BY <1>1, <1>4, <2>3 DEF FindToken, At, BaseInv, TypeOK
    <3>2. t \in Devices
      BY <3>1 DEF Row, NewRow
    <3>3. proc' = [proc EXCEPT ![p] = v]
      BY <1>4, <2>3 DEF FindToken
    <3> HIDE DEF t
    <3>4. v \in Proc /\ v.op = "send" /\ v.pc = "store" /\ v.u = proc[p].u /\ v.t = t
      BY <1>1, <3>1, <3>2 DEF Proc
    <3> HIDE DEF v
    <3>5. /\ proc' \in [Procs -> Proc] /\ proc'[p] = v
          /\ \A q \in Procs \ {p} : proc'[q] = proc[q]
      BY <3>3, <3>4, OneMoves DEF BaseInv
    <3>6. HandlerOk(proc'[p], users, alive)
      BY <3>2, <3>4, <3>5 DEF HandlerOk, Savers
    <3>q. QED BY <1>1, <2>1, <3>5, <3>6, QuietBase DEF BaseInv, TypeOK
  <2>q. QED BY <2>2, <2>3
<1>5. CASE StoreToken(p)
  <2>1. /\ UNCHANGED <<users, rejected, slips>> /\ cache' \in [Users -> Devices \cup {None}]
        /\ Goto(p, "push") /\ proc[p].t \in Devices
    BY <1>1, <1>3, <1>5 DEF StoreToken, BaseInv, TypeOK
  <2>2. /\ proc' \in [Procs -> Proc] /\ proc'[p].pc = "push" /\ proc'[p].op = proc[p].op
        /\ proc'[p].t = proc[p].t /\ \A q \in Procs \ {p} : proc'[q] = proc[q]
    BY <2>1, GotoMoves DEF BaseInv
  <2>3. HandlerOk(proc'[p], users, alive)
    BY <1>1, <1>2, <2>1, <2>2 DEF HandlerOk, Savers
  <2>q. QED BY <1>1, <2>1, <2>2, <2>3, QuietBase DEF BaseInv, TypeOK
<1>6. CASE SendToDevice(p)
  <2>1. UNCHANGED <<users, cache, rejected, slips>> /\ proc[p].t \in Devices
    BY <1>1, <1>3, <1>6 DEF SendToDevice, redis
  <2>2. CASE Done(p)
    BY <1>1, <2>1, <2>2, DoneMoves, IdleOk, QuietBase DEF BaseInv, TypeOK
  <2>3. CASE ~ Done(p)
    <3>1. Goto(p, "clear") /\ proc[p].t \notin alive
      BY <1>6, <2>3 DEF SendToDevice
    <3>2. /\ proc' \in [Procs -> Proc] /\ proc'[p].pc = "clear" /\ proc'[p].op = proc[p].op
          /\ proc'[p].t = proc[p].t /\ \A q \in Procs \ {p} : proc'[q] = proc[q]
      BY <3>1, GotoMoves DEF BaseInv
    <3>3. HandlerOk(proc'[p], users, alive)
      BY <1>1, <1>2, <2>1, <3>1, <3>2 DEF HandlerOk, Savers
    <3>q. QED BY <1>1, <2>1, <3>2, <3>3, QuietBase DEF BaseInv, TypeOK
  <2>q. QED BY <2>2, <2>3
<1>7. CASE ClearStaleToken(p)
  <2>1. /\ rejected' \subseteq Devices /\ UNCHANGED cache /\ Done(p)
        /\ slips' \in [Users -> SUBSET Slips]
        /\ users' = [u \in Users |-> IF users[u] = Entity(proc[p]) THEN NewRow ELSE users[u]]
    BY <1>1, <1>3, <1>7 DEF ClearStaleToken, redis, BaseInv, TypeOK, Slips
  <2>2. NewRow \in Row /\ NewRow # None
    BY NoneAssumption DEF NewRow, Row
  <2>3. /\ users' \in [Users -> Row \cup {None}]
        /\ \A u \in Users : users[u] # None => users'[u] # None
    BY <2>1, <2>2 DEF BaseInv, TypeOK
  <2>4. \A u \in Users : sessions'[u] # {} => users'[u] # None
    BY <1>1, <2>3 DEF BaseInv, SessionInv
  <2>q. QED BY <1>1, <2>1, <2>3, <2>4, DoneMoves, IdleOk, StepBase DEF BaseInv, TypeOK
<1>q. QED BY <1>4, <1>5, <1>6, <1>7

LEMMA OutsideBase ==
  ASSUME BaseInv, NEW u \in Users, NEW d \in Devices,
         RequestOtp(u) \/ Expire(u) \/ EndSession(u, d) \/ Retire(d)
  PROVE  BaseInv'
<1>1. UNCHANGED <<users, proc, rejected, slips>> /\ alive' \subseteq alive
  BY DEF RequestOtp, Expire, EndSession, Retire, redis
<1>2. /\ sessions' \in [Users -> SUBSET Devices]
      /\ \A x \in Users : sessions'[x] \subseteq sessions[x]
  BY DEF RequestOtp, Expire, EndSession, Retire, BaseInv, TypeOK
<1>3. /\ otp' \subseteq Users /\ used' \subseteq Users /\ settled' \subseteq Users
      /\ refresh' \in [Users -> Devices \cup {None}] /\ cache' \in [Users -> Devices \cup {None}]
  BY DEF RequestOtp, Expire, EndSession, Retire, redis, BaseInv, TypeOK
<1>4. TypeOK'
  BY <1>1, <1>2, <1>3 DEF BaseInv, TypeOK
<1>5. HandlerInv'
  BY <1>1 DEF BaseInv, HandlerInv, HandlerOk
<1>6. SessionInv'
  BY <1>1, <1>2 DEF BaseInv, SessionInv
<1>q. QED BY <1>4, <1>5, <1>6 DEF BaseInv

\* The session goes on under another device.
LEMMA RenewBase ==
  ASSUME BaseInv, NEW u \in Users, NEW d \in Devices, NEW e \in Devices, Renew(u, d, e)
  PROVE  BaseInv'
<1>1. /\ UNCHANGED <<users, otp, cache, proc, used, rejected, slips>> /\ alive' \subseteq alive
      /\ d \in sessions[u] /\ settled' \subseteq Users
      /\ refresh' \in [Users -> Devices \cup {None}]
      /\ sessions' = [sessions EXCEPT ![u] = (@ \ {d}) \cup {e}]
  BY DEF Renew, BaseInv, TypeOK
<1>2. /\ sessions' \in [Users -> SUBSET Devices]
      /\ \A x \in Users : sessions'[x] # {} => sessions[x] # {}
  BY <1>1 DEF BaseInv, TypeOK
<1>3. TypeOK'
  BY <1>1, <1>2 DEF BaseInv, TypeOK
<1>4. HandlerInv'
  BY <1>1 DEF BaseInv, HandlerInv, HandlerOk
<1>5. SessionInv'
  BY <1>1, <1>2 DEF BaseInv, SessionInv
<1>q. QED BY <1>3, <1>4, <1>5 DEF BaseInv

LEMMA LoseBase ==
  ASSUME BaseInv, NEW p \in Procs, Lose(p) PROVE BaseInv'
<1>1. /\ Done(p) /\ slips' \in [Users -> SUBSET Slips]
      /\ UNCHANGED <<users, otp, refresh, cache, alive, sessions, settled, used, rejected>>
  BY DEF Lose, Slip, Slips, redis, BaseInv, TypeOK
<1>q. QED BY <1>1, DoneMoves, IdleOk, QuietBase DEF BaseInv, TypeOK

LEMMA BaseStep == BaseInv /\ [Next]_vars => BaseInv'
<1> SUFFICES ASSUME BaseInv, [Next]_vars PROVE BaseInv'
  OBVIOUS
<1>1. CASE UNCHANGED vars
  BY <1>1 DEF vars, redis, BaseInv, TypeOK, HandlerInv, HandlerOk, SessionInv
<1>2. PICK d \in Devices : TRUE
  BY AccountsAssumption
<1>3. ASSUME NEW p \in Procs, NEW u \in Users, EditUser(p, u) \/ SendToUser(p, u) PROVE BaseInv'
  BY <1>2, <1>3, StartBase
<1>4. ASSUME NEW p \in Procs, NEW u \in Users, NEW e \in Devices,
             VerifyOtp(p, u, e) \/ UpdatePushToken(p, u, e)
      PROVE  BaseInv'
  BY <1>4, StartBase
<1>5. ASSUME NEW p \in Procs, \/ DeleteOtp(p) \/ FindOrCreate(p) \/ InsertUser(p)
                              \/ GenerateTokenPair(p) \/ Select(p) \/ Update(p)
                              \/ CacheFcmToken(p) \/ FindToken(p) \/ StoreToken(p)
                              \/ SendToDevice(p) \/ ClearStaleToken(p) \/ Lose(p)
      PROVE  BaseInv'
  BY <1>5, LoginBase, SelectBase, UpdateBase, CacheBase, PushBase, LoseBase
<1>6. ASSUME NEW u \in Users, RequestOtp(u) \/ Expire(u) PROVE BaseInv'
  BY <1>2, <1>6, OutsideBase
<1>7. ASSUME NEW u \in Users, NEW e \in Devices, EndSession(u, e) PROVE BaseInv'
  BY <1>7, OutsideBase
<1>8. ASSUME NEW e \in Devices, Retire(e) PROVE BaseInv'
  <2>1. PICK u \in Users : TRUE
    BY AccountsAssumption
  <2>q. QED BY <1>8, <2>1, OutsideBase
<1>9. ASSUME NEW u \in Users, NEW e \in Devices, NEW f \in Devices, Renew(u, e, f)
      PROVE  BaseInv'
  BY <1>9, RenewBase
<1>q. QED BY <1>1, <1>3, <1>4, <1>5, <1>6, <1>7, <1>8, <1>9 DEF Next

THEOREM BaseInvariant == Spec => []BaseInv
BY InitBase, BaseStep, PTL DEF Spec

\* Rows, sessions, tokens and handlers keep their types: in particular a push or a
\* save never finds the account's row missing.
THEOREM TypeCorrect == Spec => []TypeOK
<1>1. BaseInv => TypeOK
  BY DEF BaseInv
<1>q. QED BY <1>1, BaseInvariant, PTL

-----------------------------------------------------------------------------
(***************************************************************************)
(* One-time codes.                                                         *)
(***************************************************************************)
\* Steps that accept no code, and take no verification about to delete one.
LEMMA CodesStay ==
  ASSUME SpentCodesAreLeaving, UNCHANGED used,
         \A u \in Users : slips[u] \subseteq slips'[u],
         \A u \in Users : Deleting(u) => Deleting(u)'
  PROVE  SpentCodesAreLeaving'
BY DEF SpentCodesAreLeaving, Spared

LEMMA SlipsGrow ==
  ASSUME TypeOK, [Next]_vars
  PROVE  \A u \in Users : slips[u] \subseteq slips'[u]
<1>1. CASE UNCHANGED vars
  BY <1>1 DEF vars
<1>2. ASSUME NEW u \in Users, NEW what, NEW happens, Slip(u, what, happens)
      PROVE  \A x \in Users : slips[x] \subseteq slips'[x]
  BY <1>2 DEF Slip, TypeOK
<1>3. ASSUME NEW p \in Procs, DeleteOtp(p) \/ GenerateTokenPair(p) \/ CacheFcmToken(p) \/ Lose(p)
      PROVE  \A x \in Users : slips[x] \subseteq slips'[x]
  BY <1>2, <1>3 DEF DeleteOtp, GenerateTokenPair, CacheFcmToken, Lose, TypeOK, Proc
<1>4. ASSUME NEW p \in Procs, NEW u \in Users, EditUser(p, u)
      PROVE  \A x \in Users : slips[x] \subseteq slips'[x]
  BY <1>2, <1>4 DEF EditUser
<1>5. ASSUME NEW p \in Procs, NEW u \in Users, NEW d \in Devices, UpdatePushToken(p, u, d)
      PROVE  \A x \in Users : slips[x] \subseteq slips'[x]
  BY <1>5 DEF UpdatePushToken, TypeOK
<1>6. ASSUME NEW p \in Procs, ClearStaleToken(p) PROVE \A x \in Users : slips[x] \subseteq slips'[x]
  BY <1>6 DEF ClearStaleToken, TypeOK
<1>7. CASE UNCHANGED slips
  BY <1>7
<1>q. QED
  BY <1>1, <1>3, <1>4, <1>5, <1>6, <1>7
     DEF Next, SendToUser, VerifyOtp, FindOrCreate, InsertUser, Select, Update, FindToken,
         StoreToken, SendToDevice, RequestOtp, Expire, EndSession, Renew, Retire

\* A handler that was not about to delete a code moves.
LEMMA OthersDelete ==
  ASSUME TypeOK, NEW p \in Procs, proc[p].pc # "delete", NEW v, proc' = [proc EXCEPT ![p] = v]
  PROVE  \A u \in Users : Deleting(u) => Deleting(u)'
<1>1. \A q \in Procs : proc[q].pc = "delete" => proc'[q] = proc[q]
  BY DEF TypeOK
<1>q. QED BY <1>1 DEF Deleting, At

LEMMA CodesStep ==
  ASSUME BaseInv, BaseInv', SpentCodesAreLeaving, [Next]_vars PROVE SpentCodesAreLeaving'
<1>1. TypeOK /\ TypeOK' /\ \A u \in Users : slips[u] \subseteq slips'[u]
  BY SlipsGrow DEF BaseInv
<1>2. CASE UNCHANGED vars
  BY <1>2 DEF vars, redis, SpentCodesAreLeaving, Spared, Deleting, At
<1>3. ASSUME NEW u \in Users, RequestOtp(u) PROVE SpentCodesAreLeaving'
  BY <1>3 DEF RequestOtp, SpentCodesAreLeaving, Spared, Deleting, At
<1>4. ASSUME NEW u \in Users, Expire(u) PROVE SpentCodesAreLeaving'
  BY <1>4 DEF Expire, SpentCodesAreLeaving, Spared, Deleting, At
<1>5. ASSUME NEW p \in Procs, NEW u \in Users, NEW d \in Devices, VerifyOtp(p, u, d)
      PROVE  SpentCodesAreLeaving'
  <2>1. /\ UNCHANGED slips /\ used' = used \cup {u}
        /\ Start(p, "verify", "delete", u, d)
    BY <1>5 DEF VerifyOtp
  <2>2. /\ proc'[p].pc = "delete" /\ proc'[p].op = "verify" /\ proc'[p].u = u /\ proc[p] = Idle
        /\ \A q \in Procs \ {p} : proc'[q] = proc[q]
    BY <1>1, <2>1, StartMoves
  <2>3. \A x \in Users : Deleting(x) => Deleting(x)'
    BY <2>2, IdleTyped DEF Deleting, At
  <2>4. Deleting(u)'
    BY <2>2 DEF Deleting, At
  <2>q. QED BY <2>1, <2>3, <2>4 DEF SpentCodesAreLeaving, Spared
<1>6. ASSUME NEW p \in Procs, DeleteOtp(p) PROVE SpentCodesAreLeaving'
  <2>1. /\ proc[p].u \in Users /\ Goto(p, "find") /\ proc[p].pc = "delete" /\ proc[p].op = "verify"
    BY <1>1, <1>6 DEF DeleteOtp, At, TypeOK, Proc
  <2>2. \A q \in Procs \ {p} : proc'[q] = proc[q]
    BY <1>1, <2>1, GotoMoves
  <2>3. \A x \in Users \ {proc[p].u} : Deleting(x) => Deleting(x)'
    BY <2>2 DEF Deleting, At
  <2>4. /\ used' \subseteq used
        /\ \/ proc[p].u \notin used'
           \/ "fault" \in slips'[proc[p].u]
    BY <1>1, <1>6, <2>1 DEF DeleteOtp, Slip, TypeOK
  <2>q. QED BY <1>1, <2>3, <2>4 DEF SpentCodesAreLeaving, Spared
<1>7. ASSUME NEW p \in Procs, Lose(p) PROVE SpentCodesAreLeaving'
  <2>1. /\ UNCHANGED used /\ Done(p) /\ proc[p].u \in Users
        /\ "fault" \in slips'[proc[p].u]
    BY <1>1, <1>7 DEF Lose, Slip, TypeOK, Proc
  <2>2. \A q \in Procs \ {p} : proc'[q] = proc[q]
    BY <1>1, <2>1, DoneMoves
  <2>3. \A x \in Users \ {proc[p].u} : Deleting(x) => Deleting(x)'
    BY <2>2 DEF Deleting, At
  <2>q. QED BY <1>1, <2>1, <2>3 DEF SpentCodesAreLeaving, Spared
<1>8. ASSUME UNCHANGED <<used, proc>> PROVE SpentCodesAreLeaving'
  BY <1>1, <1>8, CodesStay DEF Deleting, At
<1>9. ASSUME NEW p \in Procs, proc[p].pc # "delete", UNCHANGED used,
             NEW v, proc' = [proc EXCEPT ![p] = v]
      PROVE  SpentCodesAreLeaving'
  BY <1>1, <1>9, OthersDelete, CodesStay
<1>10. ASSUME NEW p \in Procs, NEW u \in Users, EditUser(p, u) \/ SendToUser(p, u)
       PROVE  SpentCodesAreLeaving'
  BY <1>9, <1>10, IdleTyped DEF EditUser, SendToUser, Start, redis
<1>11. ASSUME NEW p \in Procs, NEW u \in Users, NEW d \in Devices, UpdatePushToken(p, u, d)
       PROVE  SpentCodesAreLeaving'
  BY <1>9, <1>11, IdleTyped DEF UpdatePushToken, Start, redis
<1>12. ASSUME NEW p \in Procs, \/ FindOrCreate(p) \/ InsertUser(p) \/ GenerateTokenPair(p)
                               \/ Select(p) \/ Update(p) \/ CacheFcmToken(p)
       PROVE  SpentCodesAreLeaving'
  <2>1. UNCHANGED used /\ proc[p].pc # "delete"
    BY <1>12 DEF FindOrCreate, InsertUser, GenerateTokenPair, Select, Update, CacheFcmToken, At, redis
  <2>2. CASE Select(p)
    BY <1>9, <2>1, <2>2 DEF Select
  <2>3. CASE ~ Select(p)
    <3>1. \E v : proc' = [proc EXCEPT ![p] = v]
      BY <1>12, <2>3 DEF FindOrCreate, InsertUser, GenerateTokenPair, Update, CacheFcmToken, Goto, Done
    <3>q. QED BY <1>9, <2>1, <3>1
  <2>q. QED BY <2>2, <2>3
<1>13. ASSUME NEW p \in Procs, FindToken(p) \/ StoreToken(p) \/ SendToDevice(p) \/ ClearStaleToken(p)
       PROVE  SpentCodesAreLeaving'
  BY <1>9, <1>13 DEF FindToken, StoreToken, SendToDevice, ClearStaleToken, At, Goto, Done, redis
<1>14. ASSUME NEW u \in Users, NEW d \in Devices, EndSession(u, d) \/ Retire(d)
       PROVE  SpentCodesAreLeaving'
  BY <1>8, <1>14 DEF EndSession, Retire
<1>15. ASSUME NEW d \in Devices, Retire(d) PROVE SpentCodesAreLeaving'
  BY <1>8, <1>15 DEF Retire
<1>16. ASSUME NEW u \in Users, NEW d \in Devices, NEW e \in Devices, Renew(u, d, e)
       PROVE  SpentCodesAreLeaving'
  BY <1>8, <1>16 DEF Renew
<1>q. QED
  BY <1>2, <1>3, <1>4, <1>5, <1>6, <1>7, <1>10, <1>11, <1>12, <1>13, <1>14, <1>15, <1>16
     DEF Next

\* Unless Redis refuses the deletion or the handler is lost before it, a code that was
\* accepted is accepted again only by requests that overlap the one about to delete
\* it, however many codes and verifications of an account there are.
THEOREM SpentCodesLeave == Spec => []SpentCodesAreLeaving
<1>1. Init => SpentCodesAreLeaving
  BY DEF Init, SpentCodesAreLeaving
<1>q. QED BY <1>1, BaseInvariant, CodesStep, PTL DEF Spec

-----------------------------------------------------------------------------
(***************************************************************************)
(* Refused tokens.                                                         *)
(***************************************************************************)
LEMMA RejectStep ==
  ASSUME BaseInv, BaseInv', RejectInv, [Next]_vars PROVE RejectInv'
<1>1. TypeOK /\ TypeOK' /\ \A u \in Users : slips[u] \subseteq slips'[u]
  BY SlipsGrow DEF BaseInv
<1>2. CASE UNCHANGED vars
  BY <1>2 DEF vars, redis, RejectInv, RejectedStaysOut
<1>3. \A p \in Procs : proc[p].u \in Users /\ proc[p].t \in Devices \cup {None}
  BY <1>1 DEF TypeOK, Proc
\* A step of p that saves nothing, or saves what it saved.
<1>4. ASSUME NEW p \in Procs, UNCHANGED <<users, alive, rejected>>,
             \A q \in Procs \ {p} : proc'[q] = proc[q],
             \/ proc'[p].op \notin Savers
             \/ proc'[p].op = proc[p].op /\ proc'[p].u = proc[p].u /\ proc'[p].t = proc[p].t
      PROVE  RejectInv'
  BY <1>1, <1>3, <1>4 DEF RejectInv, RejectedStaysOut
<1>5. ASSUME NEW p \in Procs, NEW u \in Users, EditUser(p, u) PROVE RejectInv'
  <2>1. users[u] \in Row
    BY <1>1, <1>5 DEF EditUser, TypeOK
  <2>2. users[u].fcmToken \in Devices \cup {None}
    BY <2>1 DEF Row
  <2>3. /\ proc'[p].u = u /\ proc'[p].t = users[u].fcmToken
        /\ \A q \in Procs \ {p} : proc'[q] = proc[q]
    BY <1>1, <1>5, <2>2, StartMoves DEF EditUser, Savers
  <2>4. proc'[p].t \in rejected => "revived" \in slips'[u]
    BY <1>1, <1>5, <2>3 DEF EditUser, RejectInv, RejectedStaysOut
  <2>q. QED BY <1>1, <1>3, <1>5, <2>3, <2>4 DEF EditUser, RejectInv, RejectedStaysOut
<1>6. ASSUME NEW p \in Procs, NEW u \in Users, NEW d \in Devices, UpdatePushToken(p, u, d)
      PROVE  RejectInv'
  <2>1. /\ proc'[p].u = u /\ proc'[p].t = d /\ \A q \in Procs \ {p} : proc'[q] = proc[q]
    BY <1>1, <1>6, StartMoves DEF UpdatePushToken, Savers
  <2>2. d \notin rejected
    BY <1>6 DEF UpdatePushToken, RejectInv
  <2>q. QED BY <1>1, <1>3, <1>6, <2>1, <2>2 DEF UpdatePushToken, RejectInv, RejectedStaysOut
<1>7. ASSUME NEW p \in Procs, NEW u \in Users, NEW d \in Devices,
             VerifyOtp(p, u, d) \/ SendToUser(p, u)
      PROVE  RejectInv'
  <2>1. PICK op \in {"send", "verify"}, pc \in {"delete", "find", "push"}, t \in Devices \cup {None} :
          Start(p, op, pc, u, t)
    BY <1>1, <1>7 DEF VerifyOtp, SendToUser, TypeOK
  <2>2. proc'[p].op \notin Savers /\ \A q \in Procs \ {p} : proc'[q] = proc[q]
    BY <1>1, <2>1, StartMoves DEF Savers
  <2>q. QED BY <1>4, <1>7, <2>2 DEF VerifyOtp, SendToUser
<1>8. ASSUME NEW p \in Procs, Done(p), UNCHANGED <<users, alive, rejected>> PROVE RejectInv'
  BY <1>1, <1>4, <1>8, DoneMoves, IdleTyped DEF Savers
<1>9. ASSUME NEW p \in Procs, NEW pc \in {"find", "insert", "session", "cache", "push", "clear"},
             Goto(p, pc), UNCHANGED <<users, alive, rejected>>
      PROVE  RejectInv'
  BY <1>1, <1>4, <1>9, GotoMoves
<1>10. ASSUME NEW p \in Procs, \/ DeleteOtp(p) \/ FindOrCreate(p) \/ GenerateTokenPair(p)
                               \/ CacheFcmToken(p) \/ StoreToken(p) \/ SendToDevice(p) \/ Lose(p)
       PROVE  RejectInv'
  BY <1>8, <1>9, <1>10 DEF DeleteOtp, FindOrCreate, GenerateTokenPair, CacheFcmToken,
     StoreToken, SendToDevice, Lose
<1>11. ASSUME NEW p \in Procs, InsertUser(p) PROVE RejectInv'
  <2>1. None \notin rejected
    BY <1>1, NoneAssumption DEF TypeOK
  <2>2. UNCHANGED <<alive, rejected, slips>> /\ (Done(p) \/ Goto(p, "session"))
    BY <1>11 DEF InsertUser
  <2>3. \A u \in Users : users'[u] = users[u] \/ users'[u] = NewRow
    BY <1>1, <1>11 DEF InsertUser, TypeOK
  <2>4. RejectedStaysOut'
    BY <2>1, <2>2, <2>3 DEF RejectInv, RejectedStaysOut, NewRow
  <2>5. /\ \A q \in Procs \ {p} : proc'[q] = proc[q]
        /\ proc'[p].op \notin Savers
    <3>1. proc[p].op = "verify"
      BY <1>11 DEF InsertUser, At
    <3>q. QED BY <1>1, <2>2, <3>1, DoneMoves, GotoMoves, IdleTyped DEF Savers
  <2>q. QED BY <1>3, <2>2, <2>4, <2>5 DEF RejectInv
<1>12. ASSUME NEW p \in Procs, Select(p) PROVE RejectInv'
  <2>1. /\ proc'[p].op = proc[p].op /\ proc'[p].u = proc[p].u /\ proc'[p].t = proc[p].t
        /\ \A q \in Procs \ {p} : proc'[q] = proc[q]
    BY <1>12, SelectBase
  <2>q. QED BY <1>4, <1>12, <2>1 DEF Select
<1>13. ASSUME NEW p \in Procs, Update(p) PROVE RejectInv'
  <2>1. /\ proc[p].op \in Savers /\ proc[p].u \in Users /\ users[proc[p].u] \in Row
        /\ UNCHANGED <<alive, rejected, slips>>
        /\ users' = [users EXCEPT ![proc[p].u] = IF "fcmToken" \in proc[p].dirty
                                                 THEN [fcmToken |-> proc[p].t] ELSE @]
        /\ Goto(p, "cache") \/ Done(p)
    BY <1>13, UpdateShape
  <2>2. RejectedStaysOut'
    <3>1. \A u \in Users : \/ users'[u] = users[u]
                           \/ u = proc[p].u /\ users'[u].fcmToken = proc[p].t
      BY <1>1, <2>1 DEF TypeOK
    <3>q. QED BY <2>1, <3>1 DEF RejectInv, RejectedStaysOut
  <2>3. /\ \A q \in Procs \ {p} : proc'[q] = proc[q]
        /\ \/ proc'[p].op \notin Savers
           \/ proc'[p].op = proc[p].op /\ proc'[p].u = proc[p].u /\ proc'[p].t = proc[p].t
    BY <1>1, <2>1, DoneMoves, GotoMoves, IdleTyped DEF Savers
  <2>q. QED BY <1>3, <2>1, <2>2, <2>3 DEF RejectInv
<1>14. ASSUME NEW p \in Procs, FindToken(p) PROVE RejectInv'
  <2>1. /\ UNCHANGED <<users, alive, rejected>>
        /\ \E v : proc' = [proc EXCEPT ![p] = v] /\ v.op \notin Savers
    <3>1. proc[p].op = "send" /\ proc[p] \in Proc
      BY <1>1, <1>14 DEF FindToken, At, TypeOK
    <3>2. Idle.op \notin Savers
      BY IdleTyped DEF Savers
    <3>3. [proc[p] EXCEPT !.pc = "store", !.t = users[proc[p].u].fcmToken].op \notin Savers
      BY <3>1 DEF Proc, Savers
    <3>q. QED BY <1>14, <3>2, <3>3 DEF FindToken, Done
  <2>2. proc'[p].op \notin Savers /\ \A q \in Procs \ {p} : proc'[q] = proc[q]
    BY <1>1, <2>1 DEF TypeOK
  <2>q. QED BY <1>4, <2>1, <2>2
<1>15. ASSUME NEW p \in Procs, ClearStaleToken(p) PROVE RejectInv'
  <2>1. /\ UNCHANGED alive /\ rejected' = rejected \cup {proc[p].t} /\ Done(p)
        /\ users' = [u \in Users |-> IF users[u] = Entity(proc[p]) THEN NewRow ELSE users[u]]
        /\ slips' = [u \in Users |-> IF Holding(proc[p].t, u) THEN slips[u] \cup {"revived"}
                                     ELSE slips[u]]
    BY <1>15 DEF ClearStaleToken
  <2>2. proc[p].t \in Devices /\ proc[p].t \notin alive /\ None \notin rejected'
    BY <1>1, <1>15, <2>1, NoneAssumption DEF ClearStaleToken, BaseInv, HandlerInv, HandlerOk, TypeOK
  <2>3. RejectedStaysOut'
    <3> SUFFICES ASSUME NEW u \in Users, users'[u] # None, users'[u].fcmToken \in rejected'
                 PROVE  "revived" \in slips'[u]
      BY DEF RejectedStaysOut
    <3>1. users'[u] = users[u] /\ users[u] # Entity(proc[p]) /\ users[u] \in Row
      BY <1>1, <2>1, <2>2 DEF NewRow, TypeOK
    <3>2. users[u].fcmToken # proc[p].t
      BY <3>1 DEF Entity, Row
    <3>q. QED BY <1>1, <2>1, <3>1, <3>2 DEF RejectInv, RejectedStaysOut
  <2>4. ASSUME NEW q \in Procs, proc'[q].op \in Savers, proc'[q].t \in rejected'
        PROVE  "revived" \in slips'[proc'[q].u]
    <3>1. proc'[q] = proc[q] /\ proc[q].u \in Users
      BY <1>1, <1>3, <2>1, <2>4, DoneMoves, IdleTyped DEF Savers
    <3>2. CASE proc[q].t = proc[p].t
      BY <2>1, <2>4, <3>1, <3>2 DEF Holding
    <3>3. CASE proc[q].t # proc[p].t
      BY <1>1, <2>1, <2>4, <3>1, <3>3 DEF RejectInv
    <3>q. QED BY <3>2, <3>3
  <2>q. QED BY <2>1, <2>2, <2>3, <2>4 DEF RejectInv
<1>16. ASSUME UNCHANGED <<users, rejected, proc>>, alive' \subseteq alive PROVE RejectInv'
  BY <1>1, <1>3, <1>16 DEF RejectInv, RejectedStaysOut
<1>17. ASSUME NEW u \in Users, NEW d \in Devices, RequestOtp(u) \/ Expire(u) \/ EndSession(u, d)
       PROVE  RejectInv'
  BY <1>16, <1>17 DEF RequestOtp, Expire, EndSession
<1>18. ASSUME NEW d \in Devices, Retire(d) PROVE RejectInv'
  BY <1>16, <1>18 DEF Retire
<1>19. PICK d \in Devices : TRUE
  BY AccountsAssumption
<1>20. ASSUME NEW p \in Procs, NEW u \in Users, SendToUser(p, u) PROVE RejectInv'
  BY <1>7, <1>19, <1>20
<1>21. ASSUME NEW u \in Users, RequestOtp(u) \/ Expire(u) PROVE RejectInv'
  BY <1>17, <1>19, <1>21
<1>22. ASSUME NEW u \in Users, NEW e \in Devices, NEW f \in Devices, Renew(u, e, f)
       PROVE  RejectInv'
  BY <1>16, <1>22 DEF Renew
<1>q. QED
  BY <1>2, <1>5, <1>6, <1>7, <1>10, <1>11, <1>12, <1>13, <1>14, <1>15, <1>17, <1>18, <1>20,
     <1>21, <1>22
     DEF Next

\* A token cleared because Firebase refused it is in the row again only if a save
\* held it when it was cleared.
THEOREM RejectedOut == Spec => []RejectedStaysOut
<1>1. Init => RejectInv
  <2> SUFFICES ASSUME Init PROVE RejectInv
    OBVIOUS
  <2>1. \A p \in Procs : proc[p].op \notin Savers
    BY IdleTyped DEF Init, Savers
  <2>q. QED BY <2>1 DEF Init, RejectInv, RejectedStaysOut
<1>2. RejectInv => RejectedStaysOut
  BY DEF RejectInv
<1>q. QED BY <1>1, <1>2, BaseInvariant, RejectStep, PTL DEF Spec

-----------------------------------------------------------------------------
(***************************************************************************)
(* Pushes.                                                                 *)
(***************************************************************************)
\* What typing says of a handler.
LEMMA HandlerTyped ==
  ASSUME BaseInv, NEW p \in Procs
  PROVE  /\ proc[p].u \in Users /\ proc[p].t \in Devices \cup {None}
         /\ proc[p].op \in Savers => users[proc[p].u] \in Row /\ proc[p].pc \in {"select", "update", "cache"}
         /\ proc[p].op = "register" => proc[p].t \in Devices
         /\ proc[p].pc = "store" => proc[p].t \in Devices
BY DEF BaseInv, TypeOK, Proc, HandlerInv, HandlerOk, Savers

LEMMA ShowsToken ==
  ASSUME TypeOK, NEW u \in Users, users[u] # None, NEW d
  PROVE  Shows(u, d) <=> users[u].fcmToken = d
<1>1. users[u] \in Row
  BY DEF TypeOK
<1>2. users[u] = [fcmToken |-> users[u].fcmToken]
  BY <1>1 DEF Row
<1>q. QED BY <1>2 DEF Shows

\* Only a row shows a token, and one at a time.
LEMMA ShowsOne ==
  ASSUME NEW u \in Users, NEW d \in Devices, Shows(u, d)
  PROVE  users[u] # None /\ \A e : Shows(u, e) => e = d
<1>1. [fcmToken |-> d] \in [fcmToken : Devices \cup {None}]
  OBVIOUS
<1>2. \A e : [fcmToken |-> e].fcmToken = e
  OBVIOUS
<1>q. QED BY <1>1, <1>2, NoneAssumption DEF Shows

\* A step that leaves the valid tokens of u alone, and makes no handler a saver of
\* its row or one about to fill Redis: what it takes from Redis, from the valid
\* tokens and from the settled accounts breaks nothing.
Quiet(u) ==
  /\ \A q \in Procs : \/ proc'[q] = proc[q]
                      \/ /\ ~ (proc'[q].op \in Savers /\ proc'[q].u = u)
                         /\ ~ (proc'[q].pc = "store" /\ proc'[q].u = u)
                         /\ At(q, "register", "cache") /\ proc[q].u = u => "fault" \in slips'[u]
  /\ alive' \subseteq alive
  /\ \A d \in alive' : Shows(u, d)' <=> Shows(u, d)
  /\ users[u] # None => users'[u] # None
  /\ cache'[u] \in {cache[u], None}
  /\ u \in settled' => u \in settled /\ refresh'[u] \in {refresh[u], None}
  /\ slips[u] \subseteq slips'[u]

LEMMA QuietPush ==
  ASSUME BaseInv, BaseInv', NEW u \in Users, PushAt(u), Quiet(u) PROVE PushAt(u)'
<1>0. None \notin alive' /\ settled' \subseteq Users
  BY NoneAssumption DEF BaseInv, TypeOK
<1>1. ASSUME NEW causes, Spared(u, causes)' PROVE Spared(u, causes)
  BY <1>1 DEF Spared, Quiet
<1>2. Registering(u) => Registering(u)' \/ "fault" \in slips'[u]
  BY DEF Registering, At, Quiet
<1>3. SaveAt(u)'
  <2> SUFFICES ASSUME "crossed" \notin slips'[u]
               PROVE  /\ \A q, r \in Procs : Saves(q, u)' /\ Saves(r, u)' => q = r
                      /\ \A q \in Procs : Saves(q, u)' => SaverOk(q)'
    BY DEF SaveAt
  <2>1. \A q \in Procs : Saves(q, u)' => Saves(q, u) /\ proc'[q] = proc[q]
    BY DEF Saves, Quiet
  <2>2. "crossed" \notin slips[u]
    BY DEF Quiet
  <2>3. ASSUME NEW q \in Procs, Saves(q, u)' PROVE SaverOk(q)'
    <3>1. SaverOk(q) /\ proc'[q] = proc[q] /\ proc[q].u = u
      BY <2>1, <2>2, <2>3 DEF PushAt, SaveAt, Saves
    <3>2. \A d \in alive' : d \in alive /\ (users'[u] = [fcmToken |-> d] <=> users[u] = [fcmToken |-> d])
      BY DEF Quiet, Shows
    <3>q. QED BY <3>1, <3>2 DEF SaverOk, Shows
  <2>q. QED BY <2>1, <2>2, <2>3 DEF PushAt, SaveAt
<1>4. StoreAt(u)'
  <2> SUFFICES ASSUME Spared(u, {"fault", "crossed", "late"})', NEW q \in Procs,
                      proc'[q].pc = "store", proc'[q].u = u, proc'[q].t \in alive'
               PROVE  Shows(u, proc[q].t)' \/ Registering(u)'
    BY DEF StoreAt
  <2>1. Spared(u, {"fault", "crossed", "late"}) /\ "fault" \notin slips'[u]
    BY <1>1 DEF Spared
  <2>2. proc'[q] = proc[q] /\ proc[q].t \in alive
    BY DEF Quiet
  <2>3. Shows(u, proc[q].t) \/ Registering(u)
    BY <2>1, <2>2 DEF PushAt, StoreAt
  <2>q. QED BY <1>2, <2>1, <2>2, <2>3 DEF Quiet, Shows
<1>5. SettleAt(u)'
  <2> SUFFICES ASSUME u \in settled'
               PROVE  /\ users'[u] # None
                      /\ Spared(u, {"older", "crossed"})' =>
                           \A q \in Procs : proc'[q].op = "register" /\ proc'[q].pc # "cache" /\ proc'[q].u = u =>
                             refresh'[u] \in {proc'[q].t, None}
    BY DEF SettleAt
  <2>1. u \in settled /\ users'[u] # None /\ refresh'[u] \in {refresh[u], None}
    BY DEF Quiet, PushAt, SettleAt
  <2>2. ASSUME Spared(u, {"older", "crossed"})', NEW q \in Procs,
               proc'[q].op = "register", proc'[q].pc # "cache", proc'[q].u = u
        PROVE  refresh'[u] \in {proc'[q].t, None}
    <3>1. Spared(u, {"older", "crossed"}) /\ proc'[q] = proc[q]
      BY <1>1, <2>2 DEF Savers, Quiet
    <3>q. QED BY <2>1, <2>2, <3>1 DEF PushAt, SettleAt
  <2>q. QED BY <2>1, <2>2
<1>6. CacheAt(u)'
  <2> SUFFICES ASSUME Spared(u, {"fault", "crossed", "late"})', cache'[u] \in alive'
               PROVE  Shows(u, cache[u])' \/ Registering(u)'
    BY DEF CacheAt
  <2>1. Spared(u, {"fault", "crossed", "late"}) /\ "fault" \notin slips'[u]
    BY <1>1 DEF Spared
  <2>2. cache'[u] = cache[u] /\ cache[u] \in alive
    BY <1>0 DEF Quiet
  <2>3. Shows(u, cache[u]) \/ Registering(u)
    BY <2>1, <2>2 DEF PushAt, CacheAt
  <2>q. QED BY <1>2, <2>1, <2>2, <2>3 DEF Quiet, Shows
<1>7. PushesAt(u)'
  <2> SUFFICES ASSUME NEW d \in alive', Spared(u, {"fault", "older", "crossed"})', refresh'[u] = d,
                      u \in settled'
               PROVE  Shows(u, d)'
    BY DEF PushesAt, Shows
  <2>1. Spared(u, {"fault", "older", "crossed"}) /\ d \in alive /\ refresh[u] = d /\ u \in settled
    BY <1>0, <1>1 DEF Quiet
  <2>q. QED BY <2>1 DEF PushAt, PushesAt, Quiet, Shows
<1>q. QED BY <1>3, <1>4, <1>5, <1>6, <1>7 DEF PushAt

\* A step of p in front of the same rows, keys and valid tokens.
LEMMA QuietStep ==
  ASSUME BaseInv, BaseInv', PushInv, NEW p \in Procs, NEW u \in Users, slips[u] \subseteq slips'[u],
         \A q \in Procs \ {p} : proc'[q] = proc[q],
         UNCHANGED <<users, alive>>, cache'[u] = cache[u],
         u \in settled' => u \in settled /\ refresh'[u] = refresh[u],
         ~ (proc'[p].op \in Savers /\ proc'[p].u = u), ~ (proc'[p].pc = "store" /\ proc'[p].u = u),
         At(p, "register", "cache") /\ proc[p].u = u => "fault" \in slips'[u]
  PROVE  PushAt(u)'
<1>1. Quiet(u)
  BY DEF Quiet, Shows
<1>q. QED BY <1>1, QuietPush DEF PushInv

LEMMA QuietStarts ==
  ASSUME BaseInv, BaseInv', PushInv, NEW p \in Procs, NEW u \in Users, NEW d \in Devices,
         VerifyOtp(p, u, d) \/ SendToUser(p, u)
  PROVE  PushInv'
<1>1. PICK op \in {"send", "verify"}, pc \in {"delete", "find", "push"}, t \in Devices \cup {None} :
        Start(p, op, pc, u, t)
  <2>1. CASE VerifyOtp(p, u, d)
    BY <2>1 DEF VerifyOtp
  <2>2. CASE SendToUser(p, u)
    BY <2>2 DEF SendToUser, BaseInv, TypeOK
  <2>q. QED BY <2>1, <2>2
<1>2. /\ proc'[p].op \notin Savers /\ proc'[p].pc # "store" /\ proc[p] = Idle
      /\ \A q \in Procs \ {p} : proc'[q] = proc[q]
  BY <1>1, StartMoves DEF Savers, BaseInv
<1>3. UNCHANGED <<users, refresh, cache, settled, alive, slips>> /\ ~ At(p, "register", "cache")
  BY <1>2, IdleTyped DEF VerifyOtp, SendToUser, redis, At
<1>q. QED BY <1>2, <1>3, QuietStep DEF PushInv

LEMMA QuietSteps ==
  ASSUME BaseInv, BaseInv', PushInv, NEW p \in Procs,
         \A u \in Users : slips[u] \subseteq slips'[u],
         DeleteOtp(p) \/ FindOrCreate(p) \/ GenerateTokenPair(p) \/ SendToDevice(p) \/ Lose(p)
  PROVE  PushInv'
<1>1. /\ UNCHANGED <<users, cache, alive>> /\ settled \subseteq Users
      /\ \A u \in Users : u \in settled' => u \in settled /\ refresh'[u] = refresh[u]
  <2>1. CASE DeleteOtp(p) \/ FindOrCreate(p) \/ SendToDevice(p) \/ Lose(p)
    BY <2>1 DEF DeleteOtp, FindOrCreate, SendToDevice, Lose, redis, BaseInv, TypeOK
  <2>2. CASE GenerateTokenPair(p)
    BY <2>2 DEF GenerateTokenPair, BaseInv, TypeOK
  <2>q. QED BY <2>1, <2>2
<1>2. CASE Done(p)
  <2>1. /\ proc'[p].op \notin Savers /\ proc'[p].pc # "store"
        /\ \A q \in Procs \ {p} : proc'[q] = proc[q]
    BY <1>2, DoneMoves, IdleTyped DEF Savers, BaseInv
  <2>2. At(p, "register", "cache") => "fault" \in slips'[proc[p].u]
    <3>1. At(p, "register", "cache") => Lose(p)
      BY DEF DeleteOtp, FindOrCreate, GenerateTokenPair, SendToDevice, At
    <3>2. Lose(p) => "fault" \in slips'[proc[p].u]
      BY HandlerTyped DEF Lose, Slip, BaseInv, TypeOK
    <3>q. QED BY <3>1, <3>2
  <2>q. QED BY <1>1, <2>1, <2>2, QuietStep DEF PushInv
<1>3. CASE ~ Done(p)
  <2>1. PICK pc \in {"find", "insert", "session", "clear"} : Goto(p, pc)
    BY <1>3 DEF DeleteOtp, FindOrCreate, GenerateTokenPair, SendToDevice, Lose
  <2>2. proc[p].op \notin Savers /\ ~ At(p, "register", "cache")
    <3>1. proc[p].op = "verify" \/ proc[p].pc = "push"
      BY <1>3 DEF DeleteOtp, FindOrCreate, GenerateTokenPair, SendToDevice, Lose, At
    <3>q. QED BY <3>1, HandlerTyped DEF At, Savers
  <2>3. /\ proc'[p].op \notin Savers /\ proc'[p].pc # "store"
        /\ \A q \in Procs \ {p} : proc'[q] = proc[q]
    BY <2>1, <2>2, GotoMoves DEF BaseInv
  <2>q. QED BY <1>1, <2>2, <2>3, QuietStep DEF PushInv
<1>q. QED BY <1>2, <1>3

\* A first row shows no token.
LEMMA QuietInsert ==
  ASSUME BaseInv, BaseInv', PushInv, NEW p \in Procs, InsertUser(p)
  PROVE  PushInv'
<1>1. /\ proc[p].op = "verify" /\ proc[p].u \in Users
      /\ None \notin alive /\ UNCHANGED <<refresh, cache, alive, settled, slips>>
  BY HandlerTyped, NoneAssumption DEF InsertUser, At, redis, BaseInv, TypeOK
<1>2. /\ proc'[p].op \notin Savers /\ proc'[p].pc # "store"
      /\ \A q \in Procs \ {p} : proc'[q] = proc[q]
  <2>1. Done(p) \/ Goto(p, "session")
    BY DEF InsertUser
  <2>q. QED BY <1>1, <2>1, DoneMoves, GotoMoves, IdleTyped DEF Savers, BaseInv
<1>3. \A x \in Users : users'[x] = users[x] \/ (users[x] = None /\ users'[x] = NewRow)
  BY DEF InsertUser, BaseInv, TypeOK
<1>4. ASSUME NEW u \in Users
      PROVE  /\ \A d \in alive' : Shows(u, d)' <=> Shows(u, d)
             /\ users[u] # None => users'[u] # None
  <2>1. ASSUME NEW d \in alive PROVE NewRow # [fcmToken |-> d] /\ None # [fcmToken |-> d]
    <3>1. d \in Devices /\ [fcmToken |-> d] \in [fcmToken : Devices \cup {None}]
      BY <2>1 DEF BaseInv, TypeOK
    <3>2. [fcmToken |-> d].fcmToken = d /\ NewRow.fcmToken = None
      BY DEF NewRow
    <3>q. QED BY <1>1, <2>1, <3>1, <3>2, NoneAssumption
  <2>q. QED BY <1>1, <1>3, <2>1 DEF Shows
<1>5. \A u \in Users : Quiet(u)
  BY <1>1, <1>2, <1>4 DEF Quiet, At
<1>q. QED BY <1>5, QuietPush DEF PushInv

\* A refused token is not a valid one.
LEMMA QuietClear ==
  ASSUME BaseInv, BaseInv', PushInv, NEW p \in Procs, ClearStaleToken(p),
         \A u \in Users : slips[u] \subseteq slips'[u]
  PROVE  PushInv'
<1>1. /\ proc[p].t \notin alive /\ proc[p].t \in Devices /\ proc[p].op \notin Savers
      /\ None \notin alive
      /\ UNCHANGED <<refresh, cache, alive, settled>> /\ Done(p) /\ proc[p].pc = "clear"
  BY NoneAssumption
     DEF ClearStaleToken, redis, BaseInv, TypeOK, HandlerInv, HandlerOk, Savers
<1>2. /\ proc'[p].op \notin Savers /\ proc'[p].pc # "store"
      /\ \A q \in Procs \ {p} : proc'[q] = proc[q]
  BY <1>1, DoneMoves, IdleTyped DEF Savers, BaseInv
<1>3. ASSUME NEW u \in Users
      PROVE  /\ \A d \in alive' : Shows(u, d)' <=> Shows(u, d)
             /\ users[u] # None => users'[u] # None
  <2>1. \/ users'[u] = users[u]
        \/ users[u] = [fcmToken |-> proc[p].t] /\ users'[u] = [fcmToken |-> None]
    BY DEF ClearStaleToken, Entity, NewRow
  <2>2. ASSUME NEW d \in alive
        PROVE  [fcmToken |-> proc[p].t] # [fcmToken |-> d] /\ [fcmToken |-> None] # [fcmToken |-> d]
    <3>1. \A x : [fcmToken |-> x].fcmToken = x
      OBVIOUS
    <3>q. QED BY <1>1, <2>2, <3>1
  <2>3. [fcmToken |-> None] # None
    BY NoneAssumption
  <2>q. QED BY <1>1, <2>1, <2>2, <2>3 DEF Shows
<1>4. \A u \in Users : Quiet(u)
  BY <1>1, <1>2, <1>3 DEF Quiet, At
<1>q. QED BY <1>4, QuietPush DEF PushInv

\* What passes outside the handlers.
LEMMA QuietOutside ==
  ASSUME BaseInv, BaseInv', PushInv, UNCHANGED <<users, proc, slips>>, alive' \subseteq alive,
         \A u \in Users : /\ cache'[u] \in {cache[u], None}
                          /\ u \in settled' => u \in settled /\ refresh'[u] \in {refresh[u], None}
  PROVE  PushInv'
<1>1. \A u \in Users : Quiet(u)
  BY DEF Quiet, Shows
<1>q. QED BY <1>1, QuietPush DEF PushInv

-----------------------------------------------------------------------------
\* The first of several saves in flight holds what the row shows.
LEMMA SaveStarts ==
  ASSUME BaseInv, BaseInv', PushInv, NEW p \in Procs, NEW u \in Users, NEW op \in Savers,
         NEW t \in Devices \cup {None}, Start(p, op, "select", u, t),
         UNCHANGED <<users, refresh, cache, alive, settled>>,
         \A x \in Users : slips[x] \subseteq slips'[x],
         InFlight(Savers, u) => "crossed" \in slips'[u],
         op = "edit" => users[u] # None /\ t = users[u].fcmToken,
         op = "register" /\ refresh[u] # t => "older" \in slips'[u]
  PROVE  PushInv'
<1>1. /\ proc'[p].pc = "select" /\ proc'[p].op = op /\ proc'[p].u = u /\ proc'[p].t = t
      /\ \A q \in Procs \ {p} : proc'[q] = proc[q]
      /\ ~ At(p, "register", "cache") /\ proc[p].op \notin Savers
  BY StartMoves, IdleTyped DEF BaseInv, At, Savers
<1>2. \A x \in Users \ {u} : PushAt(x)'
  BY <1>1, QuietStep
<1>3. ASSUME NEW causes, Spared(u, causes)' PROVE Spared(u, causes)
  BY <1>3 DEF Spared
<1>4. Registering(u) => Registering(u)'
  BY <1>1 DEF Registering, At
<1>5. SaveAt(u)'
  <2> SUFFICES ASSUME "crossed" \notin slips'[u]
               PROVE  /\ \A q, r \in Procs : Saves(q, u)' /\ Saves(r, u)' => q = r
                      /\ \A q \in Procs : Saves(q, u)' => SaverOk(q)'
    BY DEF SaveAt
  <2>1. \A q \in Procs : Saves(q, u)' => q = p
    BY <1>1 DEF InFlight, Saves
  <2>2. SaverOk(p)'
    <3>1. op = "edit" => \A d \in alive : users[u] = [fcmToken |-> d] => t = d
      BY ShowsToken DEF BaseInv, Shows
    <3>q. QED BY <1>1, <3>1 DEF SaverOk, Shows
  <2>q. QED BY <2>1, <2>2
<1>6. StoreAt(u)'
  BY <1>1, <1>3, <1>4 DEF StoreAt, PushInv, PushAt, Shows
<1>7. SettleAt(u)'
  BY <1>1, <1>3 DEF SettleAt, PushInv, PushAt, Spared
<1>8. CacheAt(u)'
  BY <1>3, <1>4 DEF CacheAt, PushInv, PushAt, Shows
<1>9. PushesAt(u)'
  BY <1>3 DEF PushesAt, PushInv, PushAt, Shows
<1>q. QED BY <1>2, <1>5, <1>6, <1>7, <1>8, <1>9 DEF PushInv, PushAt

LEMMA SelectPush ==
  ASSUME BaseInv, BaseInv', PushInv, NEW p \in Procs, Select(p),
         NEW u, proc[p].u = u
  PROVE  PushInv'
<1>1. /\ proc'[p].pc = "update" /\ proc'[p].op = proc[p].op /\ proc'[p].op \in Savers
      /\ proc'[p].u = u /\ proc'[p].t = proc[p].t
      /\ \A q \in Procs \ {p} : proc'[q] = proc[q]
      /\ proc'[p].dirty = {"fcmToken"} \/ Shows(u, proc[p].t)
      /\ UNCHANGED <<users, refresh, cache, alive, settled, slips>>
      /\ proc[p].pc = "select" /\ u \in Users
  BY SelectBase, HandlerTyped DEF Select, redis
<1>2. \A x \in Users \ {u} : PushAt(x)'
  BY <1>1, QuietStep DEF At
<1>3. \A causes : Spared(u, causes)' <=> Spared(u, causes)
  BY <1>1 DEF Spared
<1>4. \A q \in Procs : /\ proc'[q].op = proc[q].op /\ proc'[q].u = proc[q].u /\ proc'[q].t = proc[q].t
                       /\ proc'[q].pc = proc[q].pc \/ (q = p /\ proc'[q].pc = "update")
  BY <1>1
<1>5. Registering(u) => Registering(u)'
  BY <1>1 DEF Registering, At
<1>6. SaveAt(u)'
  <2> SUFFICES ASSUME "crossed" \notin slips'[u]
               PROVE  /\ \A q, r \in Procs : Saves(q, u)' /\ Saves(r, u)' => q = r
                      /\ \A q \in Procs : Saves(q, u)' => SaverOk(q)'
    BY DEF SaveAt
  <2>1. /\ \A q, r \in Procs : Saves(q, u) /\ Saves(r, u) => q = r
        /\ \A q \in Procs : Saves(q, u) => SaverOk(q)
    BY <1>1 DEF PushInv, PushAt, SaveAt
  <2>2. \A q \in Procs : Saves(q, u)' => Saves(q, u) /\ q = p
    BY <1>1, <1>4, <2>1 DEF Saves
  <2>3. SaverOk(p)'
    <3>1. SaverOk(p)
      BY <1>1, <2>1 DEF Saves
    <3>q. QED BY <1>1, <3>1 DEF SaverOk, Shows
  <2>q. QED BY <2>2, <2>3
<1>7. StoreAt(u)'
  BY <1>1, <1>3, <1>4, <1>5 DEF StoreAt, PushInv, PushAt, Shows
<1>8. SettleAt(u)'
  BY <1>1, <1>3, <1>4 DEF SettleAt, PushInv, PushAt
<1>9. CacheAt(u)'
  BY <1>1, <1>3, <1>5 DEF CacheAt, PushInv, PushAt, Shows
<1>10. PushesAt(u)'
  BY <1>1, <1>3 DEF PushesAt, PushInv, PushAt, Shows
<1>q. QED BY <1>1, <1>2, <1>6, <1>7, <1>8, <1>9, <1>10 DEF PushInv, PushAt

\* An edit writes the valid token the row shows, if it shows one, and a
\* registration its own.
LEMMA UpdatePush ==
  ASSUME BaseInv, BaseInv', PushInv, NEW p \in Procs, Update(p),
         NEW u, NEW t, proc[p].u = u, proc[p].t = t
  PROVE  PushInv'
<1>1. /\ proc[p].pc = "update" /\ proc[p].op \in Savers /\ u \in Users /\ users[u] \in Row
      /\ UNCHANGED <<refresh, cache, alive, slips>>
      /\ users' = [users EXCEPT ![u] = IF "fcmToken" \in proc[p].dirty
                                       THEN [fcmToken |-> t] ELSE @]
  BY UpdateShape
<1>2. /\ users'[u] = IF "fcmToken" \in proc[p].dirty THEN [fcmToken |-> t] ELSE users[u]
      /\ \A x \in Users \ {u} : users'[x] = users[x]
      /\ settled' \ {u} = settled \ {u}
      /\ None \notin alive /\ alive \subseteq Devices /\ users[u] # None /\ users'[u] # None
  <2>1. users[u] # None /\ [fcmToken |-> t] # None
    BY <1>1, HandlerTyped, NoneAssumption DEF Row
  <2>q. QED BY <1>1, <2>1, UpdateShape, NoneAssumption DEF BaseInv, TypeOK
<1>3. /\ \A q \in Procs \ {p} : proc'[q] = proc[q]
      /\ proc[p].op = "register" => /\ proc'[p].pc = "cache" /\ proc'[p].op = "register"
                                    /\ proc'[p].u = u /\ proc'[p].t = t
      /\ proc[p].op = "edit" => proc'[p] = Idle
  BY <1>1, UpdateShape, GotoMoves, DoneMoves DEF BaseInv, Savers
<1>4. proc'[p].pc # "store" /\ (proc[p].op = "edit" => proc'[p].op \notin Savers)
  BY <1>1, <1>3, IdleTyped DEF Savers
<1>5. \A causes : Spared(u, causes)' <=> Spared(u, causes)
  BY <1>1 DEF Spared
<1>6. \A x \in Users \ {u} : PushAt(x)'
  <2> SUFFICES ASSUME NEW x \in Users, x # u PROVE PushAt(x)'
    OBVIOUS
  <2>1. \A q \in Procs : \/ proc'[q] = proc[q]
                         \/ /\ ~ (proc'[q].op \in Savers /\ proc'[q].u = x)
                            /\ ~ (proc'[q].pc = "store" /\ proc'[q].u = x)
                            /\ ~ (At(q, "register", "cache") /\ proc[q].u = x)
    BY <1>1, <1>3, <1>4 DEF At, Savers
  <2>2. Quiet(x)
    BY <1>1, <1>2, <2>1 DEF Quiet, Shows
  <2>q. QED BY <2>2, QuietPush DEF PushInv
\* The row of u afterwards, when no other save of it is in flight.
<1>7. ASSUME "crossed" \notin slips[u]
      PROVE  /\ \A q \in Procs : Saves(q, u) => q = p
             /\ proc[p].op = "register" /\ t \in alive => Shows(u, t)'
             /\ proc[p].op = "edit" => \A d \in alive : Shows(u, d) => Shows(u, d)'
  <2>1. Saves(p, u) /\ SaverOk(p) /\ \A q \in Procs : Saves(q, u) => q = p
    BY <1>1, <1>7 DEF Saves, PushInv, PushAt, SaveAt
  <2>2. proc[p].op = "register" /\ t \in alive =>
          proc[p].dirty = {"fcmToken"} \/ users[u] = [fcmToken |-> t]
    BY <1>1, <2>1 DEF SaverOk, Shows
  <2>3. proc[p].op = "edit" => \A d \in alive : users[u] = [fcmToken |-> d] => t = d
    BY <2>1 DEF SaverOk, Shows
  <2>q. QED BY <1>2, <2>1, <2>2, <2>3 DEF Shows
<1>8. proc[p].op = "register" => Registering(u)'
  BY <1>3 DEF Registering, At
<1>9. "crossed" \notin slips[u] /\ proc[p].op = "edit" => ~ Registering(u)
  BY <1>7 DEF Registering, At, Saves, Savers
<1>10. SaveAt(u)'
  <2> SUFFICES ASSUME "crossed" \notin slips'[u]
               PROVE  /\ \A q, r \in Procs : Saves(q, u)' /\ Saves(r, u)' => q = r
                      /\ \A q \in Procs : Saves(q, u)' => SaverOk(q)'
    BY DEF SaveAt
  <2>1. \A q \in Procs : Saves(q, u)' => q = p
    BY <1>1, <1>3, <1>7 DEF Saves
  <2>2. Saves(p, u)' => SaverOk(p)'
    BY <1>1, <1>3, <1>4, <1>7 DEF SaverOk, Saves, Savers, Shows
  <2>q. QED BY <2>1, <2>2
<1>11. StoreAt(u)'
  <2> SUFFICES ASSUME Spared(u, {"fault", "crossed", "late"}), NEW q \in Procs,
                      proc'[q].pc = "store", proc'[q].u = u, proc'[q].t \in alive,
                      proc[p].op = "edit"
               PROVE  Shows(u, proc[q].t)'
    BY <1>1, <1>5, <1>8 DEF StoreAt, Savers
  <2>1. proc'[q] = proc[q] /\ "crossed" \notin slips[u]
    BY <1>3, <1>4 DEF Spared
  <2>2. Shows(u, proc[q].t)
    BY <1>1, <1>9, <2>1 DEF PushInv, PushAt, StoreAt
  <2>3. users'[u] = [fcmToken |-> proc[q].t]
    BY <1>7, <2>1, <2>2 DEF Shows
  <2>q. QED BY <2>1, <2>3 DEF Shows
<1>12. SettleAt(u)'
  <2> SUFFICES ASSUME Spared(u, {"older", "crossed"}), NEW q \in Procs,
                      proc'[q].op = "register", proc'[q].pc # "cache", proc'[q].u = u
               PROVE  FALSE
    BY <1>2, <1>5 DEF SettleAt
  <2>1. q # p
    BY <1>1, <1>3, <1>4 DEF Savers
  <2>q. QED BY <1>3, <1>7, <2>1 DEF Saves, Savers, Spared
<1>13. CacheAt(u)'
  <2> SUFFICES ASSUME Spared(u, {"fault", "crossed", "late"}), cache[u] \in alive,
                      proc[p].op = "edit"
               PROVE  Shows(u, cache[u])'
    BY <1>1, <1>5, <1>8 DEF CacheAt, Savers
  <2>1. Shows(u, cache[u])
    BY <1>1, <1>9 DEF PushInv, PushAt, CacheAt, Spared
  <2>2. users'[u] = [fcmToken |-> cache[u]]
    BY <1>7, <2>1 DEF Shows, Spared
  <2>q. QED BY <1>1, <2>2 DEF Shows
<1>14. PushesAt(u)'
  <2> SUFFICES ASSUME NEW d \in alive, Spared(u, {"fault", "older", "crossed"}), refresh[u] = d,
                      u \in settled'
               PROVE  users'[u] = [fcmToken |-> d]
    BY <1>1, <1>5 DEF PushesAt, Shows
  <2>1. CASE proc[p].op = "register" /\ t = d
    BY <1>7, <2>1 DEF Spared, Shows
  <2>2. CASE proc[p].op = "register" /\ t # d
    <3>1. u \in settled
      BY <2>2, UpdateShape
    <3>2. refresh[u] \in {t, None}
      BY <1>1, <2>2, <3>1 DEF PushInv, PushAt, SettleAt, Spared
    <3>q. QED BY <1>2, <2>2, <3>2
  <2>3. CASE proc[p].op = "edit"
    <3>1. u \in settled
      BY <2>3, UpdateShape
    <3>2. Shows(u, d)
      BY <1>1, <3>1 DEF PushInv, PushAt, PushesAt
    <3>q. QED BY <1>7, <2>3, <3>2 DEF Spared, Shows
  <2>q. QED BY <1>1, <2>1, <2>2, <2>3 DEF Savers
<1>q. QED BY <1>6, <1>10, <1>11, <1>12, <1>13, <1>14 DEF PushInv, PushAt

\* A registration leaves its token in Redis, and the row shows it.
LEMMA CachePush ==
  ASSUME BaseInv, BaseInv', PushInv, NEW p \in Procs, CacheFcmToken(p),
         \A x \in Users : slips[x] \subseteq slips'[x],
         NEW u, NEW t, proc[p].u = u, proc[p].t = t
  PROVE  PushInv'
<1>1. /\ proc[p].op = "register" /\ proc[p].pc = "cache" /\ u \in Users /\ t \in Devices
      /\ UNCHANGED <<users, refresh, alive, settled>> /\ Done(p)
      /\ \/ cache' = [cache EXCEPT ![u] = t] /\ (Overtakes(p) => "late" \in slips'[u])
         \/ UNCHANGED cache /\ "fault" \in slips'[u]
  BY HandlerTyped DEF CacheFcmToken, At, Slip, BaseInv, TypeOK
<1>2. /\ proc'[p].op \notin Savers /\ proc'[p].pc # "store"
      /\ \A q \in Procs \ {p} : proc'[q] = proc[q]
  BY <1>1, DoneMoves, IdleTyped DEF Savers, BaseInv
<1>3. \A x \in Users \ {u} : cache'[x] = cache[x]
  BY <1>1 DEF BaseInv, TypeOK
<1>4. \A x \in Users \ {u} : PushAt(x)'
  BY <1>1, <1>2, <1>3, QuietStep
<1>5. CASE UNCHANGED cache /\ "fault" \in slips'[u]
  <2>1. PushAt(u)'
    BY <1>1, <1>2, <1>5, QuietStep
  <2>q. QED BY <1>4, <2>1 DEF PushInv
<1>6. CASE cache' = [cache EXCEPT ![u] = t] /\ (Overtakes(p) => "late" \in slips'[u])
  <2>1. cache'[u] = t
    BY <1>1, <1>6 DEF BaseInv, TypeOK
  <2>2. ASSUME NEW causes, Spared(u, causes)' PROVE Spared(u, causes)
    BY <1>1, <2>2 DEF Spared
  <2>3. "crossed" \notin slips[u] /\ t \in alive => Shows(u, t)
    BY <1>1 DEF PushInv, PushAt, SaveAt, SaverOk, Saves, Savers
  <2>4. SaveAt(u)'
    <3> SUFFICES ASSUME "crossed" \notin slips'[u]
                 PROVE  /\ \A q, r \in Procs : Saves(q, u)' /\ Saves(r, u)' => q = r
                        /\ \A q \in Procs : Saves(q, u)' => SaverOk(q)'
      BY DEF SaveAt
    <3>1. /\ \A q, r \in Procs : Saves(q, u) /\ Saves(r, u) => q = r
          /\ \A q \in Procs : Saves(q, u) => SaverOk(q)
      BY <1>1 DEF PushInv, PushAt, SaveAt
    <3>2. \A q \in Procs : Saves(q, u)' => FALSE
      BY <1>1, <1>2, <3>1 DEF Saves, Savers
    <3>q. QED BY <3>2
  <2>5. StoreAt(u)'
    <3> SUFFICES ASSUME Spared(u, {"fault", "crossed", "late"})', NEW q \in Procs,
                        proc'[q].pc = "store", proc'[q].u = u, proc'[q].t \in alive
                 PROVE  Shows(u, proc[q].t)'
      BY <1>1 DEF StoreAt
    <3>1. proc'[q] = proc[q] /\ ~ Overtakes(p) /\ "crossed" \notin slips[u]
      BY <1>1, <1>2, <1>6, <2>2 DEF Spared
    <3>2. proc[q].t = t
      BY <3>1 DEF Overtakes
    <3>q. QED BY <1>1, <2>3, <3>1, <3>2 DEF Shows
  <2>6. SettleAt(u)'
    BY <1>1, <1>2, <2>2 DEF SettleAt, PushInv, PushAt, Savers
  <2>7. CacheAt(u)'
    <3>1. Spared(u, {"fault", "crossed", "late"})' => "crossed" \notin slips[u]
      BY <2>2 DEF Spared
    <3>q. QED BY <1>1, <2>1, <2>3, <3>1 DEF CacheAt, Shows
  <2>8. PushesAt(u)'
    BY <1>1, <2>2 DEF PushesAt, PushInv, PushAt, Shows
  <2>q. QED BY <1>4, <2>4, <2>5, <2>6, <2>7, <2>8 DEF PushInv, PushAt
<1>q. QED BY <1>1, <1>5, <1>6

\* A push that missed Redis reads the token of the row.
LEMMA FindPush ==
  ASSUME BaseInv, BaseInv', PushInv, NEW p \in Procs, FindToken(p), NEW u, proc[p].u = u
  PROVE  PushInv'
<1>1. /\ proc[p].op = "send" /\ u \in Users /\ proc[p] \in Proc
      /\ UNCHANGED <<users, refresh, cache, alive, settled, slips>>
  BY HandlerTyped DEF FindToken, At, redis, BaseInv, TypeOK
<1>2. CASE Done(p)
  <2>1. /\ proc'[p].op \notin Savers /\ proc'[p].pc # "store"
        /\ \A q \in Procs \ {p} : proc'[q] = proc[q]
    BY <1>2, DoneMoves, IdleTyped DEF Savers, BaseInv
  <2>q. QED BY <1>1, <2>1, QuietStep DEF PushInv, At
<1>3. CASE ~ Done(p)
  <2> DEFINE v == [proc[p] EXCEPT !.pc = "store", !.t = users[u].fcmToken]
  <2>1. users[u] # None /\ proc' = [proc EXCEPT ![p] = v]
    BY <1>3 DEF FindToken
  <2>2. users[u].fcmToken \in Devices \cup {None}
    BY <1>1, <2>1 DEF BaseInv, TypeOK, Row
  <2>3. v \in Proc /\ v.op = "send" /\ v.u = u /\ v.t = users[u].fcmToken
    BY <1>1, <2>2 DEF Proc
  <2> HIDE DEF v
  <2>4. proc'[p] = v /\ \A q \in Procs \ {p} : proc'[q] = proc[q]
    BY <2>1, <2>3, OneMoves DEF BaseInv
  <2>5. \A x \in Users \ {u} : PushAt(x)'
    BY <1>1, <2>3, <2>4, QuietStep DEF Savers, At
  <2>6. /\ \A causes : Spared(u, causes)' <=> Spared(u, causes)
        /\ Registering(u) => Registering(u)'
    BY <1>1, <2>4 DEF Spared, Registering, At
  <2>7. \A q \in Procs : proc'[q].op \in Savers => proc'[q] = proc[q]
    BY <2>3, <2>4 DEF Savers
  <2>8. SaveAt(u)'
    BY <1>1, <2>7 DEF SaveAt, SaverOk, Saves, Shows, PushInv, PushAt
  <2>9. StoreAt(u)'
    <3>1. Shows(u, users[u].fcmToken)
      BY <1>1, <2>1, ShowsToken DEF BaseInv
    <3>2. users'[u] = [fcmToken |-> proc'[p].t]
      BY <1>1, <2>3, <2>4, <3>1 DEF Shows
    <3>q. QED BY <1>1, <2>4, <2>6, <3>2 DEF StoreAt, PushInv, PushAt, Shows
  <2>10. SettleAt(u)'
    BY <1>1, <2>6, <2>7 DEF SettleAt, PushInv, PushAt, Savers
  <2>11. CacheAt(u)' /\ PushesAt(u)'
    BY <1>1, <2>6 DEF CacheAt, PushesAt, PushInv, PushAt, Shows
  <2>q. QED BY <1>1, <2>5, <2>8, <2>9, <2>10, <2>11 DEF PushInv, PushAt
<1>q. QED BY <1>2, <1>3

\* The token a push stores is still the one in the row, or about to be replaced.
LEMMA StorePush ==
  ASSUME BaseInv, BaseInv', PushInv, NEW p \in Procs, StoreToken(p),
         NEW u, NEW t, proc[p].u = u, proc[p].t = t
  PROVE  PushInv'
<1>1. /\ proc[p].pc = "store" /\ proc[p].op \notin Savers /\ u \in Users
      /\ UNCHANGED <<users, refresh, alive, settled, slips>> /\ Goto(p, "push")
      /\ \/ cache' = [cache EXCEPT ![u] = t]
         \/ UNCHANGED cache
  BY HandlerTyped DEF StoreToken
<1>2. /\ proc'[p].op \notin Savers /\ proc'[p].pc # "store"
      /\ \A q \in Procs \ {p} : proc'[q] = proc[q]
  BY <1>1, GotoMoves DEF BaseInv
<1>3. \A x \in Users \ {u} : cache'[x] = cache[x]
  BY <1>1 DEF BaseInv, TypeOK
<1>4. \A x \in Users \ {u} : PushAt(x)'
  BY <1>1, <1>2, <1>3, QuietStep DEF At
<1>5. CASE UNCHANGED cache
  BY <1>1, <1>2, <1>5, QuietStep DEF At, PushInv
<1>6. CASE cache' = [cache EXCEPT ![u] = t]
  <2>1. cache'[u] = t
    BY <1>1, <1>6 DEF BaseInv, TypeOK
  <2>2. /\ \A causes : Spared(u, causes)' <=> Spared(u, causes)
        /\ Registering(u) => Registering(u)'
    BY <1>1, <1>2 DEF Spared, Registering, At
  <2>3. SaveAt(u)'
    BY <1>1, <1>2 DEF SaveAt, SaverOk, Saves, Shows, PushInv, PushAt
  <2>4. StoreAt(u)'
    BY <1>1, <1>2, <2>2 DEF StoreAt, PushInv, PushAt, Shows
  <2>5. SettleAt(u)'
    BY <1>1, <1>2, <2>2 DEF SettleAt, PushInv, PushAt, Savers
  <2>6. CacheAt(u)'
    <3> SUFFICES ASSUME Spared(u, {"fault", "crossed", "late"}), t \in alive
                 PROVE  Shows(u, t)' \/ Registering(u)'
      BY <1>1, <2>1, <2>2 DEF CacheAt, Shows
    <3>1. Shows(u, t) \/ Registering(u)
      BY <1>1 DEF PushInv, PushAt, StoreAt
    <3>q. QED BY <1>1, <2>2, <3>1 DEF Shows
  <2>7. PushesAt(u)'
    BY <1>1, <2>2 DEF PushesAt, PushInv, PushAt, Shows
  <2>q. QED BY <1>4, <2>3, <2>4, <2>5, <2>6, <2>7 DEF PushInv, PushAt
<1>q. QED BY <1>1, <1>5, <1>6

LEMMA PushStep ==
  ASSUME BaseInv, BaseInv', PushInv, [Next]_vars PROVE PushInv'
<1>1. TypeOK /\ \A u \in Users : slips[u] \subseteq slips'[u]
  BY SlipsGrow DEF BaseInv
<1>2. PICK d \in Devices : TRUE
  BY AccountsAssumption
<1>3. CASE UNCHANGED vars
  BY <1>3, QuietOutside DEF vars, redis
<1>4. ASSUME NEW u \in Users, NEW e \in Devices, RequestOtp(u) \/ Expire(u) \/ EndSession(u, e)
      PROVE  PushInv'
  BY <1>1, <1>4, QuietOutside DEF RequestOtp, Expire, EndSession, redis, TypeOK
<1>5. ASSUME NEW e \in Devices, Retire(e) PROVE PushInv'
  BY <1>5, QuietOutside DEF Retire, redis
<1>6. ASSUME NEW p \in Procs, NEW u \in Users, EditUser(p, u) PROVE PushInv'
  <2>1. users[u].fcmToken \in Devices \cup {None}
    BY <1>1, <1>6 DEF EditUser, TypeOK, Row
  <2>2. PICK t \in Devices \cup {None} : t = users[u].fcmToken
    BY <2>1
  <2>3. InFlight(Savers, u) => "crossed" \in slips'[u]
    BY <1>1, <1>6 DEF EditUser, Slip, TypeOK
  <2>q. QED BY <1>1, <1>6, <2>2, <2>3, SaveStarts DEF EditUser, redis, Savers
<1>7. ASSUME NEW p \in Procs, NEW u \in Users, NEW e \in Devices, UpdatePushToken(p, u, e)
      PROVE  PushInv'
  <2>1. /\ InFlight(Savers, u) => "crossed" \in slips'[u]
        /\ refresh[u] # e => "older" \in slips'[u]
    BY <1>1, <1>7 DEF UpdatePushToken, TypeOK
  <2>q. QED BY <1>1, <1>7, <2>1, SaveStarts DEF UpdatePushToken, redis, Savers
<1>8. ASSUME NEW p \in Procs, NEW u \in Users, NEW e \in Devices, VerifyOtp(p, u, e) \/ SendToUser(p, u)
      PROVE  PushInv'
  BY <1>8, QuietStarts
<1>9. ASSUME NEW p \in Procs, \/ DeleteOtp(p) \/ FindOrCreate(p) \/ GenerateTokenPair(p)
                              \/ SendToDevice(p) \/ Lose(p)
      PROVE  PushInv'
  BY <1>1, <1>9, QuietSteps
<1>10. ASSUME NEW p \in Procs, InsertUser(p) \/ ClearStaleToken(p) PROVE PushInv'
  BY <1>1, <1>10, QuietInsert, QuietClear
<1>11. ASSUME NEW p \in Procs,
              Select(p) \/ Update(p) \/ CacheFcmToken(p) \/ FindToken(p) \/ StoreToken(p)
       PROVE  PushInv'
  <2>1. PICK u, t : proc[p].u = u /\ proc[p].t = t
    OBVIOUS
  <2>q. QED BY <1>1, <1>11, <2>1, SelectPush, UpdatePush, CachePush, FindPush, StorePush
<1>12. ASSUME NEW p \in Procs, NEW u \in Users, SendToUser(p, u) PROVE PushInv'
  BY <1>2, <1>8, <1>12
<1>13. ASSUME NEW u \in Users, RequestOtp(u) \/ Expire(u) PROVE PushInv'
  BY <1>2, <1>4, <1>13
<1>14. ASSUME NEW u \in Users, NEW e \in Devices, NEW f \in Devices, Renew(u, e, f)
       PROVE  PushInv'
  <2>1. /\ UNCHANGED <<users, proc, slips, cache>> /\ alive' \subseteq alive
        /\ \A x \in Users : x \in settled' => x \in settled /\ refresh'[x] = refresh[x]
    BY <1>1, <1>14 DEF Renew, TypeOK
  <2>q. QED BY <2>1, QuietOutside
<1>q. QED
  BY <1>3, <1>4, <1>5, <1>6, <1>7, <1>8, <1>9, <1>10, <1>11, <1>12, <1>13, <1>14 DEF Next

LEMMA PushInvariant == Spec => []PushInv
<1>1. Init => PushInv
  <2> SUFFICES ASSUME Init, NEW u \in Users PROVE PushAt(u)
    BY DEF PushInv
  <2>1. /\ \A p \in Procs : proc[p].op \notin Savers /\ proc[p].op # "register" /\ proc[p].pc # "store"
        /\ cache[u] = None /\ settled = {} /\ None \notin alive
    BY IdleTyped, NoneAssumption DEF Init, Savers
  <2>q. QED BY <2>1 DEF PushAt, SaveAt, Saves, StoreAt, SettleAt, CacheAt, PushesAt
<1>q. QED BY <1>1, BaseInvariant, PushStep, PTL DEF Spec

\* A valid push token in Redis is the one of the users row, or a registration is
\* about to replace it: pushes that miss the cache, refused tokens, expiry and the
\* other saves of the row never leave another valid one there.
THEOREM CacheHolds == Spec => []CacheFollowsRow
<1>1. PushInv => CacheFollowsRow
  BY DEF PushInv, PushAt, CacheAt, Shows, Registering, CacheFollowsRow
<1>q. QED BY <1>1, PushInvariant, PTL

\* Once the device logged in last has registered its push token, the row of its
\* account keeps it: whatever is sent, refused, edited or expires meanwhile.
THEOREM PushesStay == Spec => []SessionHasThePushes
<1>1. BaseInv /\ PushInv => SessionHasThePushes
  <2> SUFFICES ASSUME BaseInv, PushInv, NEW u \in Users, NEW d \in alive,
                      Spared(u, {"fault", "older", "crossed"}), MayRefresh(u, d), u \in settled
               PROVE  users[u].fcmToken = d
    BY DEF SessionHasThePushes
  <2>1. Shows(u, d) /\ users[u] # None
    BY DEF PushInv, PushAt, PushesAt, MayRefresh
  <2>q. QED BY <2>1, ShowsToken DEF BaseInv
<1>q. QED BY <1>1, BaseInvariant, PushInvariant, PTL
=============================================================================
