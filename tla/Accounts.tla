------------------------------ MODULE Accounts ------------------------------
(***************************************************************************)
(* An account from its login to the pushes it receives: the users row of a *)
(* phone number, its one-time code and its refresh token in Redis          *)
(* (AuthService), and the push token of the device last logged in, kept in *)
(* the row and in Redis (AuthService, NotificationsService).  The app      *)
(* sends its push token after a login, whenever it starts and when it      *)
(* changes, as long as it has an access token, and those outlive the login *)
(* of another device by up to an hour.  Every service that saves a users   *)
(* row (UsersService, WalletsService) saves the push token it read with it *)
(* (module TypeOrm).  A device stands for its tokens: those of its session *)
(* and the one Firebase (FCM) gave it, which stops being valid some time.  *)
(***************************************************************************)
EXTENDS TypeOrm

CONSTANTS
  Users,         \* the accounts, one to a phone number (a unique column)
  Devices,
  Procs,         \* handlers in flight
  None,          \* no row, no device, nothing stored
  RedisMayFail,  \* TRUE when a Redis write may fail (RedisService swallows it)
  MayCrash       \* TRUE when a handler may be lost between two statements

ASSUME NoneAssumption == None \notin Devices /\ None \notin [fcmToken : Devices \cup {None}]
ASSUME AccountsAssumption == Users # {} /\ Devices # {}
ASSUME SwitchAssumption == RedisMayFail \in BOOLEAN /\ MayCrash \in BOOLEAN

Row == [fcmToken : Devices \cup {None}]
\* Mutant: the column is blank, not NULL.
NewRowBlank == [fcmToken |-> ""]

NewRow == [fcmToken |-> None]

VARIABLES
  users,     \* the users table
  otp,       \* Redis otp:<phone>: the accounts whose last code is stored
  refresh,   \* Redis refresh:<user>: the device whose refresh token is accepted
  cache,     \* Redis user:fcm:<user>
  alive,     \* the devices whose push token Firebase accepts
  sessions,  \* the devices that have a valid access token, or can get one with
             \* their refresh token, of each account
  settled,   \* history: the accounts whose last session registered its push token
  used,      \* history: the accounts whose stored code a verification has accepted
  rejected,  \* history: push tokens cleared after Firebase refused them
  slips,     \* history: the races and failures each account has met
  proc

redis == <<otp, refresh, cache>>
vars == <<users, redis, alive, sessions, settled, used, rejected, slips, proc>>

Slips == {"fault",     \* a write to Redis failed, or a handler was lost
          "older",     \* the app of an older session registered its push token
          "crossed",   \* two saves of the row overlapped
          "late",      \* a token read before a registration was stored after it
          "revived"}   \* a token was cleared while a save held it

Savers == {"register", "edit"}
Idle == [op |-> "none", pc |-> "idle", u |-> CHOOSE u \in Users : TRUE, t |-> None,
         dirty |-> {}]
Proc == [op : Savers \cup {"send", "verify", "none"},
         pc : {"idle", "delete", "find", "insert", "session", "select", "update",
               "cache", "store", "push", "clear"},
         u : Users,
         t : Devices \cup {None},   \* the device logging in, or the token held
         dirty : SUBSET {"fcmToken"}]

At(p, op, pc) == proc[p].op = op /\ proc[p].pc = pc
Goto(p, pc) == proc' = [proc EXCEPT ![p].pc = pc]
Done(p) == proc' = [proc EXCEPT ![p] = Idle]
Start(p, op, pc, u, t) ==
  /\ proc[p] = Idle
  /\ proc' = [proc EXCEPT ![p] = [op |-> op, pc |-> pc, u |-> u, t |-> t, dirty |-> {}]]

InFlight(ops, u) == \E q \in Procs : proc[q].op \in ops /\ proc[q].u = u
Slip(u, what, happens) ==
  slips' = IF happens THEN [slips EXCEPT ![u] = @ \cup {what}] ELSE slips

-----------------------------------------------------------------------------
(***************************************************************************)
(* Login.                                                                  *)
(***************************************************************************)
Deleting(u) == \E q \in Procs : At(q, "verify", "delete") /\ proc[q].u = u

\* requestOtp: a new code replaces the stored one.
RequestOtp(u) ==
  /\ otp' = otp \cup {u}
  /\ used' = used \ {u}
  /\ UNCHANGED <<users, refresh, cache, alive, sessions, settled, rejected, slips, proc>>

\* verifyOtp, getOtp: the code entered is the one stored.  (With another nothing
\* changes.)  A device logs in once at a time.
VerifyOtp(p, u, d) ==
  /\ u \in otp
  /\ \A q \in Procs : proc[q].op = "verify" => proc[q].t # d
  /\ Start(p, "verify", "delete", u, d)
  /\ used' = used \cup {u}
  /\ UNCHANGED <<users, redis, alive, sessions, settled, rejected, slips>>

\* Mutant: the code is not deleted.
DeleteOtpNever(p) ==
  /\ At(p, "verify", "delete")
  /\ Goto(p, "find")
  /\ UNCHANGED <<users, redis, alive, sessions, settled, used, rejected, slips>>

\* The code stored by now, whichever that is.
DeleteOtp(p) ==
  LET u == proc[p].u IN
  /\ At(p, "verify", "delete")
  /\ \/ otp' = otp \ {u} /\ used' = used \ {u} /\ UNCHANGED slips
     \/ RedisMayFail /\ Slip(u, "fault", TRUE) /\ UNCHANGED <<otp, used>>
  /\ Goto(p, "find")
  /\ UNCHANGED <<users, refresh, cache, alive, sessions, settled, rejected>>

FindOrCreate(p) ==
  /\ At(p, "verify", "find")
  /\ Goto(p, IF users[proc[p].u] = None THEN "insert" ELSE "session")
  /\ UNCHANGED <<users, redis, alive, sessions, settled, used, rejected, slips>>

\* The first login.  The unique phone number makes the second of two inserts throw.
InsertUser(p) ==
  LET u == proc[p].u IN
  /\ At(p, "verify", "insert")
  /\ IF users[u] = None
       THEN users' = [users EXCEPT ![u] = NewRow] /\ Goto(p, "session")
       ELSE Done(p) /\ UNCHANGED users
  /\ UNCHANGED <<redis, alive, sessions, settled, used, rejected, slips>>

\* The app keeps the tokens of one account.
GenerateTokenPair(p) ==
  LET u == proc[p].u
      d == proc[p].t IN
  /\ At(p, "verify", "session")
  /\ \/ refresh' = [refresh EXCEPT ![u] = d] /\ UNCHANGED slips
     \/ RedisMayFail /\ Slip(u, "fault", TRUE) /\ UNCHANGED refresh
  /\ sessions' = [x \in Users |-> IF x = u THEN sessions[x] \cup {d} ELSE sessions[x] \ {d}]
  /\ settled' = settled \ {u}
  /\ Done(p)
  /\ UNCHANGED <<users, otp, cache, alive, used, rejected>>

\* refreshAccessToken accepts the refresh token of one device and stores nothing:
\* that device's session goes on, the others have what is left of an hour.
MayRefresh(u, d) == refresh[u] = d /\ users[u] # None
EndSession(u, d) ==
  /\ d \in sessions[u] /\ ~ MayRefresh(u, d)
  /\ sessions' = [sessions EXCEPT ![u] = @ \ {d}]
  /\ UNCHANGED <<users, redis, alive, settled, used, rejected, slips, proc>>

-----------------------------------------------------------------------------
(***************************************************************************)
(* Saves of the users row.                                                 *)
(***************************************************************************)
\* updatePushToken, findOne.
UpdatePushToken(p, u, d) ==
  /\ d \in sessions[u] /\ d \in alive
  /\ Start(p, "register", "select", u, d)
  /\ slips' = [slips EXCEPT ![u] = @ \cup (IF InFlight(Savers, u) THEN {"crossed"} ELSE {})
                                    \cup (IF refresh[u] # d THEN {"older"} ELSE {})]
  /\ UNCHANGED <<users, redis, alive, sessions, settled, used, rejected>>

\* The profile, approval, verification and balance are saved with the token read.
EditUser(p, u) ==
  /\ users[u] # None
  /\ Start(p, "edit", "select", u, users[u].fcmToken)
  /\ Slip(u, "crossed", InFlight(Savers, u))
  /\ UNCHANGED <<users, redis, alive, sessions, settled, used, rejected>>

Entity(pr) == [fcmToken |-> pr.t]

Select(p) ==
  /\ proc[p].pc = "select"
  /\ proc' = [proc EXCEPT ![p].pc = "update",
                ![p].dirty = Changed(users[proc[p].u], Entity(proc[p]))]
  /\ UNCHANGED <<users, redis, alive, sessions, settled, used, rejected, slips>>

\* Mutant: Redis is not told.
UpdateUncached(p) ==
  /\ proc[p].pc = "update"
  /\ users' = [users EXCEPT ![proc[p].u] = Updated(@, Entity(proc[p]), proc[p].dirty)]
  /\ Done(p)
  /\ UNCHANGED <<redis, alive, sessions, settled, used, rejected, slips>>

Update(p) ==
  LET u == proc[p].u IN
  /\ proc[p].pc = "update"
  /\ users' = [users EXCEPT ![u] = Updated(@, Entity(proc[p]), proc[p].dirty)]
  /\ IF proc[p].op = "register"
       THEN /\ Goto(p, "cache")
            /\ settled' = IF refresh[u] = proc[p].t THEN settled \cup {u} ELSE settled
       ELSE Done(p) /\ UNCHANGED settled
  /\ UNCHANGED <<redis, alive, sessions, used, rejected, slips>>

Overtakes(p) == \E q \in Procs : /\ proc[q].pc = "store" /\ proc[q].u = proc[p].u
                                 /\ proc[q].t # proc[p].t
CacheFcmToken(p) ==
  LET u == proc[p].u IN
  /\ At(p, "register", "cache")
  /\ \/ cache' = [cache EXCEPT ![u] = proc[p].t] /\ Slip(u, "late", Overtakes(p))
     \/ RedisMayFail /\ Slip(u, "fault", TRUE) /\ UNCHANGED cache
  /\ Done(p)
  /\ UNCHANGED <<users, otp, refresh, alive, sessions, settled, used, rejected>>

-----------------------------------------------------------------------------
(***************************************************************************)
(* Pushes: sendToUser, and testPushToUser, which does not clear a token    *)
(* that Firebase refuses.                                                  *)
(***************************************************************************)
SendToUser(p, u) ==
  /\ \/ cache[u] # None /\ Start(p, "send", "push", u, cache[u])
     \/ (cache[u] = None \/ RedisMayFail) /\ Start(p, "send", "find", u, None)
  /\ UNCHANGED <<users, redis, alive, sessions, settled, used, rejected, slips>>

FindToken(p) ==
  LET row == users[proc[p].u] IN
  /\ At(p, "send", "find")
  /\ IF row = None \/ row = NewRow
       THEN Done(p)
       ELSE proc' = [proc EXCEPT ![p].pc = "store", ![p].t = row.fcmToken]
  /\ UNCHANGED <<users, redis, alive, sessions, settled, used, rejected, slips>>

StoreToken(p) ==
  /\ proc[p].pc = "store"
  /\ \/ cache' = [cache EXCEPT ![proc[p].u] = proc[p].t]
     \/ RedisMayFail /\ UNCHANGED cache
  /\ Goto(p, "push")
  /\ UNCHANGED <<users, otp, refresh, alive, sessions, settled, used, rejected, slips>>

\* Delivered, refused for the token, or failed for another reason.  testPushToUser
\* is done either way.
SendToDevice(p) ==
  /\ proc[p].pc = "push"
  /\ \/ Done(p)
     \/ proc[p].t \notin alive /\ Goto(p, "clear")
  /\ UNCHANGED <<users, redis, alive, sessions, settled, used, rejected, slips>>

Holding(t, u) == \E q \in Procs : proc[q].op \in Savers /\ proc[q].u = u /\ proc[q].t = t

\* Mutant: the token of the account addressed is cleared, whatever it is by now.
ClearTokenOfUser(p) ==
  /\ proc[p].pc = "clear"
  /\ users' = [users EXCEPT ![proc[p].u] = NewRow]
  /\ Done(p)
  /\ UNCHANGED <<redis, alive, sessions, settled, used, rejected, slips>>

\* Mutant: the token is cleared from Redis and kept in the table.
ClearTokenInRedis(p) ==
  /\ proc[p].pc = "clear"
  /\ cache' = [cache EXCEPT ![proc[p].u] = None]
  /\ rejected' = rejected \cup {proc[p].t}
  /\ Done(p)
  /\ UNCHANGED <<users, otp, refresh, alive, sessions, settled, used, slips>>

\* UPDATE users SET fcmToken = NULL WHERE fcmToken = token.  Redis keeps it.
ClearStaleToken(p) ==
  LET t == proc[p].t IN
  /\ proc[p].pc = "clear"
  /\ users' = [u \in Users |-> IF users[u] = Entity(proc[p]) THEN NewRow ELSE users[u]]
  /\ rejected' = rejected \cup {t}
  /\ slips' = [u \in Users |-> IF Holding(t, u) THEN slips[u] \cup {"revived"} ELSE slips[u]]
  /\ Done(p)
  /\ UNCHANGED <<redis, alive, sessions, settled, used>>

-----------------------------------------------------------------------------
\* The code lives 5 minutes, the cached push token 7 days, the refresh token 30 days.
Expire(u) ==
  /\ \/ otp' = otp \ {u} /\ used' = used \ {u} /\ UNCHANGED <<refresh, cache>>
     \/ cache' = [cache EXCEPT ![u] = None] /\ UNCHANGED <<otp, used, refresh>>
     \/ refresh' = [refresh EXCEPT ![u] = None] /\ UNCHANGED <<otp, used, cache>>
  /\ UNCHANGED <<users, alive, sessions, settled, rejected, slips, proc>>

Fresh(e) == /\ e \in alive
            /\ \A u \in Users : /\ e \notin sessions[u] \cup {refresh[u], cache[u]}
                               /\ users[u] # [fcmToken |-> e]
            /\ \A p \in Procs : proc[p].t # e

\* onTokenRefresh: Firebase replaces the push token of a device.  Its session goes on,
\* under the name of a device not seen yet, and UpdatePushToken follows if it may.
Renew(u, d, e) ==
  /\ d \in sessions[u] /\ Fresh(e)
  /\ \A p \in Procs : ~ (proc[p].op = "verify" /\ proc[p].t = d)
  /\ alive' = alive \ {d}
  /\ sessions' = [sessions EXCEPT ![u] = (@ \ {d}) \cup {e}]
  /\ IF refresh[u] = d
       THEN refresh' = [refresh EXCEPT ![u] = e] /\ settled' = settled \ {u}
       ELSE UNCHANGED <<refresh, settled>>
  /\ UNCHANGED <<users, otp, cache, used, rejected, slips, proc>>

\* The app is uninstalled: its token is not replaced.
Retire(d) ==
  /\ alive' = alive \ {d}
  /\ UNCHANGED <<users, redis, sessions, settled, used, rejected, slips, proc>>

Lose(p) ==
  /\ MayCrash /\ proc[p] # Idle
  /\ Slip(proc[p].u, "fault", TRUE)
  /\ Done(p)
  /\ UNCHANGED <<users, redis, alive, sessions, settled, used, rejected>>

Init ==
  /\ users = [u \in Users |-> None]
  /\ otp = {} /\ used = {}
  /\ refresh = [u \in Users |-> None] /\ cache = [u \in Users |-> None]
  /\ alive = Devices /\ sessions = [u \in Users |-> {}] /\ settled = {} /\ rejected = {}
  /\ slips = [u \in Users |-> {}]
  /\ proc = [p \in Procs |-> Idle]

Next ==
  \/ \E p \in Procs :
       \/ \E u \in Users : \/ EditUser(p, u)
                           \/ SendToUser(p, u)
                           \/ \E d \in Devices : VerifyOtp(p, u, d) \/ UpdatePushToken(p, u, d)
       \/ DeleteOtp(p) \/ FindOrCreate(p) \/ InsertUser(p) \/ GenerateTokenPair(p)
       \/ Select(p) \/ Update(p) \/ CacheFcmToken(p)
       \/ FindToken(p) \/ StoreToken(p) \/ SendToDevice(p) \/ ClearStaleToken(p)
       \/ Lose(p)
  \/ \E u \in Users : \/ RequestOtp(u) \/ Expire(u)
                      \/ \E d \in Devices : EndSession(u, d) \/ \E e \in Devices : Renew(u, d, e)
  \/ \E d \in Devices : Retire(d)

Spec == Init /\ [][Next]_vars

-----------------------------------------------------------------------------
TypeOK ==
  /\ users \in [Users -> Row \cup {None}]
  /\ otp \subseteq Users /\ used \subseteq Users
  /\ refresh \in [Users -> Devices \cup {None}] /\ cache \in [Users -> Devices \cup {None}]
  /\ alive \subseteq Devices /\ rejected \subseteq Devices
  /\ sessions \in [Users -> SUBSET Devices] /\ settled \subseteq Users
  /\ slips \in [Users -> SUBSET Slips]
  /\ proc \in [Procs -> Proc]

Spared(u, causes) == slips[u] \cap causes = {}

\* A code that a verification has accepted is stored only as long as a verification
\* is about to delete it (auth.service.ts, verifyOtp): it is accepted again only by
\* requests that overlap, never by one that comes later.  (Unless Redis refuses the
\* deletion or the handler is lost before it: the code is then good until it expires.)
SpentCodesAreLeaving ==
  \A u \in Users : Spared(u, {"fault"}) /\ u \in used => Deleting(u)

\* "The backend always has the current token" (main_wrapper.dart): once the device
\* logged in last has registered, the pushes go to it, however pushes, refused
\* tokens and expiry run in between: clearing an old token never takes the new one.
\* (Not when the saves of the row overlap, nor when the app of an older session,
\* whose access token is still valid, starts again.)
SessionHasThePushes ==
  \A u \in Users, d \in alive :
    Spared(u, {"fault", "older", "crossed"}) /\ MayRefresh(u, d) /\ u \in settled
      => users[u].fcmToken = d

\* A valid token in Redis is the one in the row, or a registration is about to
\* replace it, unless a push that missed the cache stored its token too late.
CacheFollowsRow ==
  \A u \in Users :
    Spared(u, {"fault", "crossed", "late"}) /\ cache[u] \in alive =>
      \/ users[u] = [fcmToken |-> cache[u]]
      \/ \E p \in Procs : At(p, "register", "cache") /\ proc[p].u = u

\* "Token no longer valid - clean it up" (notifications.service.ts): a token cleared
\* from the table returns only with a save that had read it before.
RejectedStaysOut ==
  \A u \in Users : users[u] # None /\ users[u].fcmToken \in rejected => "revived" \in slips[u]

-----------------------------------------------------------------------------
(***************************************************************************)
(* What a comment says and the code does not do.                           *)
(***************************************************************************)
\* "Delete OTP after single use - prevents replay attacks" (auth.service.ts:58): a
\* code that was accepted is not accepted again.
CodesAreSingleUse ==
  [][\A p \in Procs, u \in Users, d \in Devices : VerifyOtp(p, u, d) => u \notin used]_vars

\* The same comment: what is deleted is the code that was used, and not one sent
\* since, which its user is about to enter.
UsedCodeIsDeleted ==
  [][\A p \in Procs : DeleteOtp(p) /\ proc[p].u \in otp \ otp' => proc[p].u \in used]_vars
=============================================================================
