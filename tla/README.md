# A TLA+ verification of the Gixbee backend

Gixbee lets customers book workers, rent items and hire talent. This directory
models the state-changing core of its NestJS backend (`backend/src`), checks the
models with TLC and proves their main invariants with TLAPS. Paths below are
relative to the repository (`src/...` in `PROJECT.json`).

## 1. The system

One Node process serves REST and WebSocket requests and runs the Bull jobs. Its
state is in PostgreSQL (through TypeORM), in Redis and in the Bull queues (Redis,
too). A handler is an `async` method: between any two awaits other handlers run.
Updates of rows (but for the requests `acceptBooking` cancels and the tokens
`clearStaleToken` clears) go through `repository.save(entity)`:
TypeORM *reads the row again*, compares it with the entity the handler holds
and updates every column that differs. A column read long ago overwrites a newer
value. Only `acceptBooking` uses a transaction and a row lock.

| component | state | operations | talks to |
|---|---|---|---|
| bookings service, controller (`bookings/`) | row: status, gpsStrikes, startedAt, isPaid, rating, OTPs | create, accept, reject, updateStatus, verifyArrivalOtp, verifyCompletionOtp, markPaid, refreshCompletionOtp, submitRating, addGpsStrike, findPendingForWorker, poll | queue, redis, wallets, workers, notifications |
| booking jobs (`bookings.processor.ts`) | Bull jobs `requestTimeout`, `tenMinuteGpsCheck`, `sevenMinuteReminder` | one handler each | bookings, notifications |
| redis service | `booking:status`, `worker:pending`, `worker:status`, `worker:location`, `worker:snapshot`, skill index, OTPs | get, set, expire; failures are logged and swallowed | everyone |
| wallets | `users.walletBalance`, ledger `wallet_transactions` | deductBookingFee, addFunds | called by bookings, workers |
| users | the same `users` row | profile, token, approval and verification edits | |
| workers | `worker_profiles` row, Redis keys | toggleGoLive, updateHourlyRate, createProfile, getNearby, getWorkerStatus | wallets, redis |
| worker gateway (WebSocket) | `worker:location` | updateLocation, whoever sends it; rooms | redis |
| rentals | items, reservations | requestReservation, confirmReservation | |
| hiring, talent | applications; `talent_profiles` row | applyForJob, updateApplicationStatus, recordNoShow, profile edits | |
| auth | `otp:<phone>`, `refresh:<user>`, first insert of a `users` row | requestOtp, verifyOtp, refreshAccessToken, updatePushToken | redis, users |
| notifications | push token in `users` and in `user:fcm:<user>` | sendToUser (cache, else row, then fill the cache), clearStaleToken | FCM |
| master entries | table, one list per filter in Redis for an hour | findAll, create, update, remove; each write deletes the lists KEYS returns | redis |
| businesses, uploads, Flutter app, admin web, deployment | | no interaction of their own, I/O or user interface | REST |

The Flutter app matters in two ways: which request a screen offers in which
state (screens show old data, so a request arrives for a state that is gone), and
when it registers its push token (after a login, at every start, when it changes).

### What is hard, and what would make it correct

* **Bookings.** Handlers, jobs and `acceptBooking` meet on one row. Right would
  be: an answer is final, a fee is asked once, a request never returns, every
  request ends, no lock remains, the list and the cache follow the table.
* **Wallets.** Two read-modify-write handlers on one balance. Right would be: no
  overdraft, no money from nothing, a ledger that agrees.
* **Worker profiles.** Daily limits are counters in the row, and three services save
  the same row.
* **Worker search.** Index, location, snapshot and status are four more copies of what
  the profile and the bookings say, written key by key after the table and refilled by
  readers. Right would be: whoever is found is live, whoever is live is found, the status
  agrees with the bookings; and where not, a race or a failure that can be named.
* **Accounts.** A code is verified in several statements, a push token is in the row, in
  Redis and in the hands of handlers, and an older session keeps its access token for up to
  an hour. Right would be: a code is spent once (it is not, section 3), the
  last device to log in gets the pushes, a refused token does not return.
* **Master entries.** Cache-aside with nothing between write and clearing; `save` inserts
  a row that was removed. Right would be: a list is current, or will be.
* **Rentals, hiring.** Check-then-insert without lock or constraint.
* **Redis.** Every write may fail unnoticed; keys expire; a reader refills them.
* **Restarts.** Handlers vanish between two statements; Bull runs a stalled job again.

`PROJECT.json` lists each hazard at its line, with the properties that would
catch it.

## 2. Modules

| module | models | checked by | proved in |
|---|---|---|---|
| `TypeOrm` | `repository.save`: SELECT and compare, then UPDATE | (used by every module that saves a row) | |
| `Bookings` | booking rows, row lock, handlers, jobs, status cache, pending list, worker status | `MCBookings` | `BookingsProofs` |
| `Offer` | abstract: what the backend promises of a booking, asked and answered once, charged once and only for having been taken; `Bookings` implements it | `MCBookings` | `BookingsProofs` |
| `Wallet` | balances, ledger and every other save of a `users` row | `MCWallet` | `WalletProofs` |
| `WorkerProfile` | the profile row, daily limits, first-job bonus, rating | `MCWorkerProfile` | `WorkerProfileProofs` |
| `WorkerSearch` | the Redis copies of a worker against the profile's saves, the bookings, the socket, expiry and two readers | `MCWorkerSearch` | `WorkerSearchProofs` |
| `Accounts` | login, refresh token, push token in row and Redis, pushes and refused tokens | `MCAccounts` | `AccountsProofs` |
| `MasterEntries` | the table, its cached lists and their clearing | `MCMasterEntries` | `MasterEntriesProofs` |
| `Rentals` | reservations and the overlap test | `MCRentals` | `RentalsProofs` |
| `Hiring` | applications, no-shows, the talent profile | `MCHiring` | `HiringProofs` |

### Correspondence

A **process** (`Procs`) is a handler in flight: `op` says which, `pc` where its
next await returns, `base` is the entity it read. Each action is the code between
two awaits. `Request` is the arrival of a client's request and `StartJob` Bull's
dispatch (one job per named processor at a time). The actions named like methods
(`RejectBooking`, `VerifyArrivalOtp`, ...) are their `findOne` and status check;
`Entity` says what the handler then sets, `Select` and `Update` are the two halves of
`save`, and `Script` lists the side effects that follow, in the order of the code, each
an action of its own. `sevenMinuteReminder` only notifies and is left out.

* `AcceptLock` is `acceptBooking`'s locked read with the query for the worker's
  other requests: while the lock is held nobody changes the row, so the two statements
  are one step. `AcceptCommit` updates the others by id (waiting for their locks)
  and commits. `AcceptAbort` is PostgreSQL breaking a deadlock.
* The refinement mapping (`Offered` in `Bookings`) takes a row's status to its phase
  (no row: none; REQUESTED: asked; anything else: answered), the handlers that have
  committed an acceptance and not yet called the wallet to `owed`, and `fees` to `charged`.
  `CreateInsert` is `Ask`, `AcceptCommit` with its siblings `Take`, an `Update` that
  writes a status over REQUESTED `Close`, `DeductBookingFee` `Charge`, a restart `Forget`.
* `updateStatus` is unguarded. The app calls it to cancel (waiting screen, which
  believes the polled status), to decline (`booking_detail_screen.dart:164`, which
  shows whatever booking it was opened with) and from the timeout job. `PATCH
  :id/confirm` and the other statuses are sent by no client and are not modelled.
* `jobs` is a set: a job is there from `add` until it ends. A Redis failure
  makes `add` throw.
* `ExpirePending` respects that the list outlives the 90-second timeout; any other
  delay is arbitrary, and `ExpireStatus` may happen at any time.
* `ByWallet` holds the bookings paid by wallet, which completion marks paid;
  `markPaid` is offered for the others.
* `toggleGoLive` is `ToggleGoLive` (the read and the new day), `CheckBalance` where the balance is
  asked, and `LimitToggle`, the comparison with the limit. `NextDay` may come between any two
  steps: a handler keeps the date it took when it read the row, and `changes` counts the saves
  that carry today's date.
* `WorkerProfile` and `WorkerSearch` share the profile row. The first has what decides
  whether a toggle is refused and what the counters become; the second abstracts a save to
  `isActive` and follows the Redis keys, one action per command. `addStrike` has no caller.
* In `WorkerSearch` a worker's `jobs` are places taken by accepted bookings, of which only
  being there matters: `AcceptBooking` is the commit of `acceptBooking`, `FindBooking` the
  read of a handler that will end the booking (`EndBooking`: completion, forfeit) or save it
  as it was (`RenewBooking`: arrival, refresh, a strike; over an ended one it brings it back),
  `CancelBooking` the unguarded `updateStatus`. `workers:geo` is left out (written, never
  read), as is the warm-up from `lastLat`, which nothing assigns; the distance is a choice of
  `GetLocation`.
* In `Accounts` a device stands for its tokens, those of its session and the one Firebase
  gave it; two refresh tokens of one device are not told apart. `sessions` holds
  the devices whose access token is valid; `EndSession` takes out one that cannot refresh. A
  failing `saveOtp` changes nothing and is no action of its own. `Renew` is Firebase's rotation of a
  push token: the session goes on under the name of a device not seen yet, whose token
  `UpdatePushToken` registers, as `onTokenRefresh` does, or does not, as when that request fails.
  `sendToUsers` has no caller,
  `PATCH users/:id/fcm-token` and `POST notifications/test` no client.
* In `MasterEntries`, `save` of an update is `Select`, then `SaveRow` or, the row being gone,
  `InsertRow`; `clearCache` is `GetKeys` and `DelKeys`; `findAll` is `Find`, `Query`, `Store`.
* **Slips.** `Accounts` and `WorkerSearch` keep, for each account or worker, the set of
  races and failures it has met (`slips`; `gap` and `revived` in `MasterEntries`). A property
  names the few that excuse it and says nothing of the others: what is shown is that only
  those races, of all those the model has, can break it. `Slips` in each module
  says what each one is.
* In `Wallet`, `granted` is a history variable: what was ever put into each wallet.
* In `Accounts`, `used` is one, too: whose stored code a verification has accepted. A new code
  takes the account out, and so does the deletion of the code.
* In `Hiring`, `updateApplicationStatus` is its `findOne` (`UpdateApplicationStatus`), its save
  (`SaveApplication`) and `RecordNoShow`. `updateProfile` would assign every column its body
  names; the app sends `jobAlertsEnabled` only (`toggleAlerts`), which is what `GetProfile` assigns.
* In `Rentals`, `seen` is one: what was confirmed when a confirmation began. Only PENDING
  and CONFIRMED are ever stored.

## 3. Runs

Passing runs (with two TLC workers, each under four minutes):

| run | question | distinct states |
|---|---|---|
| `answering` | two requests to one worker, created, listed, polled, accepted, rejected, declined, timed out: do the handlers implement `Offer`, and do the lock and the order of table, cache and list hold? | 2.5 M |
| `lifecycle` | one wallet-paid booking to its end, with GPS strikes; any Redis write may fail and the backend restarts once | 4.3 M |
| `saves` | all handlers and jobs of one booking save each other's old entities: do they implement `Offer`? | 6.8 M |
| `liveness` | every request is decided, every lock released | 91 k |
| `wallet` | two wallet or profile handlers, either of which may be lost | 65 k |
| `worker_profile` | toggle, rate, completion, rating on one profile over two days | 9.5 M |
| `worker_search` | toggle, bookings, socket, expiry and two readers on one worker's keys: which races may a search or the status answer wrongly after? | 6.0 M |
| `accounts` | logins, registrations, token rotation, edits, pushes and refused tokens of one account with two devices | 7.7 M |
| `master_entries` | writes and finds against the cached lists; does every list settle? | 0.9 M |
| `rentals` | three reservations of two items, two handlers | 64 k |
| `hiring` | three applications and their no-shows against profile edits | 2.8 M |

**What a property excuses.** Where a race or a failure does break what one would like to say, the
property names it and says that nothing else does. Read them so:

* `JobsAreCharged`: a restart may lose the handler that was to ask the fee; `Offer` has the same
  as its step `Forget`.
* `AnswersAreStored`: no answer is announced that nobody gave; a poll may store an older status,
  REQUESTED included, over a newer one.
* `WaitingRequestIsShown`: once no handler is at work on the list; an answered request may stay on it.
* `LedgerNeverAhead`: a saved movement may lack its record, never the other way.
* `FlagFollowsBonus`: the flag is not set early; an older row may take it back.
* `SerialLimit`: until two handlers have met (`overlap`), over midnight included.
* `IndexFollowsProfile`, `AnswersAreLive`, `StatusFollowsJobs`: but for the `slips` they name (failed
  commands, crossed toggles, the expiry of the index, a late store, overlapping bookings).
* `SpentCodesAreLeaving`: an accepted code can be accepted again by a request that overlaps its
  verification, by none that comes later.
* `SessionHasThePushes`, `CacheFollowsRow`, `RejectedStaysOut`: but for crossing saves, the app of an older
  session, a late store, a save that read the refused token.
* `ListsFollowTable`, `RemovedStaysOut`: but for a find that overtook the clearing, a failed command, an
  update that read the entry before; `ListsSettle` has no excuse but that writing stops.
* `LateConfirmationRefused`: confirmations that began after the other was stored.
* `DuplicatesNeedRaces`: as many duplicates as handlers can be in flight.
* `RankFollowsCount`, `NoShowsAreReported`: until the rank is used up; a no-show may be lost, none is made up.

**Bounds.** Two handlers in flight are enough for every lost update, stale
save and deadlock the code can have pairwise. Two bookings of one worker are what the
sibling logic of `acceptBooking` needs: all its effects are between bookings of the same
worker, so more workers only multiply independent copies. `MaxStrikes = 3` is the
code's constant; `lifecycle` and `saves` take 2, for a strike that forfeits and one that
does not. The customer's cancel is the decline with another status, so `answering` has the
decline for both and `saves` has each. One restart shows every state a crash can leave; further ones
only repeat it (the strike bound is stated for any number). In `Rentals` three hours give
spans that are disjoint, touch, overlap and contain each other, and two items spans that never conflict.
`hiring` scales the rank of 100 and the penalty of 10 to 3 and 1 and
lets four no-shows be reported, so that a rank is used up and starts again. `worker_profile` takes a daily
limit of 1 for the code's 2, the comparison being the same, and two days for the reset.
`worker_search` has one worker, since no key but the index is shared and the index only by
expiring whole, and two places for bookings, for one to be accepted while another ends;
`accounts` one account and two devices, the older session and the newer (nothing but a
device connects accounts: `GenerateTokenPair` takes its session from the others, and
the proofs hold for any number, devices that change accounts included);
`master_entries` one id, two types and two filters, everything and the active roles, for
an update that leaves or enters a list. In all three any Redis command may fail and any
handler be lost, at any time. What the bounds leave open is closed by the proofs
where there are any. `CHECK_DEADLOCK FALSE` is set where the bounded set of
bookings, reservations or calls is used up and the system really has nothing left to do.

**Fairness** (`liveness` and `master_entries`). In `liveness`, `WF` of each handler's step: the event loop runs
every continuation. `SF` of `Update`: PostgreSQL queues for a row lock, so a statement
that finds the row free again and again gets its turn. `SF` of `RunJob`: Bull
has a slot per processor that client requests cannot take, whereas the model's `Procs`
are shared. Clients, expiry and restarts have none. Restarts and Redis failures are
excluded there: a crash between `save` and `bookingsQueue.add` leaves a request that
nothing ends, and the code promises nothing about it. In `master_entries`, `WF` of a handler's
continuations (a lost or failed one counts as having run) and of `Expire`, because every list
is set with a time to live. `ListsSettle` assumes that writing stops, which no fairness implies.

### Findings

Statements of the code's own comments and docs that the code does not keep. Each is a
definition at the end of its module, and TLC shows the interleaving with the configuration named; the first
is the `violation` run of `PROJECT.json`.

| configuration | statement | what happens |
|---|---|---|
| `MCBookingsTimeout` | `TimeoutSparesAccepted`: cancel only if still REQUESTED (`bookings.processor.ts:115`) | accepted between the check and `updateStatus`, cancelled after the fee was taken |
| `MCBookingsStart` | `DoneWasStarted`: `verifyArrivalOtp` "records startedAt" (`docs/BUSINESS_LOGIC_AND_ISSUES.md:327`) | a decline read before the arrival is saved during the completion: COMPLETED without the start it was billed from. Reject, cancel, timeout and the GPS strike do it, too |
| `MCAccountsTwice` | `CodesAreSingleUse`: "Delete OTP after single use - prevents replay attacks" (`auth.service.ts:58`) | two verifications read the code (line 52) before either deletes it (line 59): both are accepted |
| `MCAccountsNewer` | `UsedCodeIsDeleted`: the same comment | a code requested after the accepted one was read is deleted, unused |
| `MCWalletAtomic` | `DeductionIsAtomic`: "Atomic wallet deduction with SELECT FOR UPDATE" (`docs/AGENT_TASK_LIST.md:1337`) | both deductions save the balance they read (`wallets.service.ts:23`): two fees recorded, one paid |
| `MCWorkerProfileDaily` | `DailyLimit`: "Rate limited to 2/day" (`workers.service.ts:190`) | toggles in flight count as one (line 226): three succeed |
| `MCRentalsRace` | `ConfirmedDoNotOverlap`: "ensure no race conditions occurred" (`rentals.service.ts:90`) | both confirmations validate before either saves (line 107) |
| `MCHiringTwice` | `AppliedOnce`: "Prevent double applying" (`hiring.service.ts:80`) | both requests look before either inserts |

Other places where the models reach a state that a comment or doc excludes:

* One active job per worker (`bookings.service.ts:138`): the guard at line 61 looks for
  ACTIVE and ARRIVED, not ACCEPTED.
* "Clean it up so we don't retry with it" (`notifications.service.ts:140`): the row is
  cleared, Redis keeps the token for up to seven days, and each push tries it again.
* "The backend always has the current token" (`main_wrapper.dart:71`): the app of an older session,
  when it starts, takes the pushes back; a save that read the row before brings a
  refused token back.
* A snapshot is filled with the status of the moment and says 'available' of a worker who
  became busy; the skill index expires after a day while `isActive` stays, and nothing puts
  the worker back (`IndexFollowsProfile` states both exceptions as they are).
* `save` of an update inserts an entry that was removed meanwhile (`RemovedStaysOut`).
* `verifyArrivalOtp` checks no status (`docs/BUSINESS_LOGIC_ISSUES.md:179`: ACCEPTED to
  ACTIVE): a booking cancelled while the worker types the OTP becomes ACTIVE.
* A poll's cache miss can write the status it read over the one a transition announced
  meanwhile (`redis.service.ts:148`); it stays for up to a day.
* A save of an older entity takes a GPS strike back (`docs/AGENT_TASK_LIST.md:1339`) or,
  from `submitRating`, the payment (`collect_payment_screen.dart:71`).
* The Redis writes of two toggles can cross and leave an offline worker in the skill index
  (`redis.service.ts:363`): the slip `crossed` of `WorkerSearch`.
* Two completions, or one after a stale save reset the flag, grant the first-job bonus
  twice (`docs/BUSINESS_LOGIC_AND_ISSUES.md:203`).
* A rank of 0 is falsy, so the next no-show makes it 90 (`talent.service.ts:82`, `:89`). From
  then on a rank stands for two counts: a late save of an older profile may differ in the count alone, so that only this column
  is written back, and rank and count no longer fit. `RankFollowsCount` therefore ends where the
  reported no-shows use up the rank.

## 4. Proofs

TLC agreed with each invariant first; TLAPS proves them for every value of the
constants, under the `ASSUME`s of the modules (typing of the constants; `MaxStrikes` and the
bounds are naturals; `None` is outside the sets it is mixed with; there are users, workers,
applications and, in `WorkerSearch`, handlers; those of `Hiring` are finitely many), which TLC evaluates in the runs.
Every invariant, action property and refinement of the passing runs has a theorem. One
(`RequestsAreShown`) assumes more and says so in its statement: that Redis and backend do not
fail, as in the run of its property.

**`BookingsProofs`** (`TypeCorrect`, `LockHolds`, `FeeAskedOnce`, `NeverReopened`, and
`Invariance`). None of the properties is inductive. `Inv` is
`TypeOK /\ HandlerInv /\ JobInv /\ CreateInv /\ LockInv /\ SaveInv /\ FeeInv`:

* `HandlerInv`, `JobInv`, `CreateInv`: what a handler in flight knows (its booking exists; a
  create's does not yet, and it is the only one for it; jobs belong to existing rows);
* `LockInv`: at `commit` the handler holds the lock and the row is REQUESTED; two
  transactions never hold one row;
* `SaveInv`: the heart. Whatever entity is in flight to `save` holds a status other
  than REQUESTED: the handlers that decide set one, and those that leave the status alone
  (`markPaid`, `refreshCompletionOtp`, `submitRating`) read a row that was decided
  before the app offered them. So an old entity can bring back a wrong answer, but never the question;
* `FeeInv`: a fee is owed or paid by at most one handler, and only for a decided row.

`Forward` (a decided row stays decided) follows from `SaveInv` and carries
`FeeInv`: `acceptBooking` needs REQUESTED, so it cannot charge again. The proof
classifies steps by shape lemmas (`LockShape`, `CommitShape`, ...), each saying what
one action changes, and then treats one conjunct of `Inv` at a time.

*Refinement* (`Refinement`: `Spec => OfferKept`). The states of `Bookings` map to
states of `Offer` with `Inv`, and every step to a step of `Offer` or none. One more
invariant is needed, `SiblingInv` (what `acceptBooking` found to cancel belongs to the same
worker). `LockInv` makes the commit a `Take` of a booking still asked, `SaveInv` an `Update`
a `Close` or nothing, `FeeInv` the call of the wallet a `Charge` of what is owed.
The promise says nothing of which answer stands: a later save may replace it (see `timeout`).

Each of the further properties needs one more invariant beside `Inv`:

* `NoJobForFree` (`JobsAreCharged`), `ChargeInv`. Whatever shows that a booking was accepted (its
  row, an entity in flight, a handler only offered after acceptance, a queued GPS check) goes
  with a fee asked or due, or a restart. `PayingStays`: what is charged or due stays so, hence an
  old entity saved late brings back no status that was not paid for.
* `AnswersComeAfter` (`AnswersAreStored`), `AnswerInv`: whoever is about to write the cache
  knows a decision the table already holds, and decided rows stay decided (`Forward`).
* `StrikesAreBounded` (`StrikesBounded`), `GpsInv` and `StrikeInv`. A booking is *open* while
  its GPS check may still come: it is queued and not forfeiting, or not queued yet. Rows *and entities in
  flight* of an open booking have less than `MaxStrikes + restarts` strikes, so no
  stale save can lift a row past it. The check is queued once, runs alone and leaves with the
  last strike; only a restart between that strike and the forfeit opens the booking again.
* `RequestsAreShown` (`WaitingRequestIsShown`), `ShownInv`: a waiting request has its timeout job and
  is on its list, or its `createBooking` has yet to do one or the other. It assumes no Redis failure and
  no restart, as in `answering`; TLC refutes it with either.

**`WalletProofs`** (`TypeCorrect`, `BalanceStaysUp`, `BalanceIsGranted`).
`Inv = TypeOK /\ BaseInv /\ NeverOverdrawn /\ NoMoneyFromNothing`, where `BaseInv` says
the balance a handler holds was once in the table: at least a fee for a fee handler, and at
most what was granted. So lost updates can lose or duplicate a payment
but never overdraw or mint. `LedgerIsBehind` (`LedgerNeverAhead`) counts: the records written, and
the handlers that have saved a movement and not yet recorded it (a finite set, each counted once), are
together no more than the movements saved.

**`WorkerProfileProofs`** (`TypeCorrect`, `BonusComesFirst`, `LimitHoldsAlone`). `FlagInv`: an
entity carries the flag into `save` only after the bonus was granted, so no late save sets it
too early. `SerialInv` is what one handler alone knows until two have met: it is the
only one, its row is the one it read, the counters of the row are today's changes, and what it is about to
save is one more of the date it took (`OneMore`), today's or an earlier one; while
`toggleGoLive` asks for the balance it has counted nothing yet (`Asking`).

**`WorkerSearchProofs`** (`TypeCorrect`, `IndexIsLive`, `AnswersLive`, `StatusTruth`).
`Inv = Base /\ \A w : IndexAt(w) /\ LiveAt(w) /\ StatusAt(w)`; each of the three is empty once one of the
slips it names has happened, so a step proves it by staying clear of them.

* `IndexAt`: without failure or crossing at most one handler saves the profile of `w`; its `dto` is
  the row but for the toggle it is about to write, and it leaves index and row agreeing.
* `LiveAt`: a worker who is live, and no toggle between its UPDATE and its snapshot,
  has no snapshot that says otherwise, nor a search that would store one.
* `StatusAt`: without tangled bookings a worker has at most one; what Redis says, or a
  reader is about to store, is what the bookings say, unless the handler that will correct it
  is under way (`Told`).

**`HiringProofs`** (`TypeCorrect`, `RankAndCountAgree`, `CountsAreReported`, `DuplicatesAreRaces`).
`CountInv`: every stored count, and every one in an entity in flight, leaves room for the
no-shows reported and not yet counted. `RankInv`: while the reported no-shows have not used
up the rank, rows and entities are exact, so the SELECT of `save` finds both
columns changed or neither. `RaceInv`: the applications stored for a job and talent and those that passed the
check are together no more than the handlers: one that passes finds none stored. `MoveInv`: an
application about to be saved is stored and its new status is one (none is ever removed).

**`RentalsProofs`** (`TypeCorrect`, `OverlapExact`, `LateRefused`). A
stored span never moves and is not empty; a confirmation that reached `save` conflicts
with nothing that was confirmed when it began, and this stays true while others save.
`ConflictIsSharedHour` is the arithmetic: comparing ends is exact for non-empty half-open spans.

**`MasterEntriesProofs`** (`TypeCorrect`, `RemovalHolds`, `ListsHold`). `RowInv`: what an
update or a create in flight may do to a removed entry. `ListInv = StoreInv /\ ListsFollowTable`: a
find about to store holds the list as it is now, unless the write that changed it
has still to call KEYS, when it will see the find (`gap`) or its list. Each action is one lemma: writes
of the table open the excuse, `GetKeys` closes it, `Store` needs `StoreInv`.

**`AccountsProofs`** (`TypeCorrect`, `SpentCodesLeave`, `RejectedOut`, `CacheHolds`, `PushesStay`).
`SpentCodesLeave` is inductive: a code is accepted by a handler that goes on to delete it, and whoever
deletes it takes it out of `used`. `BaseInv` says what a handler in flight knows
(a save has its row, a token about to be cleared is not valid any more), and `SlipsGrow` that excuses stay. `RejectInv` adds that a save holding a refused token has been
counted. `PushInv` is what the pushes need, account by account (`PushAt`): unless saves overlapped
there is at most one (`SaveAt`), which, if an edit, holds the valid token of the row and,
if a registration past its UPDATE, has left its own there; a push about to fill Redis holds the
row's token or a registration will replace it (`StoreAt`); a settled account has no registration
of an older device on the way (`SettleAt`). `Quiet` describes what most steps
have in common (they leave valid tokens alone and bring no new save or fill), and
`QuietPush` proves `PushAt` for all of them; starts of saves, `Select`, `Update` and the three steps that read
or fill the cache have a lemma each.

**Only model-checked:** liveness, which needs fairness and ENABLED, out of the prover's reach:
`RequestIsDecided`, `LocksAreReleased` and `ListsSettle`. A counterexample as that of `timeout` is TLC's, too.

**What proving changed.** `RankFollowsCount` used to hold without its condition, because the bound of three
no-shows hid what follows a used-up rank; looking for the inductive invariant showed it, and TLC
confirmed it with four. In `WorkerSearch`, `Contradicts` once took every
`acceptBooking` for a late reader (it contradicts the status before it writes it), which left
`StatusFollowsJobs` nearly nothing to say; it now counts readers only.

## 5. Not modelled

Values of booking OTPs and their Redis copies (verification compares with the row; the
copies are never read), texts and channels of notifications, tokens' signatures, read-only
queries, money amounts other than fee and bonus, distances, uploads, businesses, user
interfaces, deployment. `Bookings` keeps the worker-status key as its handlers write it; what it
means next to toggles and readers is in `WorkerSearch`, which abstracts the bookings.

## 6. Plan

In order of importance; 1 to 9 are built, the rest is to come.

1. `Bookings` with proofs of the lock, the fee and finality.
2. `Wallet` with proofs. 3. `WorkerProfile`. 4. `Rentals` with proofs. 5. `Hiring`.
6. `Offer`: the abstract life of a request, and `Bookings` shown and proved to implement it.
7. `WorkerSearch`: the copies of a worker against profile and bookings.
8. `Accounts` and `MasterEntries`, both with proofs.
9. Proofs of the invariants of `WorkerProfile`, `WorkerSearch` and `Hiring`, and of those of
   `Bookings` and `Wallet` that the first proofs left to TLC.
10. `BookingsAndWallet`: the fee as a call into `Wallet` in place of the counter `fees`.
11. Restart and Redis-failure variants of `RequestIsDecided`: what remains true; the liveness of
    `Offer` (what is asked is answered) under the fairness of `liveness`.
