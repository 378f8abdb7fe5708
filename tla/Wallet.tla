------------------------------- MODULE Wallet -------------------------------
(***************************************************************************)
(* The wallet of a worker: users.walletBalance and the wallet_transactions *)
(* ledger.  WalletsService reads the user, changes the balance, saves the  *)
(* user (module TypeOrm) and then inserts a ledger record; no transaction  *)
(* holds these together.  The balance is a column of the users row, which  *)
(* UsersService and AuthService also save, with the balance they read.     *)
(* Callers: acceptBooking deducts the fee, verifyCompletionOtp adds the    *)
(* bonus of the first job.                                                 *)
(***************************************************************************)
EXTENDS Integers, FiniteSets, TypeOrm

CONSTANTS
  Users,
  Procs,         \* handlers in flight
  Fee,           \* 12 rupees
  Bonus,         \* 12 rupees
  MaxCalls,      \* calls of each service method (bounds the model)
  Versions,      \* values of the other columns of a users row
  MayCrash       \* TRUE when a handler may be lost between two statements

ASSUME AmountsAssumption == Fee \in Nat \ {0} /\ Bonus \in Nat
ASSUME UsersAssumption == Users # {}
ASSUME WalletBoundAssumption == MaxCalls \in Nat /\ Versions # {} /\ MayCrash \in BOOLEAN

UserRow == [walletBalance : Int, profile : Versions]

VARIABLES
  users,     \* the users table
  debits,    \* DEBIT records of each user
  credits,   \* CREDIT records of each user
  charged,   \* history: fees whose save changed the table
  granted,   \* history: sum of the amounts addFunds has saved
  calls,     \* calls made of each method, to bound the model
  proc

vars == <<users, debits, credits, charged, granted, calls, proc>>

Ops == {"fee", "funds", "edit"}
Proc == [op : Ops \cup {"none"}, u : Users, pc : {"read", "select", "update", "record"},
         base : UserRow, dirty : SUBSET {"walletBalance", "profile"}]

SomeVersion == CHOOSE v \in Versions : TRUE
Start(op, u) == [op |-> op, u |-> u, pc |-> "read",
                 base |-> [walletBalance |-> 0, profile |-> SomeVersion], dirty |-> {}]
Idle == Start("none", CHOOSE u \in Users : TRUE)

\* Mutant: the fee is added.
EntityCredited(pr) ==
  CASE pr.op = "fee"   -> [pr.base EXCEPT !.walletBalance = @ + Fee]
    [] pr.op = "funds" -> [pr.base EXCEPT !.walletBalance = @ + Bonus]
    [] OTHER           -> pr.base

Entity(pr) ==
  CASE pr.op = "fee"   -> [pr.base EXCEPT !.walletBalance = @ - Fee]
    [] pr.op = "funds" -> [pr.base EXCEPT !.walletBalance = @ + Bonus]
    [] OTHER           -> pr.base   \* base.profile is the new value

Done(p) == proc' = [proc EXCEPT ![p] = Idle]

-----------------------------------------------------------------------------
\* MaxCalls bounds the calls of each method.
Call(p, op, u) ==
  /\ proc[p] = Idle
  /\ calls[op] < MaxCalls
  /\ calls' = [calls EXCEPT ![op] = @ + 1]
  /\ proc' = [proc EXCEPT ![p] = Start(op, u)]
  /\ UNCHANGED <<users, debits, credits, charged, granted>>

\* Mutant: the balance is not checked.
DeductUnchecked(p) ==
  /\ proc[p].op = "fee" /\ proc[p].pc = "read"
  /\ proc' = [proc EXCEPT ![p].base = users[proc[p].u], ![p].pc = "select"]
  /\ UNCHANGED <<users, debits, credits, charged, granted, calls>>

\* Mutant: the user is not saved before the ledger record is written.
DeductUnsaved(p) ==
  LET row == users[proc[p].u] IN
  /\ proc[p].op = "fee" /\ proc[p].pc = "read"
  /\ IF row.walletBalance < Fee
       THEN Done(p)
       ELSE proc' = [proc EXCEPT ![p].base = row, ![p].pc = "record"]
  /\ UNCHANGED <<users, debits, credits, charged, granted, calls>>

\* deductBookingFee: throws when the balance is below the fee.
DeductBookingFee(p) ==
  LET row == users[proc[p].u] IN
  /\ proc[p].op = "fee" /\ proc[p].pc = "read"
  /\ IF row.walletBalance < Fee
       THEN Done(p)
       ELSE proc' = [proc EXCEPT ![p].base = row, ![p].pc = "select"]
  /\ UNCHANGED <<users, debits, credits, charged, granted, calls>>

AddFunds(p) ==
  /\ proc[p].op = "funds" /\ proc[p].pc = "read"
  /\ proc' = [proc EXCEPT ![p].base = users[proc[p].u], ![p].pc = "select"]
  /\ UNCHANGED <<users, debits, credits, charged, granted, calls>>

\* updateProfile, updateFcmToken, updateApprovalStatus, updateVerification and
\* updatePushToken set other columns and save the whole entity.
EditUser(p) ==
  /\ proc[p].op = "edit" /\ proc[p].pc = "read"
  /\ \E v \in Versions :
       proc' = [proc EXCEPT ![p].base = [users[proc[p].u] EXCEPT !.profile = v],
                            ![p].pc = "select"]
  /\ UNCHANGED <<users, debits, credits, charged, granted, calls>>

Select(p) ==
  /\ proc[p].pc = "select" /\ proc[p].op # "none"
  /\ proc' = [proc EXCEPT ![p].pc = "update",
                ![p].dirty = Changed(users[proc[p].u], Entity(proc[p]))]
  /\ UNCHANGED <<users, debits, credits, charged, granted, calls>>

Update(p) ==
  LET u == proc[p].u IN
  /\ proc[p].pc = "update"
  /\ users' = [users EXCEPT ![u] = Updated(@, Entity(proc[p]), proc[p].dirty)]
  /\ charged' = [charged EXCEPT ![u] = IF proc[p].op = "fee" THEN @ + 1 ELSE @]
  /\ granted' = [granted EXCEPT ![u] = IF proc[p].op = "funds" THEN @ + Bonus ELSE @]
  /\ IF proc[p].op = "edit" THEN Done(p)
                            ELSE proc' = [proc EXCEPT ![p].pc = "record"]
  /\ UNCHANGED <<debits, credits, calls>>

\* Mutant: a DEBIT takes a record away.
RecordReversed(p) ==
  /\ proc[p].pc = "record"
  /\ debits' = [debits EXCEPT ![proc[p].u] = @ - 1]
  /\ Done(p)
  /\ UNCHANGED <<users, credits, charged, granted, calls>>

\* The ledger record of the movement.
Record(p) ==
  LET u == proc[p].u IN
  /\ proc[p].pc = "record"
  /\ debits' = [debits EXCEPT ![u] = IF proc[p].op = "fee" THEN @ + 1 ELSE @]
  /\ credits' = [credits EXCEPT ![u] = IF proc[p].op = "funds" THEN @ + 1 ELSE @]
  /\ Done(p)
  /\ UNCHANGED <<users, charged, granted, calls>>

\* The backend stops before the handler's next statement.
Lose(p) ==
  /\ MayCrash
  /\ proc[p] # Idle
  /\ Done(p)
  /\ UNCHANGED <<users, debits, credits, charged, granted, calls>>

Init ==
  /\ users = [u \in Users |-> [walletBalance |-> 0, profile |-> SomeVersion]]
  /\ debits = [u \in Users |-> 0]
  /\ credits = [u \in Users |-> 0]
  /\ charged = [u \in Users |-> 0]
  /\ granted = [u \in Users |-> 0]
  /\ calls = [op \in Ops |-> 0]
  /\ proc = [p \in Procs |-> Idle]

Next == \E p \in Procs :
  \/ \E op \in Ops, u \in Users : Call(p, op, u)
  \/ DeductBookingFee(p) \/ AddFunds(p) \/ EditUser(p)
  \/ Select(p) \/ Update(p) \/ Record(p) \/ Lose(p)

Spec == Init /\ [][Next]_vars

-----------------------------------------------------------------------------
TypeOK ==
  /\ users \in [Users -> UserRow]
  /\ debits \in [Users -> Nat] /\ credits \in [Users -> Nat]
  /\ charged \in [Users -> Nat] /\ granted \in [Users -> Nat]
  /\ calls \in [Ops -> Nat]
  /\ proc \in [Procs -> Proc]

\* However fees, bonuses and profile edits interleave, and although the balance
\* is checked in one statement and written in another, it never goes below zero.
NeverOverdrawn == \A u \in Users : users[u].walletBalance >= 0

\* Lost updates may give a fee back or swallow a bonus; they never leave more in
\* the wallet than addFunds has put there.
NoMoneyFromNothing == \A u \in Users : users[u].walletBalance <= granted[u]

\* The ledger only reports movements that were saved: a crash loses records,
\* it never leaves a record of a movement that did not happen.
LedgerNeverAhead ==
  \A u \in Users : debits[u] <= charged[u] /\ credits[u] * Bonus <= granted[u]

-----------------------------------------------------------------------------
(* What a doc says and the code does not do. *)

\* "Atomic wallet deduction with SELECT FOR UPDATE" (docs/AGENT_TASK_LIST.md:1337): the
\* save of a deduction takes the fee off the balance as it is.  It writes the balance
\* the handler read, less the fee, and a movement saved since is lost.
DeductionIsAtomic ==
  [][\A p \in Procs : LET u == proc[p].u IN
       proc[p].op = "fee" /\ Update(p) =>
         users'[u].walletBalance = users[u].walletBalance - Fee]_vars
=============================================================================
