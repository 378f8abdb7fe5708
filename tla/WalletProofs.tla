---------------------------- MODULE WalletProofs ----------------------------
(***************************************************************************)
(* What TLAPS proves of module Wallet for every number of users, handlers  *)
(* in flight and calls, and every fee and bonus.                           *)
(***************************************************************************)
EXTENDS Wallet, FiniteSetTheorems, TLAPS

\* The balance a handler is going to save is worked out from one that was in the
\* table once: not negative, enough for a fee, and no more than was granted.
BaseOk(v, given) ==
  v.pc \in {"select", "update"} =>
    /\ v.base.walletBalance >= IF v.op = "fee" THEN Fee ELSE 0
    /\ v.base.walletBalance <= given[v.u]
BaseInv == \A p \in Procs : BaseOk(proc[p], granted)

Inv == TypeOK /\ BaseInv /\ NeverOverdrawn /\ NoMoneyFromNothing

\* What is saved is a row, and its balance stays within what was granted.
LEMMA EntityBalance ==
  ASSUME NEW v \in Proc, NEW given \in [Users -> Nat], BaseOk(v, given),
         v.pc \in {"select", "update"}
  PROVE  /\ Entity(v) \in UserRow
         /\ Entity(v).walletBalance >= 0
         /\ Entity(v).walletBalance <= given[v.u] + (IF v.op = "funds" THEN Bonus ELSE 0)
<1>1. v.base \in UserRow /\ v.base.walletBalance \in Int /\ v.u \in Users
  BY DEF Proc, UserRow
<1>2. given[v.u] \in Nat /\ Fee \in Nat /\ Bonus \in Nat
  BY <1>1, AmountsAssumption
<1>3. CASE v.op = "fee"
  BY <1>1, <1>2, <1>3 DEF Entity, BaseOk, UserRow
<1>4. CASE v.op = "funds"
  BY <1>1, <1>2, <1>4 DEF Entity, BaseOk, UserRow
<1>5. CASE v.op \notin {"fee", "funds"}
  BY <1>1, <1>2, <1>5 DEF Entity, BaseOk
<1>q. QED BY <1>3, <1>4, <1>5

LEMMA IdleTyped == Idle \in Proc /\ Idle.pc = "read"
<1>1. SomeVersion \in Versions /\ (CHOOSE u \in Users : TRUE) \in Users
  BY WalletBoundAssumption, UsersAssumption DEF SomeVersion
<1>q. QED BY <1>1 DEF Idle, Start, Proc, Ops, UserRow

LEMMA StartTyped ==
  ASSUME NEW op \in Ops, NEW u \in Users
  PROVE  Start(op, u) \in Proc /\ Start(op, u).pc = "read"
<1>1. SomeVersion \in Versions
  BY WalletBoundAssumption DEF SomeVersion
<1>q. QED BY <1>1 DEF Start, Proc, UserRow

\* A handler that returns, or is lost, leaves the others as they were.
LEMMA DoneStep ==
  ASSUME TypeOK, BaseInv, NEW p \in Procs, Done(p), UNCHANGED granted
  PROVE  proc' \in [Procs -> Proc] /\ BaseInv'
<1>1. proc' \in [Procs -> Proc] /\ \A q \in Procs : proc'[q] \in {Idle, proc[q]}
  BY IdleTyped DEF Done, TypeOK
<1>q. QED BY <1>1, IdleTyped DEF BaseInv, BaseOk

LEMMA InitInv == Init => Inv
<1> SUFFICES ASSUME Init PROVE Inv
  OBVIOUS
<1>1. SomeVersion \in Versions
  BY WalletBoundAssumption DEF SomeVersion
<1>2. TypeOK
  BY <1>1, IdleTyped DEF Init, TypeOK, UserRow
<1>3. BaseInv /\ NeverOverdrawn /\ NoMoneyFromNothing
  BY <1>2, IdleTyped DEF Init, BaseInv, BaseOk, NeverOverdrawn, NoMoneyFromNothing
<1>q. QED BY <1>2, <1>3 DEF Inv

\* The statements that read: the table and the history stay, the handler keeps
\* what it found.
LEMMA ReadStep ==
  ASSUME Inv, NEW p \in Procs, DeductBookingFee(p) \/ AddFunds(p) \/ EditUser(p)
  PROVE  Inv'
<1>1. /\ proc \in [Procs -> Proc] /\ proc[p] \in Proc /\ proc[p].u \in Users
      /\ UNCHANGED <<users, debits, credits, charged, granted, calls>>
  BY DEF Inv, TypeOK, Proc, DeductBookingFee, AddFunds, EditUser
<1>2. /\ users[proc[p].u] \in UserRow /\ users[proc[p].u].walletBalance >= 0
      /\ users[proc[p].u].walletBalance <= granted[proc[p].u]
  BY <1>1 DEF Inv, TypeOK, NeverOverdrawn, NoMoneyFromNothing
<1>3. CASE Done(p)
  BY <1>1, <1>3, DoneStep DEF Inv, TypeOK, NeverOverdrawn, NoMoneyFromNothing
<1>4. ASSUME NEW row \in UserRow,
             row.walletBalance >= 0 /\ row.walletBalance <= granted[proc[p].u],
             proc[p].op = "fee" => row.walletBalance >= Fee,
             proc' = [proc EXCEPT ![p].base = row, ![p].pc = "select"]
      PROVE  Inv'
  <2>1. [proc[p] EXCEPT !.base = row, !.pc = "select"] \in Proc
    BY <1>1 DEF Proc
  <2>2. /\ proc'[p] = [proc[p] EXCEPT !.base = row, !.pc = "select"]
        /\ \A q \in Procs \ {p} : proc'[q] = proc[q]
        /\ proc' \in [Procs -> Proc]
    BY <1>1, <1>4, <2>1
  <2>3. proc'[p].u = proc[p].u /\ proc'[p].op = proc[p].op /\ proc'[p].base = row
    BY <1>1, <2>2 DEF Proc
  <2>4. BaseOk(proc'[p], granted)
    BY <1>4, <2>3 DEF BaseOk
  <2>5. BaseInv'
    BY <1>1, <2>2, <2>4 DEF Inv, BaseInv
  <2>q. QED BY <1>1, <2>2, <2>5 DEF Inv, TypeOK, NeverOverdrawn, NoMoneyFromNothing
<1>5. CASE DeductBookingFee(p)
  <2>1. users[proc[p].u].walletBalance \in Int /\ Fee \in Nat
    BY <1>2, AmountsAssumption DEF UserRow
  <2>2. CASE users[proc[p].u].walletBalance < Fee
    BY <1>3, <1>5, <2>2 DEF DeductBookingFee
  <2>3. CASE ~ (users[proc[p].u].walletBalance < Fee)
    <3>1. proc' = [proc EXCEPT ![p].base = users[proc[p].u], ![p].pc = "select"]
      BY <1>5, <2>3 DEF DeductBookingFee
    <3>2. users[proc[p].u].walletBalance >= Fee
      BY <2>1, <2>3
    <3>q. QED BY <1>2, <1>4, <3>1, <3>2
  <2>q. QED BY <2>2, <2>3
<1>6. CASE AddFunds(p)
  BY <1>2, <1>4, <1>6 DEF AddFunds
<1>7. CASE EditUser(p)
  <2>1. PICK v \in Versions :
          proc' = [proc EXCEPT ![p].base = [users[proc[p].u] EXCEPT !.profile = v],
                               ![p].pc = "select"]
    BY <1>7 DEF EditUser
  <2>2. DEFINE row == [users[proc[p].u] EXCEPT !.profile = v]
  <2>3. row \in UserRow /\ row.walletBalance = users[proc[p].u].walletBalance
    BY <1>2 DEF UserRow
  <2>4. proc[p].op = "edit"
    BY <1>7 DEF EditUser
  <2>q. QED BY <1>2, <1>4, <2>1, <2>3, <2>4
<1>q. QED BY <1>5, <1>6, <1>7

\* The SELECT of save() notes the changed columns.
LEMMA SelectStep ==
  ASSUME Inv, NEW p \in Procs, Select(p) PROVE Inv'
<1>1. /\ proc \in [Procs -> Proc] /\ proc[p] \in Proc
      /\ UNCHANGED <<users, debits, credits, charged, granted, calls>>
  BY DEF Inv, TypeOK, Select
<1>2. Changed(users[proc[p].u], Entity(proc[p])) \subseteq {"walletBalance", "profile"}
  BY <1>1 DEF Inv, TypeOK, Changed, UserRow, Proc
<1>3. PICK cols \in SUBSET {"walletBalance", "profile"} :
        proc' = [proc EXCEPT ![p].pc = "update", ![p].dirty = cols]
  BY <1>2 DEF Select
<1>4. [proc[p] EXCEPT !.pc = "update", !.dirty = cols] \in Proc
  BY <1>1, <1>3 DEF Proc
<1>5. /\ proc'[p] = [proc[p] EXCEPT !.pc = "update", !.dirty = cols]
      /\ \A q \in Procs \ {p} : proc'[q] = proc[q]
      /\ proc' \in [Procs -> Proc]
  BY <1>1, <1>3, <1>4
<1>6. proc'[p].u = proc[p].u /\ proc'[p].op = proc[p].op /\ proc'[p].base = proc[p].base
  BY <1>1, <1>5 DEF Proc
<1>7. proc[p].pc = "select"
  BY DEF Select
<1>8. BaseOk(proc'[p], granted)
  BY <1>6, <1>7 DEF Inv, BaseInv, BaseOk
<1>9. BaseInv'
  BY <1>1, <1>5, <1>8 DEF Inv, BaseInv
<1>q. QED BY <1>1, <1>5, <1>9 DEF Inv, TypeOK, NeverOverdrawn, NoMoneyFromNothing

\* The UPDATE writes a balance that was worked out from an old one, or none.
LEMMA UpdateStep ==
  ASSUME Inv, NEW p \in Procs, Update(p) PROVE Inv'
<1> DEFINE u == proc[p].u
<1> DEFINE e == Entity(proc[p])
<1>1. /\ proc \in [Procs -> Proc] /\ proc[p] \in Proc /\ u \in Users
      /\ proc[p].pc = "update" /\ UNCHANGED <<debits, credits, calls>>
      /\ users \in [Users -> UserRow] /\ users[u] \in UserRow
      /\ granted \in [Users -> Nat] /\ charged \in [Users -> Nat] /\ Bonus \in Nat
  BY AmountsAssumption DEF Inv, TypeOK, Update, Proc
<1>2. /\ e \in UserRow /\ e.walletBalance >= 0
      /\ e.walletBalance <= granted[u] + (IF proc[p].op = "funds" THEN Bonus ELSE 0)
  BY <1>1, EntityBalance DEF Inv, BaseInv
<1>3. /\ users[u].walletBalance >= 0 /\ users[u].walletBalance <= granted[u]
  BY <1>1 DEF Inv, NeverOverdrawn, NoMoneyFromNothing
<1>4. PICK row : /\ row = Updated(users[u], e, proc[p].dirty)
                 /\ users' = [users EXCEPT ![u] = row]
  BY DEF Update
<1>5. row \in UserRow /\ row.walletBalance \in {users[u].walletBalance, e.walletBalance}
  BY <1>1, <1>2, <1>4 DEF Updated, UserRow
<1>6. /\ granted' \in [Users -> Nat] /\ charged' \in [Users -> Nat]
      /\ granted'[u] = granted[u] + (IF proc[p].op = "funds" THEN Bonus ELSE 0)
      /\ \A x \in Users \ {u} : granted'[x] = granted[x]
  BY <1>1 DEF Update
<1>7. \A x \in Users : granted[x] <= granted'[x] /\ granted[x] \in Nat /\ granted'[x] \in Nat
  BY <1>1, <1>6
<1>8. row.walletBalance >= 0 /\ row.walletBalance <= granted'[u]
  <2>1. /\ e.walletBalance \in Int /\ users[u].walletBalance \in Int
        /\ granted[u] \in Nat
    BY <1>1, <1>2 DEF UserRow
  <2>q. QED BY <1>1, <1>2, <1>3, <1>5, <1>6, <2>1
<1>9. /\ users' \in [Users -> UserRow] /\ users'[u] = row
      /\ \A x \in Users \ {u} : users'[x] = users[x]
  BY <1>1, <1>4, <1>5
<1>10. NeverOverdrawn'
  BY <1>8, <1>9 DEF Inv, NeverOverdrawn
<1>11. NoMoneyFromNothing'
  BY <1>6, <1>8, <1>9 DEF Inv, NoMoneyFromNothing
<1>12. /\ proc' \in [Procs -> Proc]
       /\ \A q \in Procs \ {p} : proc'[q] = proc[q]
       /\ proc'[p].pc \in {"read", "record"}
  <2>1. CASE Done(p)
    BY <1>1, <2>1, IdleTyped DEF Done
  <2>2. CASE proc' = [proc EXCEPT ![p].pc = "record"]
    <3>1. [proc[p] EXCEPT !.pc = "record"] \in Proc
      BY <1>1 DEF Proc
    <3>2. [proc[p] EXCEPT !.pc = "record"].pc = "record"
      BY <1>1 DEF Proc
    <3>q. QED BY <1>1, <2>2, <3>1, <3>2
  <2>q. QED BY <2>1, <2>2 DEF Update
<1>13. BaseInv'
  <2> SUFFICES ASSUME NEW q \in Procs PROVE BaseOk(proc'[q], granted')
    BY DEF BaseInv
  <2>1. CASE q = p
    BY <1>12, <2>1 DEF BaseOk
  <2>2. CASE q # p
    <3>1. /\ BaseOk(proc[q], granted) /\ proc'[q] = proc[q] /\ proc[q] \in Proc
      BY <1>1, <1>12, <2>2 DEF Inv, BaseInv
    <3>2. proc[q].base.walletBalance \in Int /\ proc[q].u \in Users
      BY <3>1 DEF Proc, UserRow
    <3>q. QED BY <1>7, <3>1, <3>2 DEF BaseOk
  <2>q. QED BY <2>1, <2>2
<1>q. QED
  BY <1>1, <1>6, <1>9, <1>10, <1>11, <1>12, <1>13 DEF Inv, TypeOK

\* The ledger record of a movement.
LEMMA RecordStep ==
  ASSUME Inv, NEW p \in Procs, Record(p) PROVE Inv'
<1>1. Done(p) /\ UNCHANGED <<users, charged, granted, calls>>
  BY DEF Record
<1>2. debits \in [Users -> Nat] /\ credits \in [Users -> Nat]
  BY DEF Inv, TypeOK
<1>3. \A n \in Nat : n + 1 \in Nat
  OBVIOUS
<1>4. debits' \in [Users -> Nat]
  BY <1>2, <1>3 DEF Record
<1>5. credits' \in [Users -> Nat]
  BY <1>2, <1>3 DEF Record
<1>q. QED
  BY <1>1, <1>4, <1>5, DoneStep DEF Inv, TypeOK, NeverOverdrawn, NoMoneyFromNothing

\* A call begins in an idle handler.
LEMMA CallStep ==
  ASSUME Inv, NEW p \in Procs, NEW op \in Ops, NEW u \in Users, Call(p, op, u) PROVE Inv'
<1>1. /\ calls' \in [Ops -> Nat] /\ UNCHANGED <<users, debits, credits, charged, granted>>
      /\ proc' = [proc EXCEPT ![p] = Start(op, u)]
  BY DEF Inv, TypeOK, Call
<1>2. /\ proc' \in [Procs -> Proc] /\ proc'[p].pc = "read"
      /\ \A q \in Procs \ {p} : proc'[q] = proc[q]
  BY <1>1, StartTyped DEF Inv, TypeOK
<1>3. BaseInv'
  BY <1>1, <1>2 DEF Inv, BaseInv, BaseOk
<1>q. QED BY <1>1, <1>2, <1>3 DEF Inv, TypeOK, NeverOverdrawn, NoMoneyFromNothing

LEMMA StepInv == Inv /\ [Next]_vars => Inv'
<1> SUFFICES ASSUME Inv, [Next]_vars PROVE Inv'
  OBVIOUS
<1>1. ASSUME NEW p \in Procs, Lose(p) PROVE Inv'
  BY <1>1, DoneStep DEF Lose, Inv, TypeOK, NeverOverdrawn, NoMoneyFromNothing
<1>2. CASE UNCHANGED vars
  BY <1>2 DEF vars, Inv, TypeOK, BaseInv, BaseOk, NeverOverdrawn, NoMoneyFromNothing
<1>q. QED
  BY <1>1, <1>2, ReadStep, SelectStep, UpdateStep, RecordStep, CallStep DEF Next

\* The wallets keep the invariant.
THEOREM Invariance == Spec => []Inv
BY InitInv, StepInv, PTL DEF Spec

\* The balance is checked and written in different statements and saved by five
\* handlers, and yet no wallet is ever overdrawn.
THEOREM BalanceStaysUp == Spec => []NeverOverdrawn
<1>1. Inv => NeverOverdrawn
  BY DEF Inv
<1>q. QED BY <1>1, Invariance, PTL

\* No wallet ever holds more than addFunds has put into it.
THEOREM BalanceIsGranted == Spec => []NoMoneyFromNothing
<1>1. Inv => NoMoneyFromNothing
  BY DEF Inv
<1>q. QED BY <1>1, Invariance, PTL

\* Every variable keeps its type.
THEOREM TypeCorrect == Spec => []TypeOK
<1>1. Inv => TypeOK
  BY DEF Inv
<1>q. QED BY <1>1, Invariance, PTL
-----------------------------------------------------------------------------
(***************************************************************************)
(* The ledger.  A handler between the UPDATE of the users row and the      *)
(* INSERT of the record owes the ledger that record: the movements saved   *)
(* cover the records written and the records owed.                         *)
(***************************************************************************)
Owes(v, op, u) == v.pc = "record" /\ v.op = op /\ v.u = u
Owing(op, u) == {p \in Procs : Owes(proc[p], op, u)}

LedgerInv ==
  \A u \in Users :
    /\ IsFiniteSet(Owing("fee", u)) /\ IsFiniteSet(Owing("funds", u))
    /\ debits[u] + Cardinality(Owing("fee", u)) <= charged[u]
    /\ (credits[u] + Cardinality(Owing("funds", u))) * Bonus <= granted[u]

\* Two sets that differ in one element at most.
LEMMA OneElement ==
  ASSUME NEW S, NEW T, NEW p, IsFiniteSet(S), T \ {p} = S \ {p}
  PROVE  /\ IsFiniteSet(T) /\ Cardinality(S) \in Nat /\ Cardinality(T) \in Nat
         /\ (p \in S <=> p \in T) => Cardinality(T) = Cardinality(S)
         /\ p \notin S /\ p \in T => Cardinality(T) = Cardinality(S) + 1
         /\ p \in S /\ p \notin T => Cardinality(T) = Cardinality(S) - 1
<1>1. IsFiniteSet(S \ {p}) /\ Cardinality(S) \in Nat
  BY FS_RemoveElement, FS_CardinalityType
<1>2. CASE p \in T
  <2>1. T = (S \ {p}) \cup {p}
    BY <1>2
  <2>2. /\ IsFiniteSet(T)
        /\ Cardinality(T) = Cardinality(S \ {p}) + 1
    BY <1>1, <2>1, FS_AddElement
  <2>q. QED BY <1>1, <1>2, <2>2, FS_RemoveElement, FS_CardinalityType
<1>3. CASE p \notin T
  <2>1. T = S \ {p}
    BY <1>3
  <2>q. QED BY <1>1, <1>3, <2>1, FS_RemoveElement, FS_CardinalityType
<1>q. QED BY <1>2, <1>3

\* The records owed to u when only p's handler moves.
LEMMA OwingMoves ==
  ASSUME NEW op, NEW u, NEW p \in Procs, IsFiniteSet(Owing(op, u)),
         \A q \in Procs \ {p} : proc'[q] = proc[q]
  PROVE  /\ IsFiniteSet(Owing(op, u)') /\ Cardinality(Owing(op, u)) \in Nat
         /\ Cardinality(Owing(op, u)') \in Nat
         /\ ~ Owes(proc'[p], op, u) =>
              Cardinality(Owing(op, u)') =
                Cardinality(Owing(op, u)) - (IF Owes(proc[p], op, u) THEN 1 ELSE 0)
         /\ Owes(proc'[p], op, u) /\ ~ Owes(proc[p], op, u) =>
              Cardinality(Owing(op, u)') = Cardinality(Owing(op, u)) + 1
<1>1. Owing(op, u)' \ {p} = Owing(op, u) \ {p}
  BY DEF Owing, Owes
<1>2. /\ p \in Owing(op, u) <=> Owes(proc[p], op, u)
      /\ p \in Owing(op, u)' <=> Owes(proc'[p], op, u)
  BY DEF Owing
<1>3. PICK S, T : S = Owing(op, u) /\ T = Owing(op, u)'
  OBVIOUS
<1>4. /\ IsFiniteSet(T) /\ Cardinality(S) \in Nat /\ Cardinality(T) \in Nat
      /\ (p \in S <=> p \in T) => Cardinality(T) = Cardinality(S)
      /\ p \notin S /\ p \in T => Cardinality(T) = Cardinality(S) + 1
      /\ p \in S /\ p \notin T => Cardinality(T) = Cardinality(S) - 1
  BY <1>1, <1>3, OneElement
<1>q. QED BY <1>2, <1>3, <1>4

\* A step that leaves the ledger and the history alone and takes p to a
\* statement other than the INSERT: nothing more is owed.
LEMMA LedgerStays ==
  ASSUME TypeOK, LedgerInv, NEW p \in Procs,
         \A q \in Procs \ {p} : proc'[q] = proc[q], proc'[p].pc # "record",
         UNCHANGED <<debits, credits>>,
         \A u \in Users : charged'[u] >= charged[u] /\ granted'[u] >= granted[u]
                          /\ charged'[u] \in Nat /\ granted'[u] \in Nat
  PROVE  LedgerInv'
<1> SUFFICES ASSUME NEW u \in Users
             PROVE  /\ IsFiniteSet(Owing("fee", u)') /\ IsFiniteSet(Owing("funds", u)')
                    /\ debits'[u] + Cardinality(Owing("fee", u)') <= charged'[u]
                    /\ (credits'[u] + Cardinality(Owing("funds", u)')) * Bonus <= granted'[u]
  BY DEF LedgerInv
<1>1. /\ IsFiniteSet(Owing("fee", u)) /\ IsFiniteSet(Owing("funds", u))
      /\ debits[u] + Cardinality(Owing("fee", u)) <= charged[u]
      /\ (credits[u] + Cardinality(Owing("funds", u))) * Bonus <= granted[u]
      /\ debits[u] \in Nat /\ credits[u] \in Nat /\ charged[u] \in Nat /\ granted[u] \in Nat
      /\ Bonus \in Nat
  BY AmountsAssumption DEF LedgerInv, TypeOK
<1>2. ~ Owes(proc'[p], "fee", u) /\ ~ Owes(proc'[p], "funds", u)
  BY DEF Owes
<1>3. PICK m \in Nat, n \in Nat :
        m = Cardinality(Owing("fee", u)') /\ n = Cardinality(Owing("funds", u)')
  BY <1>1, OwingMoves
<1>4. PICK i \in Nat, j \in Nat :
        i = Cardinality(Owing("fee", u)) /\ j = Cardinality(Owing("funds", u))
  BY <1>1, OwingMoves
<1>5. m <= i /\ n <= j
  BY <1>1, <1>2, <1>3, <1>4, OwingMoves
<1>6. (credits[u] + n) * Bonus <= (credits[u] + j) * Bonus
  BY <1>1, <1>5
<1>q. QED
  <2>1. IsFiniteSet(Owing("fee", u)') /\ IsFiniteSet(Owing("funds", u)')
    BY <1>1, OwingMoves
  <2>2. debits'[u] + m <= charged'[u]
    BY <1>1, <1>4, <1>5
  <2>3. (credits'[u] + n) * Bonus <= granted'[u]
    <3>1. PICK x \in Int, y \in Int : x = (credits[u] + n) * Bonus /\ y = (credits[u] + j) * Bonus
      BY <1>1
    <3>2. x <= y /\ y <= granted[u]
      BY <1>1, <1>4, <1>6, <3>1
    <3>q. QED BY <1>1, <3>1, <3>2
  <2>q. QED BY <1>3, <2>1, <2>2, <2>3


LEMMA InitLedger == Init => LedgerInv
<1> SUFFICES ASSUME Init, NEW u \in Users
             PROVE  /\ IsFiniteSet(Owing("fee", u)) /\ IsFiniteSet(Owing("funds", u))
                    /\ debits[u] + Cardinality(Owing("fee", u)) <= charged[u]
                    /\ (credits[u] + Cardinality(Owing("funds", u))) * Bonus <= granted[u]
  BY DEF LedgerInv
<1>1. Owing("fee", u) = {} /\ Owing("funds", u) = {}
  BY IdleTyped DEF Init, Owing, Owes
<1>2. debits[u] = 0 /\ credits[u] = 0 /\ charged[u] = 0 /\ granted[u] = 0
  BY DEF Init
<1>q. QED BY <1>1, <1>2, FS_EmptySet, AmountsAssumption

\* The UPDATE adds the movement to the history, and the record it owes.
LEMMA UpdateLedger ==
  ASSUME Inv, LedgerInv, NEW p \in Procs, Update(p) PROVE LedgerInv'
<1>1. /\ proc \in [Procs -> Proc] /\ proc[p] \in Proc /\ proc[p].u \in Users
      /\ proc[p].pc = "update" /\ UNCHANGED <<debits, credits, calls>>
      /\ charged \in [Users -> Nat] /\ granted \in [Users -> Nat]
      /\ debits \in [Users -> Nat] /\ credits \in [Users -> Nat] /\ Bonus \in Nat
  BY AmountsAssumption DEF Inv, TypeOK, Update, Proc
<1>2. PICK x : x = proc[p].u
  OBVIOUS
<1>3. /\ charged' = [charged EXCEPT ![x] = IF proc[p].op = "fee" THEN @ + 1 ELSE @]
      /\ granted' = [granted EXCEPT ![x] = IF proc[p].op = "funds" THEN @ + Bonus ELSE @]
  BY <1>2 DEF Update
<1>4. \A u \in Users :
        /\ charged'[u] = charged[u] + (IF proc[p].op = "fee" /\ u = x THEN 1 ELSE 0)
        /\ granted'[u] = granted[u] + (IF proc[p].op = "funds" /\ u = x THEN Bonus ELSE 0)
        /\ charged[u] \in Nat /\ granted[u] \in Nat
        /\ charged'[u] \in Nat /\ granted'[u] \in Nat
  BY <1>1, <1>2, <1>3
<1>5. \A u \in Users : charged'[u] >= charged[u] /\ granted'[u] >= granted[u]
                       /\ charged'[u] \in Nat /\ granted'[u] \in Nat
  BY <1>1, <1>4
<1>6. CASE Done(p)
  <2>1. /\ \A q \in Procs \ {p} : proc'[q] = proc[q]
        /\ proc'[p].pc # "record"
    BY <1>1, <1>6, IdleTyped DEF Done
  <2>q. QED BY <1>1, <1>5, <2>1, LedgerStays DEF Inv
<1>7. CASE proc[p].op # "edit" /\ proc' = [proc EXCEPT ![p].pc = "record"]
  <2>1. /\ \A q \in Procs \ {p} : proc'[q] = proc[q]
        /\ proc'[p] = [proc[p] EXCEPT !.pc = "record"]
    BY <1>1, <1>7
  <2>2. proc'[p].op = proc[p].op /\ proc'[p].u = proc[p].u
    BY <1>1, <2>1 DEF Proc
  <2> SUFFICES ASSUME NEW u \in Users
               PROVE  /\ IsFiniteSet(Owing("fee", u)') /\ IsFiniteSet(Owing("funds", u)')
                      /\ debits'[u] + Cardinality(Owing("fee", u)') <= charged'[u]
                      /\ (credits'[u] + Cardinality(Owing("funds", u)')) * Bonus <= granted'[u]
    BY DEF LedgerInv
  <2>3. /\ IsFiniteSet(Owing("fee", u)) /\ IsFiniteSet(Owing("funds", u))
        /\ debits[u] + Cardinality(Owing("fee", u)) <= charged[u]
        /\ (credits[u] + Cardinality(Owing("funds", u))) * Bonus <= granted[u]
        /\ debits[u] \in Nat /\ credits[u] \in Nat
    BY <1>1 DEF LedgerInv
  <2>4. \A op \in {"fee", "funds"} :
          /\ ~ Owes(proc[p], op, u)
          /\ Owes(proc'[p], op, u) => proc[p].op = op /\ u = x
    BY <1>1, <1>2, <2>2 DEF Owes
  <2>5. PICK i \in Nat, j \in Nat, m \in Nat, n \in Nat :
          /\ i = Cardinality(Owing("fee", u)) /\ j = Cardinality(Owing("funds", u))
          /\ m = Cardinality(Owing("fee", u)') /\ n = Cardinality(Owing("funds", u)')
    BY <2>1, <2>3, OwingMoves
  <2>6. /\ m = i \/ (m = i + 1 /\ proc[p].op = "fee" /\ u = x)
        /\ n = j \/ (n = j + 1 /\ proc[p].op = "funds" /\ u = x)
    <3>1. m = i \/ (m = i + 1 /\ Owes(proc'[p], "fee", u))
      BY <2>1, <2>3, <2>4, <2>5, OwingMoves
    <3>2. n = j \/ (n = j + 1 /\ Owes(proc'[p], "funds", u))
      BY <2>1, <2>3, <2>4, <2>5, OwingMoves
    <3>q. QED BY <2>4, <3>1, <3>2
  <2>7. debits'[u] + m <= charged'[u]
    BY <1>1, <1>4, <2>3, <2>5, <2>6
  <2>8. (credits'[u] + n) * Bonus <= granted'[u]
    <3>1. CASE n = j
      <4>1. granted[u] <= granted'[u] /\ granted[u] \in Nat /\ granted'[u] \in Nat
        BY <1>5, <1>4
      <4>2. PICK y \in Int : y = (credits[u] + j) * Bonus
        BY <1>1, <2>3
      <4>q. QED BY <1>1, <2>3, <2>5, <3>1, <4>1, <4>2
    <3>2. CASE n = j + 1 /\ proc[p].op = "funds" /\ u = x
      <4>1. (credits[u] + (j + 1)) * Bonus = (credits[u] + j) * Bonus + Bonus
        BY <1>1, <2>3
      <4>2. PICK y \in Int : y = (credits[u] + j) * Bonus
        BY <1>1, <2>3
      <4>3. granted'[u] = granted[u] + Bonus /\ granted[u] \in Nat
        BY <1>4, <3>2
      <4>4. y <= granted[u]
        BY <2>3, <2>5, <4>2
      <4>q. QED BY <1>1, <3>2, <4>1, <4>2, <4>3, <4>4
    <3>q. QED BY <2>6, <3>1, <3>2
  <2>9. IsFiniteSet(Owing("fee", u)') /\ IsFiniteSet(Owing("funds", u)')
    BY <2>1, <2>3, OwingMoves
  <2>q. QED BY <2>5, <2>7, <2>8, <2>9
<1>q. QED BY <1>6, <1>7 DEF Update

\* The INSERT writes one of the records owed.
LEMMA RecordLedger ==
  ASSUME Inv, LedgerInv, NEW p \in Procs, Record(p) PROVE LedgerInv'
<1>1. /\ proc \in [Procs -> Proc] /\ proc[p] \in Proc /\ proc[p].u \in Users
      /\ proc[p].pc = "record" /\ UNCHANGED <<charged, granted>>
      /\ charged \in [Users -> Nat] /\ granted \in [Users -> Nat]
      /\ debits \in [Users -> Nat] /\ credits \in [Users -> Nat] /\ Bonus \in Nat
  BY AmountsAssumption DEF Inv, TypeOK, Record, Proc
<1>2. PICK x : x = proc[p].u
  OBVIOUS
<1>3. /\ debits' = [debits EXCEPT ![x] = IF proc[p].op = "fee" THEN @ + 1 ELSE @]
      /\ credits' = [credits EXCEPT ![x] = IF proc[p].op = "funds" THEN @ + 1 ELSE @]
  BY <1>2 DEF Record
<1>4. /\ \A q \in Procs \ {p} : proc'[q] = proc[q]
      /\ proc'[p].pc # "record"
  BY <1>1, IdleTyped DEF Record, Done
<1> SUFFICES ASSUME NEW u \in Users
             PROVE  /\ IsFiniteSet(Owing("fee", u)') /\ IsFiniteSet(Owing("funds", u)')
                    /\ debits'[u] + Cardinality(Owing("fee", u)') <= charged'[u]
                    /\ (credits'[u] + Cardinality(Owing("funds", u)')) * Bonus <= granted'[u]
  BY DEF LedgerInv
<1>5. /\ IsFiniteSet(Owing("fee", u)) /\ IsFiniteSet(Owing("funds", u))
      /\ debits[u] + Cardinality(Owing("fee", u)) <= charged[u]
      /\ (credits[u] + Cardinality(Owing("funds", u))) * Bonus <= granted[u]
      /\ debits[u] \in Nat /\ credits[u] \in Nat
  BY <1>1 DEF LedgerInv
<1>6. /\ debits'[u] = debits[u] + (IF Owes(proc[p], "fee", u) THEN 1 ELSE 0)
      /\ credits'[u] = credits[u] + (IF Owes(proc[p], "funds", u) THEN 1 ELSE 0)
  BY <1>1, <1>2, <1>3, <1>5 DEF Owes
<1>7. ~ Owes(proc'[p], "fee", u) /\ ~ Owes(proc'[p], "funds", u)
  BY <1>4 DEF Owes
<1>8. /\ IsFiniteSet(Owing("fee", u)') /\ IsFiniteSet(Owing("funds", u)')
      /\ Cardinality(Owing("fee", u)') =
           Cardinality(Owing("fee", u)) - (IF Owes(proc[p], "fee", u) THEN 1 ELSE 0)
      /\ Cardinality(Owing("funds", u)') =
           Cardinality(Owing("funds", u)) - (IF Owes(proc[p], "funds", u) THEN 1 ELSE 0)
      /\ Cardinality(Owing("fee", u)) \in Nat /\ Cardinality(Owing("funds", u)) \in Nat
  BY <1>4, <1>5, <1>7, OwingMoves
<1>9. debits'[u] + Cardinality(Owing("fee", u)') = debits[u] + Cardinality(Owing("fee", u))
  BY <1>5, <1>6, <1>8
<1>10. credits'[u] + Cardinality(Owing("funds", u)')
         = credits[u] + Cardinality(Owing("funds", u))
  BY <1>5, <1>6, <1>8
<1>q. QED BY <1>1, <1>5, <1>8, <1>9, <1>10

LEMMA StepLedger == Inv /\ LedgerInv /\ [Next]_vars => LedgerInv'
<1> SUFFICES ASSUME Inv, LedgerInv, [Next]_vars PROVE LedgerInv'
  OBVIOUS
<1>1. ASSUME NEW p \in Procs, NEW e,
             \/ proc' = [proc EXCEPT ![p] = e] /\ e \in Proc /\ e.pc # "record"
             \/ /\ proc' = [proc EXCEPT ![p].base = e, ![p].pc = "select"]
             \/ /\ proc' = [proc EXCEPT ![p].pc = "update", ![p].dirty = e],
             UNCHANGED <<debits, credits, charged, granted>>
      PROVE  LedgerInv'
  <2>1. proc \in [Procs -> Proc] /\ proc[p] \in Proc
    BY DEF Inv, TypeOK
  <2>2. (\A q \in Procs \ {p} : proc'[q] = proc[q]) /\ proc'[p].pc # "record"
    <3>1. CASE proc' = [proc EXCEPT ![p] = e] /\ e \in Proc /\ e.pc # "record"
      BY <2>1, <3>1
    <3>2. CASE proc' = [proc EXCEPT ![p].base = e, ![p].pc = "select"]
      <4>1. proc'[p] = [proc[p] EXCEPT !.base = e, !.pc = "select"]
        BY <2>1, <3>2
      <4>q. QED BY <2>1, <3>2, <4>1 DEF Proc
    <3>3. CASE proc' = [proc EXCEPT ![p].pc = "update", ![p].dirty = e]
      <4>1. proc'[p] = [proc[p] EXCEPT !.pc = "update", !.dirty = e]
        BY <2>1, <3>3
      <4>q. QED BY <2>1, <3>3, <4>1 DEF Proc
    <3>q. QED BY <1>1, <3>1, <3>2, <3>3
  <2>3. \A u \in Users : charged'[u] >= charged[u] /\ granted'[u] >= granted[u]
                         /\ charged'[u] \in Nat /\ granted'[u] \in Nat
    <3>1. charged \in [Users -> Nat] /\ granted \in [Users -> Nat]
      BY DEF Inv, TypeOK
    <3>q. QED BY <1>1, <3>1
  <2>q. QED BY <1>1, <2>2, <2>3, LedgerStays DEF Inv
<1>2. ASSUME NEW p \in Procs, Done(p), UNCHANGED <<debits, credits, charged, granted>>
      PROVE  LedgerInv'
  BY <1>1, <1>2, IdleTyped DEF Done
<1>3. ASSUME NEW p \in Procs, NEW op \in Ops, NEW u \in Users, Call(p, op, u)
      PROVE  LedgerInv'
  BY <1>1, <1>3, StartTyped DEF Call
<1>4. ASSUME NEW p \in Procs,
             DeductBookingFee(p) \/ AddFunds(p) \/ EditUser(p) \/ Select(p) \/ Lose(p)
      PROVE  LedgerInv'
  <2>1. CASE DeductBookingFee(p)
    BY <1>1, <1>2, <2>1 DEF DeductBookingFee
  <2>2. CASE AddFunds(p)
    BY <1>1, <2>2 DEF AddFunds
  <2>3. CASE EditUser(p)
    BY <1>1, <2>3 DEF EditUser
  <2>4. CASE Select(p)
    BY <1>1, <2>4 DEF Select
  <2>5. CASE Lose(p)
    BY <1>2, <2>5 DEF Lose
  <2>q. QED BY <1>4, <2>1, <2>2, <2>3, <2>4, <2>5
<1>5. CASE UNCHANGED vars
  BY <1>5 DEF vars, LedgerInv, Owing, Owes
<1>q. QED BY <1>3, <1>4, <1>5, UpdateLedger, RecordLedger DEF Next

\* The UPDATE and the INSERT of a movement are two statements, other movements
\* of the same wallet come between them and handlers are lost there: the ledger
\* still never reports more than was saved.
THEOREM LedgerIsBehind == Spec => []LedgerNeverAhead
<1>1. Inv /\ LedgerInv => LedgerNeverAhead
  <2> SUFFICES ASSUME Inv, LedgerInv, NEW u \in Users
               PROVE  debits[u] <= charged[u] /\ credits[u] * Bonus <= granted[u]
    BY DEF LedgerNeverAhead
  <2>1. /\ IsFiniteSet(Owing("fee", u)) /\ IsFiniteSet(Owing("funds", u))
        /\ debits[u] + Cardinality(Owing("fee", u)) <= charged[u]
        /\ (credits[u] + Cardinality(Owing("funds", u))) * Bonus <= granted[u]
    BY DEF LedgerInv
  <2>2. /\ debits[u] \in Nat /\ credits[u] \in Nat /\ charged[u] \in Nat
        /\ granted[u] \in Nat /\ Bonus \in Nat
    BY AmountsAssumption DEF Inv, TypeOK
  <2>3. PICK m \in Nat, n \in Nat :
          m = Cardinality(Owing("fee", u)) /\ n = Cardinality(Owing("funds", u))
    BY <2>1, FS_CardinalityType
  <2>4. credits[u] * Bonus <= (credits[u] + n) * Bonus
    BY <2>2
  <2>5. PICK x \in Int, y \in Int : x = credits[u] * Bonus /\ y = (credits[u] + n) * Bonus
    BY <2>2
  <2>6. x <= granted[u]
    BY <2>1, <2>2, <2>3, <2>4, <2>5
  <2>q. QED BY <2>1, <2>2, <2>3, <2>5, <2>6
<1>2. Spec => []LedgerInv
  BY InitLedger, StepLedger, Invariance, PTL DEF Spec
<1>q. QED BY <1>1, <1>2, Invariance, PTL
=============================================================================
