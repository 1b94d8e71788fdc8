------------------------------ MODULE CreditTx ------------------------------
(***************************************************************************)
(* The transactions of src/internal/credit/ledger.go statement by          *)
(* statement, as concurrent sessions of a Postgres database at isolation   *)
(* level READ COMMITTED:                                                   *)
(*  - a statement sees what was committed before it started, and the       *)
(*    writes of its own transaction;                                       *)
(*  - SELECT ... FOR UPDATE and UPDATE take the account's row lock and     *)
(*    hold it until the transaction ends;                                  *)
(*  - an INSERT whose unique key another transaction has inserted but not  *)
(*    committed waits for that transaction to end;                         *)
(*  - a failed statement, a lost connection and a crashed process all end  *)
(*    in a rollback.                                                       *)
(* Property Ledger!Spec: a session's commit is one step of CreditLedger,   *)
(* everything before it is invisible.                                      *)
(***************************************************************************)
EXTENDS Integers, Sequences

CONSTANTS Users, Gens, Events, Costs, GrantAmounts, PlanAmounts, MaxRows, NULL,
    Sessions       \* database connections of the pool, over all instances

ASSUME AmountsAssumption ==
    Costs \subseteq Nat \ {0} /\ GrantAmounts \subseteq Nat /\ PlanAmounts \subseteq Nat
ASSUME BoundAssumption == MaxRows \in Nat
ASSUME NullAssumption ==
    /\ NULL \notin Sessions \cup Gens \cup Events
    /\ \A u \in Users : NULL # <<"signup", u>>

VARIABLES
    accounts, monthly, addon, txs,   \* the committed tables, as in CreditLedger
    lock,          \* [Users -> holder of the account's row lock, or NULL]
    sess           \* [Sessions -> the transaction in progress]

tables == <<accounts, monthly, addon, txs>>
vars == <<accounts, monthly, addon, txs, lock, sess>>

Ledger == INSTANCE CreditLedger

(* A transaction is told apart by the type of the row it will write. user  *)
(* is NULL for a Refund that has not read the cost row; m and a are the    *)
(* arguments (a cost or an amount), snap the balances read under the lock, *)
(* new the balances its UPDATE wrote, written whether its row is inserted. *)
Idle == [pc |-> "idle", type |-> NULL, user |-> NULL, g |-> NULL, e |-> NULL,
         m |-> 0, a |-> 0, snapM |-> 0, snapA |-> 0, newM |-> 0, newA |-> 0,
         written |-> FALSE]

Init ==
    /\ Ledger!Init
    /\ lock = [u \in Users |-> NULL]
    /\ sess = [s \in Sessions |-> Idle]

-----------------------------------------------------------------------------
(* The deltas of the row a session inserts, from what it read.             *)

MonthlyDelta(t) ==
    CASE t.type = "generation_cost" -> -Ledger!MonthlyShare(t.snapM, t.m)
      [] t.type = "subscription_grant" -> t.m - t.snapM
      [] OTHER -> t.m

AddonDelta(t) ==
    IF t.type = "generation_cost" THEN Ledger!MonthlyShare(t.snapM, t.m) - t.m ELSE t.a

RowOf(t) ==
    [type |-> t.type, monthlyDelta |-> MonthlyDelta(t), addonDelta |-> AddonDelta(t),
     monthlyAfter |-> t.snapM + MonthlyDelta(t), addonAfter |-> t.snapA + AddonDelta(t),
     generationID |-> t.g, externalID |-> t.e]

(* Where a transaction goes after its locked read and after each write:    *)
(* GrantSignupBonus inserts its row before it touches the balance.         *)
AfterLock(t) == IF t.type = "signup_grant" THEN "insert" ELSE "update"
AfterUpdate(t) == IF t.type = "signup_grant" THEN "commit" ELSE "insert"
AfterInsert(t) == IF t.type = "signup_grant" THEN "update" ELSE "commit"

(* A faulty Release ends the session with its lock still held.             *)
ReleaseNothing(s) == UNCHANGED lock

(* End session s: every lock it holds is released, its writes vanish.      *)
Release(s) == lock' = [u \in Users |-> IF lock[u] = s THEN NULL ELSE lock[u]]

Rollback(s) ==
    /\ Release(s)
    /\ sess' = [sess EXCEPT ![s] = Idle]
    /\ UNCHANGED tables

-----------------------------------------------------------------------------
(* Calls. A caller checks its arguments before the transaction begins.     *)

Begin(s, t) ==
    /\ sess[s].pc = "idle"
    /\ sess' = [sess EXCEPT ![s] = t]
    /\ UNCHANGED <<accounts, monthly, addon, txs, lock>>

BeginSpend(s) ==
    \E u \in Users, cost \in Costs, g \in Gens :
        Begin(s, [Idle EXCEPT !.pc = "lock", !.type = "generation_cost",
                              !.user = u, !.m = cost, !.g = g])

BeginRefund(s) ==
    \E g \in Gens :
        Begin(s, [Idle EXCEPT !.pc = "count", !.type = "generation_refund", !.g = g])

BeginGrant(s) ==
    \E u \in Users, m, a \in GrantAmounts :
        /\ m + a > 0
        /\ Begin(s, [Idle EXCEPT !.pc = "ensure", !.type = "admin_grant",
                                 !.user = u, !.m = m, !.a = a])

BeginResetMonthly(s) ==
    \E u \in Users, amount \in PlanAmounts, e \in Events :
        Begin(s, [Idle EXCEPT !.pc = "ensure", !.type = "subscription_grant",
                              !.user = u, !.m = amount, !.e = e])

BeginSignupBonus(s) ==
    \E u \in Users, amount \in GrantAmounts :
        /\ amount > 0
        /\ Begin(s, [Idle EXCEPT !.pc = "ensure", !.type = "signup_grant",
                                 !.user = u, !.m = amount, !.e = Ledger!SignupKey(u)])

-----------------------------------------------------------------------------
(* Statements.                                                             *)

(* INSERT the account row ON CONFLICT DO NOTHING. An uncommitted row of    *)
(* another session makes it wait.                                          *)
Ensure(s) ==
    LET u == sess[s].user
    IN  /\ sess[s].pc = "ensure"
        /\ u \in accounts \/ lock[u] = NULL
        /\ lock' = IF u \in accounts THEN lock ELSE [lock EXCEPT ![u] = s]
        /\ sess' = [sess EXCEPT ![s].pc = "lock"]
        /\ UNCHANGED tables

(* Refund's fast path: SELECT count of refund rows; one is enough to stop. *)
CountRefunds(s) ==
    /\ sess[s].pc = "count"
    /\ IF Ledger!GenTypeTaken(sess[s].g, "generation_refund")
       THEN Rollback(s)
       ELSE /\ sess' = [sess EXCEPT ![s].pc = "find"]
            /\ UNCHANGED <<accounts, monthly, addon, txs, lock>>

(* SELECT the cost row: it names the user and the split to give back.      *)
FindCost(s) ==
    /\ sess[s].pc = "find"
    /\ \E u \in Users : \E i \in DOMAIN txs[u] :
          /\ txs[u][i].type = "generation_cost"
          /\ txs[u][i].generationID = sess[s].g
          /\ sess' = [sess EXCEPT ![s].pc = "lock", ![s].user = u,
                                  ![s].m = -txs[u][i].monthlyDelta,
                                  ![s].a = -txs[u][i].addonDelta]
          /\ UNCHANGED <<accounts, monthly, addon, txs, lock>>

(* Nothing was charged: nothing to give back.                              *)
FindNoCost(s) ==
    /\ sess[s].pc = "find"
    /\ ~Ledger!GenTypeTaken(sess[s].g, "generation_cost")
    /\ Rollback(s)

(* A faulty LockAccount leaves out FOR UPDATE.                             *)
ReadAccountUnlocked(s) ==
    LET u == sess[s].user
    IN  /\ sess[s].pc = "lock"
        /\ u \in accounts \/ lock[u] = s
        /\ Len(txs[u]) < MaxRows
        /\ \/ sess[s].type # "generation_cost"
           \/ monthly[u] + addon[u] >= sess[s].m
        /\ sess' = [sess EXCEPT ![s].pc = AfterLock(sess[s]),
                                ![s].snapM = monthly[u], ![s].snapA = addon[u]]
        /\ UNCHANGED <<accounts, monthly, addon, txs, lock>>

(* SELECT the account FOR UPDATE; the balances read are current once the   *)
(* lock is held.                                                           *)
LockAccount(s) ==
    LET u == sess[s].user
    IN  /\ sess[s].pc = "lock"
        /\ u \in accounts \/ lock[u] = s
        /\ lock[u] \in {NULL, s}
        /\ Len(txs[u]) < MaxRows
        /\ \/ sess[s].type # "generation_cost"
           \/ monthly[u] + addon[u] >= sess[s].m
        /\ lock' = [lock EXCEPT ![u] = s]
        /\ sess' = [sess EXCEPT ![s].pc = AfterLock(sess[s]),
                                ![s].snapM = monthly[u], ![s].snapA = addon[u]]
        /\ UNCHANGED tables

(* No account, or too few credits: ErrInsufficientCredits (for a refund    *)
(* without an account, the query's own error). The bound on the journal    *)
(* ends a transaction here too.                                            *)
LockInsufficient(s) ==
    LET u == sess[s].user
    IN  /\ sess[s].pc = "lock"
        /\ \/ u \notin accounts /\ lock[u] # s
           \/ /\ u \in accounts /\ lock[u] = NULL
              /\ sess[s].type = "generation_cost"
              /\ monthly[u] + addon[u] < sess[s].m
           \/ lock[u] \in {NULL, s} /\ Len(txs[u]) >= MaxRows
        /\ Rollback(s)

(* UPDATE the account: relative for every operation but ResetMonthly. It   *)
(* takes the row lock by itself, and Spend's carries its own condition.    *)
UpdateAccount(s) ==
    LET t == sess[s]
        u == t.user
        covered == monthly[u] + MonthlyDelta(t) >= 0 /\ addon[u] + AddonDelta(t) >= 0
    IN  /\ t.pc = "update"
        /\ lock[u] \in {NULL, s}
        /\ IF t.type = "generation_cost" /\ ~covered
           THEN Rollback(s)
           ELSE /\ lock' = [lock EXCEPT ![u] = s]
                /\ sess' = [sess EXCEPT
                     ![s].pc = AfterUpdate(t),
                     ![s].newM = IF t.type = "subscription_grant" THEN t.m
                                 ELSE monthly[u] + MonthlyDelta(t),
                     ![s].newA = addon[u] + AddonDelta(t)]
                /\ UNCHANGED tables

(* The two unique indexes, for the row session s is about to insert.       *)
KeyTaken(t) ==
    \/ t.g # NULL /\ Ledger!GenTypeTaken(t.g, t.type)
    \/ t.e # NULL /\ Ledger!ExtTypeTaken(t.e, t.type)

KeyInFlight(s) ==
    \E r \in Sessions \ {s} :
        /\ sess[r].written /\ sess[r].type = sess[s].type
        /\ \/ sess[r].g = sess[s].g /\ sess[s].g # NULL
           \/ sess[r].e = sess[s].e /\ sess[s].e # NULL

(* A faulty INSERT: there is no index and the earlier SELECT is trusted.   *)
InsertRowWithoutIndex(s) ==
    /\ sess[s].pc = "insert"
    /\ sess' = [sess EXCEPT ![s].pc = AfterInsert(sess[s]), ![s].written = TRUE]
    /\ UNCHANGED <<accounts, monthly, addon, txs, lock>>

(* INSERT the ledger row; a duplicate key aborts the transaction.          *)
InsertRow(s) ==
    /\ sess[s].pc = "insert"
    /\ ~KeyInFlight(s)
    /\ IF KeyTaken(sess[s])
       THEN Rollback(s)
       ELSE /\ sess' = [sess EXCEPT ![s].pc = AfterInsert(sess[s]), ![s].written = TRUE]
            /\ UNCHANGED <<accounts, monthly, addon, txs, lock>>

Commit(s) ==
    LET t == sess[s]
        u == t.user
    IN  /\ t.pc = "commit"
        /\ accounts' = accounts \cup {u}
        /\ monthly' = [monthly EXCEPT ![u] = t.newM]
        /\ addon' = [addon EXCEPT ![u] = t.newA]
        /\ txs' = [txs EXCEPT ![u] = Append(@, RowOf(t))]
        /\ Release(s)
        /\ sess' = [sess EXCEPT ![s] = Idle]

(* A statement fails, the connection is lost, or the process dies.         *)
Fail(s) == sess[s].pc # "idle" /\ Rollback(s)

Statement(s) ==
    \/ Ensure(s) \/ CountRefunds(s) \/ FindCost(s) \/ FindNoCost(s)
    \/ LockAccount(s) \/ LockInsufficient(s) \/ UpdateAccount(s) \/ InsertRow(s) \/ Commit(s)

Call(s) ==
    \/ BeginSpend(s) \/ BeginRefund(s) \/ BeginGrant(s)
    \/ BeginResetMonthly(s) \/ BeginSignupBonus(s)

Next == \E s \in Sessions : Call(s) \/ Statement(s) \/ Fail(s)

Spec == Init /\ [][Next]_vars

(* A waiting statement is served in turn: Postgres queues the waiters of a *)
(* row lock and of a unique key, so a lock that keeps being released is    *)
(* eventually theirs. Nothing is promised about failures.                  *)
FairSpec == Spec /\ \A s \in Sessions : SF_vars(Statement(s))

-----------------------------------------------------------------------------
(* Properties                                                              *)

(* Every variable has its type, and a lock is held by a session that works *)
(* on that user.                                                           *)
TypeOK ==
    /\ Ledger!TypeOK
    /\ lock \in [Users -> Sessions \cup {NULL}]
    /\ \A s \in Sessions :
          sess[s].pc \in {"idle", "ensure", "count", "find", "lock", "update", "insert", "commit"}
    /\ \A u \in Users : lock[u] # NULL => sess[lock[u]].user = u

(* What a transaction read under the lock stays true until it ends: the    *)
(* snapshot columns and planSpend's split are never computed from a stale  *)
(* balance.                                                                *)
LockedReadIsCurrent ==
    \A s \in Sessions :
        sess[s].pc \in {"update", "insert", "commit"} =>
            /\ sess[s].snapM = monthly[sess[s].user]
            /\ sess[s].snapA = addon[sess[s].user]

(* Seen from outside, every transaction happens at once or not at all.     *)
ImplementsLedger == Ledger!Spec

(* No deadlock and no starvation among the sessions: every transaction     *)
(* ends.                                                                   *)
EveryTransactionEnds == \A s \in Sessions : sess[s].pc # "idle" ~> sess[s].pc = "idle"
=============================================================================
