--------------------------- MODULE CreditTxProofs ---------------------------
(***************************************************************************)
(* The ledger's transactions, statement by statement and with any number   *)
(* of sessions, implement the ledger whose operations are single steps.    *)
(***************************************************************************)
EXTENDS CreditTx, TLAPS

Transaction ==
    [pc : {"idle", "ensure", "count", "find", "lock", "update", "insert", "commit"},
     type : Ledger!TxTypes \cup {NULL}, user : Users \cup {NULL},
     g : Gens \cup {NULL}, e : Ledger!ExternalIDs \cup {NULL},
     m : Int, a : Int, snapM : Int, snapA : Int, newM : Int, newA : Int,
     written : BOOLEAN]

LockedPcs == {"update", "insert", "commit"}

(* What the arguments of each operation are, and where it may be.          *)
SpendArgs(t) ==
    /\ t.type = "generation_cost" /\ t.pc \in {"lock"} \cup LockedPcs
    /\ t.user \in Users /\ t.m \in Costs /\ t.g \in Gens /\ t.e = NULL

RefundArgs(t) ==
    /\ t.type = "generation_refund" /\ t.pc \in {"count", "find", "lock"} \cup LockedPcs
    /\ t.pc \notin {"count", "find"} => t.user \in Users
    /\ t.g \in Gens /\ t.e = NULL

GrantArgs(t) ==
    /\ t.type = "admin_grant" /\ t.pc \in {"ensure", "lock"} \cup LockedPcs
    /\ t.user \in Users /\ t.m \in GrantAmounts /\ t.a \in GrantAmounts /\ t.m + t.a > 0
    /\ t.g = NULL /\ t.e = NULL

ResetArgs(t) ==
    /\ t.type = "subscription_grant" /\ t.pc \in {"ensure", "lock"} \cup LockedPcs
    /\ t.user \in Users /\ t.m \in PlanAmounts /\ t.a = 0 /\ t.g = NULL /\ t.e \in Events

SignupArgs(t) ==
    /\ t.type = "signup_grant" /\ t.pc \in {"ensure", "lock"} \cup LockedPcs
    /\ t.user \in Users /\ t.m \in GrantAmounts /\ t.m > 0 /\ t.a = 0
    /\ t.g = NULL /\ t.e = Ledger!SignupKey(t.user)

ArgsOK(t) ==
    \/ t = Idle
    \/ SpendArgs(t) \/ RefundArgs(t) \/ GrantArgs(t) \/ ResetArgs(t) \/ SignupArgs(t)

(* Past its locked read a transaction holds the account's lock, and what   *)
(* it has found out is still so.                                           *)
Current(t) ==
    /\ t.snapM = monthly[t.user] /\ t.snapA = addon[t.user]
    /\ Len(txs[t.user]) < MaxRows
    /\ t.type \in {"generation_cost", "generation_refund"} => t.user \in accounts
    /\ t.type = "generation_cost" => monthly[t.user] + addon[t.user] >= t.m

HeldOK(s, t) == t.pc \in LockedPcs => lock[t.user] = s /\ Current(t)

(* What its UPDATE wrote is what its row says, and it commits with both.   *)
WrittenOK(t) ==
    /\ t.pc = "commit" \/ (t.pc = "insert" /\ t.type # "signup_grant") =>
          t.newM = t.snapM + MonthlyDelta(t) /\ t.newA = t.snapA + AddonDelta(t)
    /\ t.pc = "commit" \/ (t.pc = "update" /\ t.type = "signup_grant") => t.written
    /\ t.written => ~KeyTaken(t)

(* The charge a refund has found is there to stay.                         *)
ChargeOf(t, i) ==
    /\ txs[t.user][i].type = "generation_cost"
    /\ txs[t.user][i].generationID = t.g
    /\ txs[t.user][i].monthlyDelta = -t.m
    /\ txs[t.user][i].addonDelta = -t.a

RefundOK(t) ==
    t.type = "generation_refund" /\ t.pc \in {"lock"} \cup LockedPcs =>
        \E i \in DOMAIN txs[t.user] : ChargeOf(t, i)

TxOK(s, t) == t \in Transaction /\ ArgsOK(t) /\ HeldOK(s, t) /\ WrittenOK(t) /\ RefundOK(t)

(* Who holds a lock works on that account, and has it from the INSERT of   *)
(* the account's row or from the locked read.                              *)
OwnerOK(t, u) ==
    /\ t.user = u /\ t.pc \in {"lock"} \cup LockedPcs
    /\ t.pc = "lock" => t.type \notin {"generation_cost", "generation_refund"}

(* Two rows on the way to the tables never share a key.                    *)
Apart(t, q) ==
    t.written /\ q.written /\ t.type = q.type =>
        ~(t.g = q.g /\ t.g # NULL) /\ ~(t.e = q.e /\ t.e # NULL)

TypeInv == Ledger!TypeOK /\ lock \in [Users -> Sessions \cup {NULL}] /\ sess \in [Sessions -> Transaction]
Transactions == \A s \in Sessions : TxOK(s, sess[s])
Owners == \A u \in Users : lock[u] # NULL => OwnerOK(sess[lock[u]], u)
KeysApart == \A s \in Sessions : \A r \in Sessions \ {s} : Apart(sess[s], sess[r])

IInv == TypeInv /\ Transactions /\ Owners /\ KeysApart

-----------------------------------------------------------------------------
(* What a transaction writes                                               *)

(* Of an idle session there is nothing to say.                             *)
LEMMA IdleOK ==
    /\ Idle \in Transaction /\ Idle.pc = "idle" /\ Idle.written = FALSE
    /\ \A s : TxOK(s, Idle)
<1>1. Idle \in Transaction /\ Idle.pc = "idle" /\ Idle.written = FALSE
  BY DEF Idle, Transaction
<1> QED BY <1>1 DEF TxOK, ArgsOK, HeldOK, LockedPcs, WrittenOK, RefundOK

(* The deltas of each kind of row.                                         *)
LEMMA Deltas ==
    ASSUME NEW t \in Transaction
    PROVE  /\ MonthlyDelta(t) \in Int /\ AddonDelta(t) \in Int
           /\ t.type = "generation_cost" =>
                 /\ MonthlyDelta(t) = -Ledger!MonthlyShare(t.snapM, t.m)
                 /\ AddonDelta(t) = Ledger!MonthlyShare(t.snapM, t.m) - t.m
           /\ t.type = "subscription_grant" => MonthlyDelta(t) = t.m - t.snapM
           /\ t.type \notin {"generation_cost", "subscription_grant"} => MonthlyDelta(t) = t.m
           /\ t.type # "generation_cost" => AddonDelta(t) = t.a
<1>1. /\ t.m \in Int /\ t.a \in Int /\ t.snapM \in Int
      /\ Ledger!MonthlyShare(t.snapM, t.m) \in Int
  BY DEF Transaction, Ledger!MonthlyShare
<1> QED BY <1>1 DEF MonthlyDelta, AddonDelta

-----------------------------------------------------------------------------
(* How sessions begin, go on and end                                       *)

(* The invariant holds before any session.                                 *)
LEMMA InitIInv == Init => IInv
<1> SUFFICES ASSUME Init PROVE IInv
  OBVIOUS
<1>1. Ledger!TypeOK
  BY DEF Init, Ledger!Init, Ledger!TypeOK
<1>2. TypeInv /\ Transactions
  BY <1>1, IdleOK DEF Init, TypeInv, Transactions
<1>3. Owners /\ KeysApart
  BY IdleOK DEF Init, Owners, KeysApart, Apart
<1> QED BY <1>2, <1>3 DEF IInv

(* A transaction that has read its account names it.                       *)
LEMMA UserKnown ==
    ASSUME NEW t, ArgsOK(t), t.pc \notin {"idle", "count", "find"}
    PROVE  t.user \in Users
BY IdleOK DEF ArgsOK, SpendArgs, RefundArgs, GrantArgs, ResetArgs, SignupArgs

(* A step of another session that leaves the tables and this one's locks.  *)
LEMMA Unmoved ==
    ASSUME IInv, NEW r \in Sessions, sess'[r] = sess[r], TypeInv',
           UNCHANGED <<accounts, monthly, addon, txs>>,
           \A u \in Users : lock[u] = r => lock'[u] = r
    PROVE  TxOK(r, sess[r])'
<1>1. TxOK(r, sess[r])
  BY DEF IInv, Transactions
<1>2. ArgsOK(sess[r])'
  BY <1>1 DEF TxOK, ArgsOK, SpendArgs, RefundArgs, GrantArgs, ResetArgs, SignupArgs
<1>3. HeldOK(r, sess[r])'
  <2>1. sess[r].pc \in LockedPcs => sess[r].user \in Users
    BY <1>1, UserKnown DEF TxOK, LockedPcs
  <2> QED BY <1>1, <2>1 DEF TxOK, HeldOK, Current
<1>4. WrittenOK(sess[r])' /\ RefundOK(sess[r])'
  BY <1>1
  DEF TxOK, WrittenOK, KeyTaken, Ledger!GenTypeTaken, Ledger!ExtTypeTaken, RefundOK, ChargeOf,
      MonthlyDelta, AddonDelta
<1> QED BY <1>2, <1>3, <1>4 DEF TxOK, TypeInv

(* A statement that leaves the tables alone: it concerns its own session,  *)
(* and may take a free lock on the account that session works on.          *)
LEMMA LocalStep ==
    ASSUME IInv, NEW s \in Sessions, NEW t \in Transaction,
           sess' = [sess EXCEPT ![s] = t], UNCHANGED tables,
           \/ lock' = lock
           \/ /\ t.user \in Users /\ lock[t.user] \in {NULL, s}
              /\ lock' = [lock EXCEPT ![t.user] = s]
              /\ OwnerOK(t, t.user),
           ArgsOK(t), WrittenOK(t), RefundOK(t),
           t.pc \in LockedPcs => lock'[t.user] = s /\ Current(t),
           \A u \in Users : lock[u] = s => OwnerOK(t, u),
           \A r \in Sessions \ {s} : Apart(t, sess[r]) /\ Apart(sess[r], t)
    PROVE  IInv'
<1>1. /\ Ledger!TypeOK /\ lock \in [Users -> Sessions \cup {NULL}]
      /\ sess \in [Sessions -> Transaction]
      /\ UNCHANGED <<accounts, monthly, addon, txs>>
  BY DEF IInv, TypeInv, tables
<1>2. TypeInv'
  <2>1. Ledger!TypeOK'
    BY <1>1 DEF Ledger!TypeOK
  <2> QED BY <1>1, <2>1 DEF TypeInv
<1>3. \A r \in Sessions \ {s} : sess'[r] = sess[r]
  BY <1>1
<1>4. sess'[s] = t
  BY <1>1
<1>5. \A u \in Users : lock[u] \in Sessions \ {s} => lock'[u] = lock[u]
  BY <1>1, NullAssumption
<1>6. \A u \in Users : lock'[u] = lock[u] \/ (lock'[u] = s /\ OwnerOK(t, u))
  BY <1>1
<1>7. Transactions'
  <2>1. ASSUME NEW r \in Sessions PROVE TxOK(r, sess[r])'
    <3>1. ASSUME r = s PROVE TxOK(r, sess[r])'
      <4>1. ArgsOK(sess[r])'
        BY <1>4, <3>1 DEF ArgsOK, SpendArgs, RefundArgs, GrantArgs, ResetArgs, SignupArgs
      <4>2. HeldOK(r, sess[r])'
        BY <1>1, <1>4, <3>1 DEF HeldOK, Current
      <4>3. WrittenOK(sess[r])' /\ RefundOK(sess[r])'
        BY <1>1, <1>4, <3>1
        DEF WrittenOK, KeyTaken, Ledger!GenTypeTaken, Ledger!ExtTypeTaken, RefundOK, ChargeOf,
            MonthlyDelta, AddonDelta
      <4> QED BY <1>4, <3>1, <4>1, <4>2, <4>3 DEF TxOK
    <3>2. ASSUME r # s PROVE TxOK(r, sess[r])'
      BY <1>1, <1>2, <1>3, <1>5, <3>2, Unmoved
    <3> QED BY <3>1, <3>2
  <2> QED BY <2>1 DEF Transactions
<1>8. Owners'
  <2> SUFFICES ASSUME NEW u \in Users, lock'[u] # NULL PROVE OwnerOK(sess'[lock'[u]], u)
    BY DEF Owners, OwnerOK
  <2>1. CASE lock'[u] = s
    BY <1>4, <1>6, <2>1
  <2>2. CASE lock'[u] # s
    BY <1>1, <1>3, <1>6, <2>2 DEF IInv, Owners
  <2> QED BY <2>1, <2>2
<1>9. KeysApart'
  <2> SUFFICES ASSUME NEW p \in Sessions, NEW q \in Sessions \ {p} PROVE Apart(sess'[p], sess'[q])
    BY DEF KeysApart, Apart
  <2> QED BY <1>3, <1>4 DEF IInv, KeysApart
<1> QED BY <1>2, <1>7, <1>8, <1>9 DEF IInv

(* The end of a session sets its locks free.                               *)
LEMMA SessionEnds ==
    ASSUME IInv, NEW s \in Sessions, Release(s), sess' = [sess EXCEPT ![s] = Idle]
    PROVE  /\ lock' \in [Users -> Sessions \cup {NULL}] /\ sess' \in [Sessions -> Transaction]
           /\ \A u \in Users : lock[u] # s => lock'[u] = lock[u]
           /\ Owners' /\ KeysApart'
<1>1. /\ lock \in [Users -> Sessions \cup {NULL}] /\ sess \in [Sessions -> Transaction]
      /\ lock' = [u \in Users |-> IF lock[u] = s THEN NULL ELSE lock[u]]
  BY DEF IInv, TypeInv, Release
<1>2. /\ lock' \in [Users -> Sessions \cup {NULL}] /\ sess' \in [Sessions -> Transaction]
      /\ \A u \in Users : lock[u] # s => lock'[u] = lock[u]
  BY <1>1, IdleOK
<1>3. Owners'
  <2> SUFFICES ASSUME NEW u \in Users, lock'[u] # NULL PROVE OwnerOK(sess'[lock'[u]], u)
    BY DEF Owners, OwnerOK
  <2>1. lock'[u] = lock[u] /\ lock[u] # s /\ lock[u] \in Sessions
    BY <1>1
  <2> QED BY <1>1, <2>1 DEF IInv, Owners
<1>4. KeysApart'
  <2> SUFFICES ASSUME NEW p \in Sessions, NEW q \in Sessions \ {p} PROVE Apart(sess'[p], sess'[q])
    BY DEF KeysApart, Apart
  <2>1. \A t : Apart(Idle, t) /\ Apart(t, Idle)
    BY IdleOK DEF Apart
  <2> QED BY <1>1, <2>1 DEF IInv, KeysApart
<1> QED BY <1>2, <1>3, <1>4

(* A rollback keeps the invariant: it only gives locks back.               *)
LEMMA RollbackIInv ==
    ASSUME IInv, NEW s \in Sessions, Rollback(s)
    PROVE  IInv'
<1>1. /\ Release(s) /\ sess' = [sess EXCEPT ![s] = Idle]
      /\ UNCHANGED <<accounts, monthly, addon, txs>>
      /\ Ledger!TypeOK /\ sess \in [Sessions -> Transaction]
  BY DEF Rollback, tables, IInv, TypeInv
<1>2. Ledger!TypeOK'
  BY <1>1 DEF Ledger!TypeOK
<1>3. TypeInv'
  BY <1>1, <1>2, SessionEnds DEF TypeInv
<1>4. ASSUME NEW r \in Sessions PROVE TxOK(r, sess[r])'
  <2>1. ASSUME r = s PROVE TxOK(r, sess[r])'
    <3>1. sess'[r] = Idle
      BY <1>1, <2>1
    <3> QED BY <3>1, IdleOK DEF TxOK, ArgsOK, HeldOK, LockedPcs, WrittenOK, RefundOK
  <2>2. ASSUME r # s PROVE TxOK(r, sess[r])'
    <3>1. sess'[r] = sess[r] /\ \A u \in Users : lock[u] = r => lock'[u] = r
      BY <1>1, <2>2, SessionEnds
    <3> QED BY <1>1, <1>3, <3>1, Unmoved
  <2> QED BY <2>1, <2>2
<1>5. Transactions'
  BY <1>4 DEF Transactions
<1> QED BY <1>1, <1>3, <1>5, SessionEnds DEF IInv

-----------------------------------------------------------------------------
(* Calls                                                                   *)

(* A new transaction holds no lock and has written nothing.                *)
LEMMA BeginIInv ==
    ASSUME IInv, NEW s \in Sessions, NEW t \in Transaction, Begin(s, t), ArgsOK(t),
           t.pc \in {"ensure", "count", "lock"}, t.written = FALSE,
           t.type = "generation_refund" => t.pc = "count"
    PROVE  IInv'
<1>1. sess[s].pc = "idle" /\ sess' = [sess EXCEPT ![s] = t] /\ UNCHANGED <<tables, lock>>
  BY DEF Begin, tables
<1>2. \A u \in Users : lock[u] # s
  BY <1>1, NullAssumption DEF IInv, Owners, OwnerOK, LockedPcs
<1>3. WrittenOK(t) /\ RefundOK(t) /\ t.pc \notin LockedPcs
  BY DEF WrittenOK, RefundOK, LockedPcs
<1>4. \A q : Apart(t, q) /\ Apart(q, t)
  BY DEF Apart
<1> QED BY <1>1, <1>2, <1>3, <1>4, LocalStep

(* Each operation begins with arguments of its type.                       *)
LEMMA CallIInv ==
    ASSUME IInv, NEW s \in Sessions, Call(s)
    PROVE  IInv'
<1> USE DEF Idle, Transaction, LockedPcs, Ledger!TxTypes, Ledger!ExternalIDs
<1>1. Costs \subseteq Int /\ GrantAmounts \subseteq Int /\ PlanAmounts \subseteq Int /\ 0 \in Int
  BY AmountsAssumption
<1>2. ASSUME BeginSpend(s) PROVE IInv'
  <2> PICK u \in Users, cost \in Costs, g \in Gens :
        Begin(s, [Idle EXCEPT !.pc = "lock", !.type = "generation_cost",
                              !.user = u, !.m = cost, !.g = g])
    BY <1>2 DEF BeginSpend
  <2> DEFINE t == [Idle EXCEPT !.pc = "lock", !.type = "generation_cost",
                               !.user = u, !.m = cost, !.g = g]
  <2>1. t \in Transaction /\ SpendArgs(t) /\ t.pc = "lock" /\ t.written = FALSE
    BY <1>1 DEF SpendArgs
  <2> QED BY <2>1, BeginIInv DEF ArgsOK, SpendArgs
<1>3. ASSUME BeginRefund(s) PROVE IInv'
  <2> PICK g \in Gens :
        Begin(s, [Idle EXCEPT !.pc = "count", !.type = "generation_refund", !.g = g])
    BY <1>3 DEF BeginRefund
  <2> DEFINE t == [Idle EXCEPT !.pc = "count", !.type = "generation_refund", !.g = g]
  <2>1. t \in Transaction /\ RefundArgs(t) /\ t.pc = "count" /\ t.written = FALSE
    BY <1>1 DEF RefundArgs
  <2> QED BY <2>1, BeginIInv DEF ArgsOK, RefundArgs
<1>4. ASSUME BeginGrant(s) PROVE IInv'
  <2> PICK u \in Users, m \in GrantAmounts, a \in GrantAmounts :
        /\ m + a > 0
        /\ Begin(s, [Idle EXCEPT !.pc = "ensure", !.type = "admin_grant",
                                 !.user = u, !.m = m, !.a = a])
    BY <1>4 DEF BeginGrant
  <2> DEFINE t == [Idle EXCEPT !.pc = "ensure", !.type = "admin_grant",
                               !.user = u, !.m = m, !.a = a]
  <2>1. t \in Transaction /\ GrantArgs(t) /\ t.pc = "ensure" /\ t.written = FALSE
    BY <1>1 DEF GrantArgs
  <2> QED BY <2>1, BeginIInv DEF ArgsOK, GrantArgs
<1>5. ASSUME BeginResetMonthly(s) PROVE IInv'
  <2> PICK u \in Users, amount \in PlanAmounts, e \in Events :
        Begin(s, [Idle EXCEPT !.pc = "ensure", !.type = "subscription_grant",
                              !.user = u, !.m = amount, !.e = e])
    BY <1>5 DEF BeginResetMonthly
  <2> DEFINE t == [Idle EXCEPT !.pc = "ensure", !.type = "subscription_grant",
                               !.user = u, !.m = amount, !.e = e]
  <2>1. t \in Transaction /\ ResetArgs(t) /\ t.pc = "ensure" /\ t.written = FALSE
    BY <1>1 DEF ResetArgs
  <2> QED BY <2>1, BeginIInv DEF ArgsOK, ResetArgs
<1>6. ASSUME BeginSignupBonus(s) PROVE IInv'
  <2> PICK u \in Users, amount \in GrantAmounts :
        /\ amount > 0
        /\ Begin(s, [Idle EXCEPT !.pc = "ensure", !.type = "signup_grant",
                                 !.user = u, !.m = amount, !.e = Ledger!SignupKey(u)])
    BY <1>6 DEF BeginSignupBonus
  <2> DEFINE t == [Idle EXCEPT !.pc = "ensure", !.type = "signup_grant",
                               !.user = u, !.m = amount, !.e = Ledger!SignupKey(u)]
  <2>1. t \in Transaction /\ SignupArgs(t) /\ t.pc = "ensure" /\ t.written = FALSE
    BY <1>1 DEF SignupArgs
  <2> QED BY <2>1, BeginIInv DEF ArgsOK, SignupArgs
<1> QED BY <1>2, <1>3, <1>4, <1>5, <1>6 DEF Call

-----------------------------------------------------------------------------
(* Statements                                                              *)

(* What a session knows before its next statement.                         *)
LEMMA Session ==
    ASSUME IInv, NEW s \in Sessions
    PROVE  /\ sess[s] \in Transaction /\ TxOK(s, sess[s])
           /\ \A u \in Users : lock[u] = s => OwnerOK(sess[s], u)
           /\ \A r \in Sessions \ {s} : Apart(sess[s], sess[r]) /\ Apart(sess[r], sess[s])
BY NullAssumption DEF IInv, TypeInv, Transactions, Owners, KeysApart

(* Making an account row locks it, if nobody else does.                    *)
LEMMA EnsureIInv ==
    ASSUME IInv, NEW s \in Sessions, Ensure(s)
    PROVE  IInv'
<1> DEFINE t == [sess[s] EXCEPT !.pc = "lock"]
           u == sess[s].user
<1>1. /\ sess[s].pc = "ensure" /\ sess' = [sess EXCEPT ![s].pc = "lock"] /\ UNCHANGED tables
      /\ lock' = lock \/ (lock[u] = NULL /\ lock' = [lock EXCEPT ![u] = s])
      /\ sess \in [Sessions -> Transaction] /\ sess[s] \in Transaction
  BY Session DEF Ensure, IInv, TypeInv
<1>2. sess' = [sess EXCEPT ![s] = t]
  BY <1>1
<1>3. /\ t \in Transaction /\ t.pc = "lock"
      /\ t.type = sess[s].type /\ t.user = u /\ t.written = sess[s].written
      /\ t.g = sess[s].g /\ t.e = sess[s].e /\ t.m = sess[s].m /\ t.a = sess[s].a
  BY <1>1 DEF Transaction
<1>4. u \in Users /\ ArgsOK(t) /\ t.type \notin {"generation_cost", "generation_refund"}
  BY <1>1, <1>3, Session, IdleOK
  DEF TxOK, ArgsOK, SpendArgs, RefundArgs, GrantArgs, ResetArgs, SignupArgs, LockedPcs
<1>5. WrittenOK(t) /\ RefundOK(t) /\ t.pc \notin LockedPcs /\ OwnerOK(t, u)
  BY <1>1, <1>3, <1>4, Session DEF TxOK, WrittenOK, KeyTaken, RefundOK, LockedPcs, OwnerOK
<1>6. \A v \in Users : lock[v] # s
  BY <1>1, Session DEF OwnerOK, LockedPcs
<1>7. \A r \in Sessions \ {s} : Apart(t, sess[r]) /\ Apart(sess[r], t)
  BY <1>3, Session DEF Apart
<1> HIDE DEF t
<1> QED BY <1>1, <1>2, <1>3, <1>4, <1>5, <1>6, <1>7, LocalStep

(* The count of refunds decides whether there is anything to refund.       *)
LEMMA CountRefundsIInv ==
    ASSUME IInv, NEW s \in Sessions, CountRefunds(s)
    PROVE  IInv'
<1>1. ASSUME Rollback(s) PROVE IInv'
  BY <1>1, RollbackIInv
<1>2. ASSUME sess' = [sess EXCEPT ![s].pc = "find"], UNCHANGED <<tables, lock>> PROVE IInv'
  <2> DEFINE t == [sess[s] EXCEPT !.pc = "find"]
  <2>1. sess[s].pc = "count" /\ sess \in [Sessions -> Transaction] /\ sess[s] \in Transaction
    BY Session DEF CountRefunds, IInv, TypeInv
  <2>2. sess' = [sess EXCEPT ![s] = t]
    BY <1>2, <2>1
  <2>3. /\ t \in Transaction /\ t.pc = "find"
        /\ t.type = sess[s].type /\ t.user = sess[s].user /\ t.written = sess[s].written
        /\ t.g = sess[s].g /\ t.e = sess[s].e
    BY <2>1 DEF Transaction
  <2>4. ArgsOK(t)
    BY <2>1, <2>3, Session, IdleOK
    DEF TxOK, ArgsOK, SpendArgs, RefundArgs, GrantArgs, ResetArgs, SignupArgs, LockedPcs
  <2>5. WrittenOK(t) /\ RefundOK(t) /\ t.pc \notin LockedPcs
    BY <2>1, <2>3, Session DEF TxOK, WrittenOK, KeyTaken, RefundOK, LockedPcs
  <2>6. \A v \in Users : lock[v] # s
    BY <2>1, Session DEF OwnerOK, LockedPcs
  <2>7. \A r \in Sessions \ {s} : Apart(t, sess[r]) /\ Apart(sess[r], t)
    BY <2>3, Session DEF Apart
  <2> HIDE DEF t
  <2> QED BY <1>2, <2>2, <2>3, <2>4, <2>5, <2>6, <2>7, LocalStep
<1> QED BY <1>1, <1>2 DEF CountRefunds, tables

(* The charge a refund reads is committed and is never changed.            *)
LEMMA FindCostIInv ==
    ASSUME IInv, NEW s \in Sessions, FindCost(s)
    PROVE  IInv'
<1> PICK u \in Users : \E i \in DOMAIN txs[u] :
        /\ txs[u][i].type = "generation_cost"
        /\ txs[u][i].generationID = sess[s].g
        /\ sess' = [sess EXCEPT ![s].pc = "lock", ![s].user = u,
                                ![s].m = -txs[u][i].monthlyDelta,
                                ![s].a = -txs[u][i].addonDelta]
        /\ UNCHANGED <<accounts, monthly, addon, txs, lock>>
  BY DEF FindCost
<1> PICK i \in DOMAIN txs[u] :
        /\ txs[u][i].type = "generation_cost"
        /\ txs[u][i].generationID = sess[s].g
        /\ sess' = [sess EXCEPT ![s].pc = "lock", ![s].user = u,
                                ![s].m = -txs[u][i].monthlyDelta,
                                ![s].a = -txs[u][i].addonDelta]
        /\ UNCHANGED <<accounts, monthly, addon, txs, lock>>
  OBVIOUS
<1> DEFINE m == -txs[u][i].monthlyDelta
           a == -txs[u][i].addonDelta
           t == [sess[s] EXCEPT !.pc = "lock", !.user = u, !.m = m, !.a = a]
<1>1. sess[s].pc = "find" /\ sess \in [Sessions -> Transaction] /\ sess[s] \in Transaction
  BY Session DEF FindCost, IInv, TypeInv
<1>2. m \in Int /\ a \in Int /\ txs[u][i].monthlyDelta = -m /\ txs[u][i].addonDelta = -a
  <2>1. txs[u] \in Seq(Ledger!CreditTransaction) /\ i \in DOMAIN txs[u]
    BY DEF IInv, TypeInv, Ledger!TypeOK
  <2>2. txs[u][i] \in Ledger!CreditTransaction
    BY <2>1
  <2>3. txs[u][i].monthlyDelta \in Int /\ txs[u][i].addonDelta \in Int
    BY <2>2 DEF Ledger!CreditTransaction
  <2> QED BY <2>3
<1>3. sess' = [sess EXCEPT ![s].pc = "lock", ![s].user = u, ![s].m = m, ![s].a = a]
  OBVIOUS
<1> HIDE DEF m, a
<1>4. sess' = [sess EXCEPT ![s] = t]
  BY <1>1, <1>3
<1>5. /\ t \in Transaction /\ t.pc = "lock" /\ t.user = u /\ t.m = m /\ t.a = a
      /\ t.type = sess[s].type /\ t.written = sess[s].written
      /\ t.g = sess[s].g /\ t.e = sess[s].e
  BY <1>1, <1>2 DEF Transaction
<1> HIDE DEF t
<1>6. ArgsOK(t)
  BY <1>1, <1>5, Session, IdleOK
  DEF TxOK, ArgsOK, SpendArgs, RefundArgs, GrantArgs, ResetArgs, SignupArgs, LockedPcs
<1>7. WrittenOK(t) /\ t.pc \notin LockedPcs
  BY <1>1, <1>5, Session DEF TxOK, WrittenOK, KeyTaken, LockedPcs
<1>8. RefundOK(t)
  BY <1>2, <1>5 DEF RefundOK, ChargeOf
<1>9. \A v \in Users : lock[v] # s
  BY <1>1, Session DEF OwnerOK, LockedPcs
<1>10. \A r \in Sessions \ {s} : Apart(t, sess[r]) /\ Apart(sess[r], t)
  BY <1>5, Session DEF Apart
<1> QED BY <1>4, <1>5, <1>6, <1>7, <1>8, <1>9, <1>10, LocalStep DEF tables

(* The locked read is of the balances as they are, and refuses a charge    *)
(* the account does not cover.                                             *)
LEMMA LockAccountIInv ==
    ASSUME IInv, NEW s \in Sessions, LockAccount(s)
    PROVE  IInv'
<1> DEFINE u == sess[s].user
           pc == AfterLock(sess[s])
           t == [sess[s] EXCEPT !.pc = pc, !.snapM = monthly[u], !.snapA = addon[u]]
<1>1. /\ sess[s].pc = "lock" /\ sess[s] \in Transaction /\ sess \in [Sessions -> Transaction]
      /\ ArgsOK(sess[s]) /\ RefundOK(sess[s]) /\ WrittenOK(sess[s])
      /\ lock \in [Users -> Sessions \cup {NULL}]
      /\ UNCHANGED tables /\ lock[u] \in {NULL, s} /\ lock' = [lock EXCEPT ![u] = s]
      /\ u \in accounts \/ lock[u] = s
      /\ Len(txs[u]) < MaxRows
      /\ sess[s].type = "generation_cost" => monthly[u] + addon[u] >= sess[s].m
  BY Session DEF LockAccount, IInv, TypeInv, TxOK
<1>2. u \in Users
  BY <1>1, UserKnown
<1>3. monthly[u] \in Int /\ addon[u] \in Int
  BY <1>2 DEF IInv, TypeInv, Ledger!TypeOK
<1>4. sess' = [sess EXCEPT ![s] = t]
  BY <1>1 DEF LockAccount
<1>5. pc \in {"insert", "update"} /\ ((pc = "insert") <=> (sess[s].type = "signup_grant"))
  BY DEF AfterLock
<1> HIDE DEF pc
<1>6. /\ t \in Transaction /\ t.pc = pc /\ t.snapM = monthly[u] /\ t.snapA = addon[u]
      /\ t.type = sess[s].type /\ t.user = u /\ t.written = sess[s].written
      /\ t.g = sess[s].g /\ t.e = sess[s].e /\ t.m = sess[s].m /\ t.a = sess[s].a
  BY <1>1, <1>3, <1>5 DEF Transaction
<1> HIDE DEF t
<1>7. ArgsOK(t)
  BY <1>1, <1>5, <1>6, IdleOK
  DEF ArgsOK, SpendArgs, RefundArgs, GrantArgs, ResetArgs, SignupArgs, LockedPcs
<1>8. WrittenOK(t)
  BY <1>1, <1>5, <1>6 DEF WrittenOK, KeyTaken
<1>9. RefundOK(t)
  BY <1>1, <1>5, <1>6 DEF RefundOK, ChargeOf, LockedPcs
<1>10. Current(t)
  <2>1. t.type \in {"generation_cost", "generation_refund"} => u \in accounts
    BY <1>1, <1>2, <1>6, Session DEF OwnerOK
  <2> QED BY <1>1, <1>6, <2>1 DEF Current
<1>11. \A v \in Users : lock[v] = s => OwnerOK(t, v)
  BY <1>1, <1>5, <1>6, Session DEF OwnerOK, LockedPcs
<1>12. OwnerOK(t, u) /\ lock'[u] = s
  BY <1>1, <1>2, <1>5, <1>6 DEF OwnerOK, LockedPcs
<1>13. \A r \in Sessions \ {s} : Apart(t, sess[r]) /\ Apart(sess[r], t)
  BY <1>6, Session DEF Apart
<1> HIDE DEF u
<1> QED BY <1>1, <1>2, <1>4, <1>6, <1>7, <1>8, <1>9, <1>10, <1>11, <1>12, <1>13, LocalStep

(* The UPDATE finds the balances the locked read returned, so what it      *)
(* writes agrees with the row.                                             *)
LEMMA UpdateAccountIInv ==
    ASSUME IInv, NEW s \in Sessions, UpdateAccount(s)
    PROVE  IInv'
<1> DEFINE q == sess[s]
           u == q.user
           newM == IF q.type = "subscription_grant" THEN q.m ELSE monthly[u] + MonthlyDelta(q)
           newA == addon[u] + AddonDelta(q)
           t == [q EXCEPT !.pc = AfterUpdate(q), !.newM = newM, !.newA = newA]
<1>1. ASSUME Rollback(s) PROVE IInv'
  BY <1>1, RollbackIInv
<1>2. ASSUME lock' = [lock EXCEPT ![u] = s], UNCHANGED tables,
             sess' = [sess EXCEPT ![s].pc = AfterUpdate(q), ![s].newM = newM, ![s].newA = newA]
      PROVE  IInv'
  <2>1. /\ q.pc = "update" /\ q \in Transaction /\ sess \in [Sessions -> Transaction]
        /\ ArgsOK(q) /\ RefundOK(q) /\ WrittenOK(q) /\ lock[u] = s /\ Current(q)
        /\ lock \in [Users -> Sessions \cup {NULL}]
    BY Session DEF UpdateAccount, IInv, TypeInv, TxOK, HeldOK, LockedPcs
  <2>2. u \in Users
    BY <2>1, UserKnown
  <2>3. lock' = lock
    BY <1>2, <2>1, <2>2
  <2>4. /\ newM \in Int /\ newM = q.snapM + MonthlyDelta(q)
        /\ newA \in Int /\ newA = q.snapA + AddonDelta(q)
    <3>1. /\ MonthlyDelta(q) \in Int /\ AddonDelta(q) \in Int
          /\ q.type = "subscription_grant" => MonthlyDelta(q) = q.m - q.snapM
      BY <2>1, Deltas
    <3>2. /\ q.m \in Int /\ q.snapM \in Int /\ q.snapA \in Int
          /\ q.snapM = monthly[u] /\ q.snapA = addon[u]
      BY <2>1 DEF Transaction, Current
    <3> QED BY <3>1, <3>2
  <2> HIDE DEF newM, newA
  <2>5. sess' = [sess EXCEPT ![s] = t]
    BY <1>2, <2>1
  <2>6. /\ AfterUpdate(q) \in {"commit", "insert"}
        /\ (AfterUpdate(q) = "commit") <=> (q.type = "signup_grant")
    BY DEF AfterUpdate
  <2>7. /\ t \in Transaction /\ t.pc = AfterUpdate(q) /\ t.newM = newM /\ t.newA = newA
        /\ t.snapM = q.snapM /\ t.snapA = q.snapA
        /\ t.type = q.type /\ t.user = u /\ t.written = q.written
        /\ t.g = q.g /\ t.e = q.e /\ t.m = q.m /\ t.a = q.a
    BY <2>1, <2>4, <2>6 DEF Transaction
  <2> HIDE DEF t
  <2>8. ArgsOK(t)
    BY <2>1, <2>6, <2>7, IdleOK
    DEF ArgsOK, SpendArgs, RefundArgs, GrantArgs, ResetArgs, SignupArgs, LockedPcs
  <2>9. WrittenOK(t)
    <3>1. MonthlyDelta(t) = MonthlyDelta(q) /\ AddonDelta(t) = AddonDelta(q)
      BY <2>7 DEF MonthlyDelta, AddonDelta
    <3>2. KeyTaken(t) <=> KeyTaken(q)
      BY <2>7 DEF KeyTaken
    <3> QED BY <2>1, <2>4, <2>6, <2>7, <3>1, <3>2 DEF WrittenOK
  <2>10. RefundOK(t)
    BY <2>1, <2>6, <2>7 DEF RefundOK, ChargeOf, LockedPcs
  <2>11. Current(t)
    BY <2>1, <2>7 DEF Current
  <2>12. \A v \in Users : lock[v] = s => OwnerOK(t, v)
    BY <2>1, <2>6, <2>7, Session DEF OwnerOK, LockedPcs
  <2>13. \A r \in Sessions \ {s} : Apart(t, sess[r]) /\ Apart(sess[r], t)
    BY <2>7, Session DEF Apart
  <2> QED BY <1>2, <2>1, <2>3, <2>5, <2>7, <2>8, <2>9, <2>10, <2>11, <2>12, <2>13, LocalStep
<1> QED BY <1>1, <1>2 DEF UpdateAccount

(* A row on its way has a key that is neither in the table nor on its way  *)
(* in another session.                                                     *)
LEMMA InsertRowIInv ==
    ASSUME IInv, NEW s \in Sessions, InsertRow(s)
    PROVE  IInv'
<1> DEFINE q == sess[s]
           t == [q EXCEPT !.pc = AfterInsert(q), !.written = TRUE]
<1>1. ASSUME Rollback(s) PROVE IInv'
  BY <1>1, RollbackIInv
<1>2. ASSUME ~KeyTaken(q), UNCHANGED <<accounts, monthly, addon, txs, lock>>,
             sess' = [sess EXCEPT ![s].pc = AfterInsert(q), ![s].written = TRUE]
      PROVE  IInv'
  <2>1. /\ q.pc = "insert" /\ q \in Transaction /\ sess \in [Sessions -> Transaction]
        /\ ArgsOK(q) /\ RefundOK(q) /\ WrittenOK(q) /\ lock[q.user] = s /\ Current(q)
    BY Session DEF InsertRow, IInv, TypeInv, TxOK, HeldOK, LockedPcs
  <2>2. sess' = [sess EXCEPT ![s] = t]
    BY <1>2, <2>1
  <2>3. /\ AfterInsert(q) \in {"update", "commit"}
        /\ (AfterInsert(q) = "update") <=> (q.type = "signup_grant")
    BY DEF AfterInsert
  <2>4. /\ t \in Transaction /\ t.pc = AfterInsert(q) /\ t.newM = q.newM /\ t.newA = q.newA
        /\ t.snapM = q.snapM /\ t.snapA = q.snapA
        /\ t.type = q.type /\ t.user = q.user /\ t.written = TRUE
        /\ t.g = q.g /\ t.e = q.e /\ t.m = q.m /\ t.a = q.a
    BY <2>1, <2>3 DEF Transaction
  <2> HIDE DEF t
  <2>5. ArgsOK(t)
    BY <2>1, <2>3, <2>4, IdleOK
    DEF ArgsOK, SpendArgs, RefundArgs, GrantArgs, ResetArgs, SignupArgs, LockedPcs
  <2>6. WrittenOK(t)
    <3>1. MonthlyDelta(t) = MonthlyDelta(q) /\ AddonDelta(t) = AddonDelta(q)
      BY <2>4 DEF MonthlyDelta, AddonDelta
    <3>2. KeyTaken(t) <=> KeyTaken(q)
      BY <2>4 DEF KeyTaken
    <3> QED BY <1>2, <2>1, <2>3, <2>4, <3>1, <3>2 DEF WrittenOK
  <2>7. RefundOK(t)
    BY <2>1, <2>3, <2>4 DEF RefundOK, ChargeOf, LockedPcs
  <2>8. Current(t)
    BY <2>1, <2>4 DEF Current
  <2>9. \A v \in Users : lock[v] = s => OwnerOK(t, v)
    BY <2>1, <2>3, <2>4, Session DEF OwnerOK, LockedPcs
  <2>10. \A r \in Sessions \ {s} : Apart(t, sess[r]) /\ Apart(sess[r], t)
    BY <2>4 DEF InsertRow, KeyInFlight, Apart
  <2> QED BY <1>2, <2>1, <2>2, <2>4, <2>5, <2>6, <2>7, <2>8, <2>9, <2>10, LocalStep DEF tables
<1> QED BY <1>1, <1>2 DEF InsertRow

-----------------------------------------------------------------------------
(* Commit                                                                  *)

(* A commit is one Post of the ledger.                                     *)
LEMMA CommitIsPost ==
    ASSUME IInv, NEW s \in Sessions, Commit(s)
    PROVE  LET t == sess[s]
           IN  /\ t.user \in Users
               /\ Ledger!Post(t.user, t.type, MonthlyDelta(t), AddonDelta(t), t.g, t.e)
<1> DEFINE t == sess[s]
           u == t.user
<1>1. /\ t.pc = "commit" /\ t \in Transaction /\ ArgsOK(t) /\ WrittenOK(t) /\ Current(t)
      /\ accounts' = accounts \cup {u}
      /\ monthly' = [monthly EXCEPT ![u] = t.newM]
      /\ addon' = [addon EXCEPT ![u] = t.newA]
      /\ txs' = [txs EXCEPT ![u] = Append(@, RowOf(t))]
  BY Session DEF Commit, TxOK, HeldOK, LockedPcs
<1>2. u \in Users
  BY <1>1, UserKnown
<1>3. /\ t.newM = monthly[u] + MonthlyDelta(t) /\ t.newA = addon[u] + AddonDelta(t)
      /\ t.snapM = monthly[u] /\ t.snapA = addon[u] /\ Len(txs[u]) < MaxRows
  BY <1>1 DEF WrittenOK, Current
<1>4. monthly' = [monthly EXCEPT ![u] = @ + MonthlyDelta(t)]
  BY <1>1, <1>3
<1>5. addon' = [addon EXCEPT ![u] = @ + AddonDelta(t)]
  BY <1>1, <1>3
<1>6. txs' = [txs EXCEPT ![u] = Append(@,
                [type |-> t.type, monthlyDelta |-> MonthlyDelta(t), addonDelta |-> AddonDelta(t),
                 monthlyAfter |-> monthly[u] + MonthlyDelta(t),
                 addonAfter |-> addon[u] + AddonDelta(t),
                 generationID |-> t.g, externalID |-> t.e])]
  BY <1>1, <1>3 DEF RowOf
<1> HIDE DEF t
<1> QED BY <1>1, <1>2, <1>3, <1>4, <1>5, <1>6 DEF Ledger!Post, t

(* It is a step of the operation the transaction was begun for: what was   *)
(* checked on the way still holds.                                         *)
LEMMA CommitIsStep ==
    ASSUME IInv, NEW s \in Sessions, Commit(s)
    PROVE  Ledger!Next
<1> DEFINE t == sess[s]
           u == t.user
<1>1. /\ t.pc = "commit" /\ t \in Transaction /\ ArgsOK(t) /\ WrittenOK(t) /\ RefundOK(t)
      /\ Current(t) /\ t # Idle
  BY Session, IdleOK DEF Commit, TxOK, HeldOK, LockedPcs
<1>2. u \in Users /\ Ledger!Post(u, t.type, MonthlyDelta(t), AddonDelta(t), t.g, t.e)
  BY CommitIsPost
<1>3. /\ t.m \in Int /\ t.a \in Int /\ t.snapM \in Int /\ t.snapA \in Int
      /\ t.snapM = monthly[u] /\ t.snapA = addon[u]
  BY <1>1 DEF Transaction, Current
<1>4. ~KeyTaken(t)
  BY <1>1 DEF WrittenOK
<1>5. ASSUME SpendArgs(t) PROVE Ledger!Next
  <2>1. ~Ledger!GenTypeTaken(t.g, "generation_cost")
    BY <1>4, <1>5, NullAssumption DEF SpendArgs, KeyTaken
  <2>2. Ledger!CanAfford(u, t.m)
    BY <1>1, <1>5 DEF SpendArgs, Current, Ledger!CanAfford
  <2> DEFINE share == Ledger!MonthlyShare(monthly[u], t.m)
  <2>3. MonthlyDelta(t) = -share /\ AddonDelta(t) = share - t.m
    BY <1>1, <1>3, <1>5, Deltas DEF SpendArgs
  <2>4. Ledger!Post(u, "generation_cost", -share, share - t.m, t.g, NULL)
    BY <1>2, <1>5, <2>3 DEF SpendArgs
  <2>5. Ledger!Spend(u, t.m, t.g)
    BY <2>1, <2>2, <2>4 DEF Ledger!Spend
  <2> QED BY <1>2, <1>5, <2>5 DEF SpendArgs, Ledger!Next
<1>6. ASSUME RefundArgs(t) PROVE Ledger!Next
  <2>1. ~Ledger!GenTypeTaken(t.g, "generation_refund")
    BY <1>4, <1>6, NullAssumption DEF RefundArgs, KeyTaken
  <2>2. u \in accounts
    BY <1>1, <1>6 DEF RefundArgs, Current
  <2>3. PICK i \in DOMAIN txs[u] : ChargeOf(t, i)
    BY <1>1, <1>6 DEF RefundArgs, RefundOK, LockedPcs
  <2>4. txs[u][i].monthlyDelta = -t.m /\ txs[u][i].addonDelta = -t.a
    BY <2>3 DEF ChargeOf
  <2>5. MonthlyDelta(t) = -txs[u][i].monthlyDelta /\ AddonDelta(t) = -txs[u][i].addonDelta
    <3>1. MonthlyDelta(t) = t.m /\ AddonDelta(t) = t.a
      BY <1>1, <1>6, Deltas DEF RefundArgs
    <3> QED BY <1>3, <2>4, <3>1
  <2>6. Ledger!Post(u, "generation_refund", -txs[u][i].monthlyDelta, -txs[u][i].addonDelta, t.g, NULL)
    BY <1>2, <1>6, <2>5 DEF RefundArgs
  <2>7. Ledger!RefundRow(u, i, t.g)
    BY <2>1, <2>2, <2>3, <2>6 DEF ChargeOf, Ledger!RefundRow, Ledger!IsTx
  <2>8. Ledger!Refund(t.g)
    BY <1>2, <2>7 DEF Ledger!Refund
  <2> QED BY <1>6, <2>8 DEF RefundArgs, Ledger!Next
<1>7. ASSUME GrantArgs(t) PROVE Ledger!Next
  <2>1. MonthlyDelta(t) = t.m /\ AddonDelta(t) = t.a
    BY <1>1, <1>7, Deltas DEF GrantArgs
  <2>2. Ledger!Grant(u, t.m, t.a)
    BY <1>2, <1>7, <2>1 DEF GrantArgs, Ledger!Grant
  <2> QED BY <1>2, <1>7, <2>2 DEF GrantArgs, Ledger!Next
<1>8. ASSUME ResetArgs(t) PROVE Ledger!Next
  <2>1. ~Ledger!ExtTypeTaken(t.e, "subscription_grant")
    BY <1>4, <1>8, NullAssumption DEF ResetArgs, KeyTaken
  <2>2. MonthlyDelta(t) = t.m - monthly[u] /\ AddonDelta(t) = 0
    BY <1>1, <1>3, <1>8, Deltas DEF ResetArgs
  <2>3. Ledger!Post(u, "subscription_grant", t.m - monthly[u], 0, NULL, t.e)
    BY <1>2, <1>8, <2>2 DEF ResetArgs
  <2>4. Ledger!ResetMonthly(u, t.m, t.e)
    BY <2>1, <2>3 DEF Ledger!ResetMonthly
  <2> QED BY <1>2, <1>8, <2>4 DEF ResetArgs, Ledger!Next
<1>9. ASSUME SignupArgs(t) PROVE Ledger!Next
  <2>1. ~Ledger!ExtTypeTaken(Ledger!SignupKey(u), "signup_grant")
    BY <1>2, <1>4, <1>9, NullAssumption DEF SignupArgs, KeyTaken, Ledger!SignupKey
  <2>2. MonthlyDelta(t) = t.m /\ AddonDelta(t) = 0
    BY <1>1, <1>9, Deltas DEF SignupArgs
  <2>3. Ledger!Post(u, "signup_grant", t.m, 0, NULL, Ledger!SignupKey(u))
    BY <1>2, <1>9, <2>2 DEF SignupArgs
  <2>4. Ledger!GrantSignupBonus(u, t.m)
    BY <1>9, <2>1, <2>3 DEF SignupArgs, Ledger!GrantSignupBonus
  <2> QED BY <1>2, <1>9, <2>4 DEF SignupArgs, Ledger!Next
<1> QED BY <1>1, <1>5, <1>6, <1>7, <1>8, <1>9 DEF ArgsOK

(* A commit is the one step that the other sessions may notice.            *)
LEMMA CommitIInv ==
    ASSUME IInv, NEW s \in Sessions, Commit(s)
    PROVE  IInv'
<1> DEFINE t == sess[s]
           u == t.user
           row == RowOf(t)
<1>1. /\ t.pc = "commit" /\ t \in Transaction /\ ArgsOK(t) /\ t # Idle /\ lock[u] = s
      /\ t.written /\ Release(s) /\ sess' = [sess EXCEPT ![s] = Idle]
      /\ accounts' = accounts \cup {u}
      /\ monthly' = [monthly EXCEPT ![u] = t.newM]
      /\ addon' = [addon EXCEPT ![u] = t.newA]
      /\ txs' = [txs EXCEPT ![u] = Append(@, row)]
      /\ sess \in [Sessions -> Transaction]
  BY Session, IdleOK DEF Commit, TxOK, HeldOK, WrittenOK, LockedPcs, IInv, TypeInv
<1>2. /\ u \in Users /\ txs \in [Users -> Seq(Ledger!CreditTransaction)]
      /\ accounts \in SUBSET Users /\ monthly \in [Users -> Int] /\ addon \in [Users -> Int]
  BY <1>1, UserKnown DEF IInv, TypeInv, Ledger!TypeOK
<1>3. row \in Ledger!CreditTransaction /\ row.type = t.type /\ row.generationID = t.g /\ row.externalID = t.e
  <2>1. /\ MonthlyDelta(t) \in Int /\ AddonDelta(t) \in Int /\ t.snapM \in Int /\ t.snapA \in Int
        /\ t.g \in Gens \cup {NULL} /\ t.e \in Ledger!ExternalIDs \cup {NULL}
    BY <1>1, Deltas DEF Transaction
  <2>2. t.type \in Ledger!TxTypes
    BY <1>1 DEF ArgsOK, SpendArgs, RefundArgs, GrantArgs, ResetArgs, SignupArgs, Ledger!TxTypes
  <2> QED BY <2>1, <2>2 DEF RowOf, Ledger!CreditTransaction
<1> HIDE DEF row
<1>4. Ledger!TypeOK'
  <2>1. Append(txs[u], row) \in Seq(Ledger!CreditTransaction)
    BY <1>2, <1>3
  <2>2. t.newM \in Int /\ t.newA \in Int
    BY <1>1 DEF Transaction
  <2> QED BY <1>1, <1>2, <2>1, <2>2 DEF Ledger!TypeOK
<1>5. TypeInv'
  BY <1>1, <1>4, SessionEnds DEF TypeInv
<1>6. /\ \A v \in Users : DOMAIN txs[v] \subseteq DOMAIN txs'[v]
      /\ \A v \in Users : \A i \in DOMAIN txs[v] : txs'[v][i] = txs[v][i]
      /\ \A v \in Users : \A i \in DOMAIN txs'[v] \ DOMAIN txs[v] : txs'[v][i] = row
  BY <1>1, <1>2, <1>3
<1>7. ASSUME NEW r \in Sessions PROVE TxOK(r, sess[r])'
  <2>1. ASSUME r = s PROVE TxOK(r, sess[r])'
    <3>1. sess'[r] = Idle
      BY <1>1, <2>1
    <3> QED BY <3>1, IdleOK DEF TxOK, ArgsOK, HeldOK, LockedPcs, WrittenOK, RefundOK
  <2>2. ASSUME r # s PROVE TxOK(r, sess[r])'
    <3>1. /\ sess'[r] = sess[r] /\ TxOK(r, sess[r])
          /\ Apart(sess[r], t) /\ sess[r] \in Transaction
      BY <1>1, <2>2, Session
    <3>2. ArgsOK(sess[r])'
      BY <3>1 DEF TxOK, ArgsOK, SpendArgs, RefundArgs, GrantArgs, ResetArgs, SignupArgs
    <3>3. HeldOK(r, sess[r])'
      <4>1. sess[r].pc \in LockedPcs => sess[r].user \in Users /\ sess[r].user # u
        BY <1>1, <2>2, <3>1, UserKnown DEF TxOK, HeldOK, LockedPcs
      <4> QED BY <1>1, <1>2, <2>2, <3>1, <4>1, SessionEnds DEF TxOK, HeldOK, Current
    <3>4. WrittenOK(sess[r])'
      <4>1. sess[r].written => ~KeyTaken(sess[r])'
        <5> SUFFICES ASSUME sess[r].written, KeyTaken(sess[r])' PROVE FALSE
          OBVIOUS
        <5>1. ~KeyTaken(sess[r])
          BY <3>1 DEF TxOK, WrittenOK
        <5>2. PICK v \in Users : \E i \in DOMAIN txs'[v] :
                /\ txs'[v][i].type = sess[r].type
                /\ \/ sess[r].g # NULL /\ txs'[v][i].generationID = sess[r].g
                   \/ sess[r].e # NULL /\ txs'[v][i].externalID = sess[r].e
          BY <3>1 DEF KeyTaken, Ledger!GenTypeTaken, Ledger!ExtTypeTaken
        <5>3. PICK i \in DOMAIN txs'[v] :
                /\ txs'[v][i].type = sess[r].type
                /\ \/ sess[r].g # NULL /\ txs'[v][i].generationID = sess[r].g
                   \/ sess[r].e # NULL /\ txs'[v][i].externalID = sess[r].e
          BY <5>2
        <5>4. i \notin DOMAIN txs[v]
          BY <1>6, <5>1, <5>3 DEF KeyTaken, Ledger!GenTypeTaken, Ledger!ExtTypeTaken
        <5>5. txs'[v][i] = row
          BY <1>6, <5>3, <5>4
        <5> QED BY <1>1, <1>3, <3>1, <5>3, <5>5 DEF Apart
      <4> QED BY <3>1, <4>1 DEF TxOK, WrittenOK, MonthlyDelta, AddonDelta
    <3>5. RefundOK(sess[r])'
      BY <1>6, <3>1, UserKnown DEF TxOK, RefundOK, ChargeOf, LockedPcs
    <3> QED BY <1>5, <3>1, <3>2, <3>3, <3>4, <3>5 DEF TxOK
  <2> QED BY <2>1, <2>2
<1>8. Transactions'
  BY <1>7 DEF Transactions
<1> QED BY <1>1, <1>5, <1>8, SessionEnds DEF IInv

-----------------------------------------------------------------------------
(* Every step                                                              *)

(* Every step keeps the invariant.                                         *)
LEMMA NextIInv ==
    ASSUME IInv, [Next]_vars
    PROVE  IInv'
<1>1. ASSUME NEW s \in Sessions, Call(s) PROVE IInv'
  BY <1>1, CallIInv
<1>2. ASSUME NEW s \in Sessions, Statement(s) PROVE IInv'
  BY <1>2, EnsureIInv, CountRefundsIInv, FindCostIInv, LockAccountIInv, UpdateAccountIInv,
     InsertRowIInv, CommitIInv, RollbackIInv
  DEF Statement, FindNoCost, LockInsufficient
<1>3. ASSUME NEW s \in Sessions, Fail(s) PROVE IInv'
  BY <1>3, RollbackIInv DEF Fail
<1>4. ASSUME UNCHANGED vars PROVE IInv'
  <2>1. UNCHANGED <<accounts, monthly, addon, txs, lock, sess>>
    BY <1>4 DEF vars
  <2>2. TypeInv'
    BY <2>1 DEF IInv, TypeInv, Ledger!TypeOK
  <2>3. Transactions'
    BY <2>1, <2>2, Unmoved DEF Transactions
  <2> QED BY <2>1, <2>2, <2>3 DEF IInv, Owners, OwnerOK, KeysApart, Apart
<1> QED BY <1>1, <1>2, <1>3, <1>4 DEF Next

(* What only one session sees changes no table.                            *)
LEMMA StepIsLedgerStep ==
    ASSUME IInv, [Next]_vars
    PROVE  [Ledger!Next]_(Ledger!vars)
<1> SUFFICES ASSUME NEW s \in Sessions, Call(s) \/ Statement(s) \/ Fail(s)
             PROVE  Ledger!Next \/ UNCHANGED tables
  BY DEF Next, vars, tables, Ledger!vars
<1>1. ASSUME Call(s) PROVE UNCHANGED tables
  BY <1>1 DEF Call, BeginSpend, BeginRefund, BeginGrant, BeginResetMonthly, BeginSignupBonus,
              Begin, tables
<1>2. ASSUME Commit(s) PROVE Ledger!Next
  BY <1>2, CommitIsStep
<1>3. ASSUME Statement(s), ~Commit(s) PROVE UNCHANGED tables
  BY <1>3 DEF Statement, Ensure, CountRefunds, FindCost, FindNoCost, LockAccount, LockInsufficient,
              UpdateAccount, InsertRow, Rollback, tables
<1>4. ASSUME Fail(s) PROVE UNCHANGED tables
  BY <1>4 DEF Fail, Rollback
<1> QED BY <1>1, <1>2, <1>3, <1>4

(* The invariant holds throughout: of any number of interleaved            *)
(* transactions, each is where it says it is and holds what it relies on.  *)
THEOREM TransactionsInvariant == Spec => []IInv
<1> QED BY InitIInv, NextIInv, PTL DEF Spec

(* Every variable has its type, and a lock is held by a session that works *)
(* on that user's account.                                                 *)
THEOREM TransactionsTyped == Spec => []TypeOK
<1>1. ASSUME IInv PROVE TypeOK
  <2>1. \A s \in Sessions : sess[s].pc \in
          {"idle", "ensure", "count", "find", "lock", "update", "insert", "commit"}
    BY <1>1 DEF IInv, TypeInv, Transaction
  <2> QED BY <1>1, <2>1 DEF IInv, TypeInv, Owners, OwnerOK, TypeOK
<1> QED BY <1>1, TransactionsInvariant, PTL

(* What was read under FOR UPDATE is true until the transaction ends: no   *)
(* split and no snapshot column is ever computed from a stale balance.     *)
THEOREM LockedReadsStayCurrent == Spec => []LockedReadIsCurrent
<1>1. IInv => LockedReadIsCurrent
  BY DEF IInv, Transactions, TxOK, HeldOK, LockedPcs, Current, LockedReadIsCurrent
<1> QED BY <1>1, TransactionsInvariant, PTL

(* The statements of ledger.go, interleaved at READ COMMITTED with any     *)
(* failures, implement the ledger: every commit is one operation, made at  *)
(* once, and nothing else is ever seen.                                    *)
THEOREM TransactionsImplementLedger == Spec => ImplementsLedger
<1>1. Init => Ledger!Init
  BY DEF Init
<1>2. IInv /\ [Next]_vars => [Ledger!Next]_(Ledger!vars)
  BY StepIsLedgerStep
<1> QED BY <1>1, <1>2, TransactionsInvariant, PTL DEF Spec, ImplementsLedger, Ledger!Spec

-----------------------------------------------------------------------------
(* The books                                                               *)

(* What is proved of the ledger.                                           *)
Books == INSTANCE CreditLedgerProofs

(* The assumptions of CreditLedger.                                        *)
LEMMA LedgerConstants ==
    /\ Costs \subseteq Nat \ {0} /\ GrantAmounts \subseteq Nat /\ PlanAmounts \subseteq Nat
    /\ MaxRows \in Nat /\ NULL \notin Gens /\ NULL \notin Events
BY AmountsAssumption, BoundAssumption, NullAssumption

(* Books and Ledger are the same specification under two names.            *)
LEMMA SameLedgerSpec == Ledger!Spec => Books!Spec
BY DEF Ledger!Spec, Books!Spec, Ledger!Init, Books!Init, Ledger!Next, Books!Next,
       Ledger!vars, Books!vars, Ledger!Spend, Books!Spend, Ledger!Refund, Books!Refund,
       Ledger!RefundRow, Books!RefundRow, Ledger!Grant, Books!Grant,
       Ledger!ResetMonthly, Books!ResetMonthly,
       Ledger!GrantSignupBonus, Books!GrantSignupBonus, Ledger!Post, Books!Post,
       Ledger!CanAfford, Books!CanAfford, Ledger!MonthlyShare, Books!MonthlyShare,
       Ledger!GenTypeTaken, Books!GenTypeTaken, Ledger!ExtTypeTaken, Books!ExtTypeTaken,
       Ledger!IsTx, Books!IsTx, Ledger!SignupKey, Books!SignupKey

(* So interleaved transactions that fail anywhere keep the books: they     *)
(* balance, nothing is overdrawn, no key is posted twice, and a refund     *)
(* pays back what was charged.                                             *)
THEOREM TransactionsKeepTheBooks ==
    Spec => [](Ledger!Reconciles /\ Ledger!NoOverdraft /\ Ledger!KeysUnique
               /\ Ledger!RefundsMirrorCosts)
<1>1. Books!Spec => [](Books!Reconciles /\ Books!NoOverdraft /\ Books!KeysUnique
                       /\ Books!RefundsMirrorCosts)
  BY Books!BooksBalance, Books!NeverOverdrawn, Books!EachKeyPostedOnce, Books!RefundsAreExact,
     LedgerConstants, PTL
<1>2. Books!Reconciles /\ Books!NoOverdraft /\ Books!KeysUnique /\ Books!RefundsMirrorCosts =>
      Ledger!Reconciles /\ Ledger!NoOverdraft /\ Ledger!KeysUnique /\ Ledger!RefundsMirrorCosts
  BY DEF Books!Reconciles, Ledger!Reconciles, Books!SnapshotsChain, Ledger!SnapshotsChain,
         Books!AccountIsLastSnapshot, Ledger!AccountIsLastSnapshot,
         Books!MonthlyBefore, Ledger!MonthlyBefore, Books!AddonBefore, Ledger!AddonBefore,
         Books!NoOverdraft, Ledger!NoOverdraft, Books!KeysUnique, Ledger!KeysUnique,
         Books!RefundsMirrorCosts, Ledger!RefundsMirrorCosts
<1> QED BY <1>1, <1>2, SameLedgerSpec, TransactionsImplementLedger, PTL DEF ImplementsLedger

(* And their rows stay as they are, and add-on credits are spent last.     *)
THEOREM TransactionsKeepTheJournal ==
    Spec => Ledger!JournalOnlyGrows /\ Ledger!AddonSpentLast
<1>1. Books!Spec => Books!JournalOnlyGrows /\ Books!AddonSpentLast
  BY Books!JournalIsAppendOnly, Books!AddonIsSpentLast,
     LedgerConstants, PTL
<1>2. Books!JournalOnlyGrows /\ Books!AddonSpentLast =>
      Ledger!JournalOnlyGrows /\ Ledger!AddonSpentLast
  BY DEF Books!JournalOnlyGrows, Ledger!JournalOnlyGrows, Books!JournalStep, Ledger!JournalStep,
         Books!AddonSpentLast, Ledger!AddonSpentLast, Books!AddonStep, Ledger!AddonStep,
         Books!vars, Ledger!vars
<1> QED BY <1>1, <1>2, SameLedgerSpec, TransactionsImplementLedger, PTL DEF ImplementsLedger
=============================================================================
