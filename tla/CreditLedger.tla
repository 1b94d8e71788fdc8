---------------------------- MODULE CreditLedger ----------------------------
(***************************************************************************)
(* The credit ledger of src/internal/credit/ledger.go as its callers see   *)
(* it: each exported operation is one database transaction, so one step.   *)
(* CreditTx shows that the statement-by-statement transactions implement   *)
(* this module on Postgres.                                                *)
(*                                                                         *)
(* An account is the row of table credit_accounts (two balances); txs[u]   *)
(* is the user's rows of credit_transactions in the order of their ids.    *)
(* An operation that returns an error rolls its transaction back and       *)
(* leaves the tables as they were: those returns are stuttering steps.     *)
(***************************************************************************)
EXTENDS Integers, Sequences

CONSTANTS
    Users,         \* users.id
    Gens,          \* generations.id, the idempotency key of Spend and Refund
    Events,        \* Stripe event ids, the idempotency key of ResetMonthly
    Costs,         \* image_models.credits: what a generation may cost
    GrantAmounts,  \* what an administrator or the signup bonus may give
    PlanAmounts,   \* plans.monthly_credits, and 0 for a cancelled plan
    MaxRows,       \* bound: rows of credit_transactions per user
    NULL           \* SQL NULL in the two nullable key columns

ASSUME CostsAssumption == Costs \subseteq Nat \ {0}
ASSUME AmountsAssumption == GrantAmounts \subseteq Nat /\ PlanAmounts \subseteq Nat
ASSUME BoundAssumption == MaxRows \in Nat
ASSUME KeysAssumption == NULL \notin Gens /\ NULL \notin Events

VARIABLES
    accounts,      \* users that have a row in credit_accounts
    monthly,       \* credit_accounts.monthly_credits (0 without a row)
    addon,         \* credit_accounts.addon_credits (0 without a row)
    txs            \* credit_transactions, per user, oldest first

vars == <<accounts, monthly, addon, txs>>

TxTypes == {"generation_cost", "generation_refund", "admin_grant",
            "subscription_grant", "signup_grant"}

SignupKey(u) == <<"signup", u>>

ExternalIDs == Events \cup {SignupKey(u) : u \in Users}

CreditTransaction ==
    [type : TxTypes,
     monthlyDelta : Int, addonDelta : Int,
     monthlyAfter : Int, addonAfter : Int,
     generationID : Gens \cup {NULL},
     externalID : ExternalIDs \cup {NULL}]

Init ==
    /\ accounts = {}
    /\ monthly = [u \in Users |-> 0]
    /\ addon = [u \in Users |-> 0]
    /\ txs = [u \in Users |-> <<>>]

-----------------------------------------------------------------------------
(* The two composite unique indexes. NULL keys never collide, which is why *)
(* every key below is asked about as a proper id.                          *)

IsTx(u, i, type) == i \in DOMAIN txs[u] /\ txs[u][i].type = type

GenTypeTaken(g, type) ==
    \E u \in Users : \E i \in DOMAIN txs[u] :
        txs[u][i].type = type /\ txs[u][i].generationID = g

ExtTypeTaken(e, type) ==
    \E u \in Users : \E i \in DOMAIN txs[u] :
        txs[u][i].type = type /\ txs[u][i].externalID = e

(* A faulty Post takes the snapshot before the update.                     *)
PostSnapshotBefore(u, type, dm, da, g, e) ==
    /\ Len(txs[u]) < MaxRows
    /\ accounts' = accounts \cup {u}
    /\ monthly' = [monthly EXCEPT ![u] = @ + dm]
    /\ addon' = [addon EXCEPT ![u] = @ + da]
    /\ txs' = [txs EXCEPT ![u] = Append(@,
                 [type |-> type, monthlyDelta |-> dm, addonDelta |-> da,
                  monthlyAfter |-> monthly[u], addonAfter |-> addon[u],
                  generationID |-> g, externalID |-> e])]

(* The balance update and its row: written together or not at all. The     *)
(* *After columns are computed from the balance read under the row lock.   *)
Post(u, type, dm, da, g, e) ==
    /\ Len(txs[u]) < MaxRows
    /\ accounts' = accounts \cup {u}
    /\ monthly' = [monthly EXCEPT ![u] = @ + dm]
    /\ addon' = [addon EXCEPT ![u] = @ + da]
    /\ txs' = [txs EXCEPT ![u] = Append(@,
                 [type |-> type, monthlyDelta |-> dm, addonDelta |-> da,
                  monthlyAfter |-> monthly[u] + dm, addonAfter |-> addon[u] + da,
                  generationID |-> g, externalID |-> e])]

(* planSpend: monthly credits first, the rest from the add-on balance.     *)
CanAfford(u, cost) == u \in accounts /\ monthly[u] + addon[u] >= cost

(* Faulty shares: everything from the monthly balance; everything from one *)
(* balance, the add-on credits whenever the monthly ones do not suffice.   *)
MonthlyShareUncapped(m, cost) == cost
MonthlyShareAllOrNothing(m, cost) == IF m < cost THEN 0 ELSE cost

MonthlyShare(m, cost) == IF m < cost THEN m ELSE cost

Spend(u, cost, g) ==
    /\ CanAfford(u, cost)
    /\ ~GenTypeTaken(g, "generation_cost")
    /\ LET share == MonthlyShare(monthly[u], cost)
       IN  Post(u, "generation_cost", -share, share - cost, g, NULL)

(* Faulty refunds: a second one is not noticed; all of it comes back as    *)
(* monthly credits; the charge is deleted instead of offset.               *)
RefundRowTwice(u, i, g) ==
    /\ IsTx(u, i, "generation_cost")
    /\ txs[u][i].generationID = g
    /\ Post(u, "generation_refund", -txs[u][i].monthlyDelta, -txs[u][i].addonDelta, g, NULL)

RefundRowAsMonthly(u, i, g) ==
    /\ IsTx(u, i, "generation_cost")
    /\ txs[u][i].generationID = g
    /\ ~GenTypeTaken(g, "generation_refund")
    /\ Post(u, "generation_refund", -(txs[u][i].monthlyDelta + txs[u][i].addonDelta), 0, g, NULL)

RefundRowByDeleting(u, i, g) ==
    /\ IsTx(u, i, "generation_cost")
    /\ txs[u][i].generationID = g
    /\ monthly' = [monthly EXCEPT ![u] = @ - txs[u][i].monthlyDelta]
    /\ addon' = [addon EXCEPT ![u] = @ - txs[u][i].addonDelta]
    /\ txs' = [txs EXCEPT ![u] = SubSeq(@, 1, i - 1) \o SubSeq(@, i + 1, Len(@))]
    /\ UNCHANGED accounts

(* Refund takes no user: the cost row says who paid and from which balance. *)
RefundRow(u, i, g) ==
    /\ IsTx(u, i, "generation_cost")
    /\ txs[u][i].generationID = g
    /\ ~GenTypeTaken(g, "generation_refund")
    /\ u \in accounts
    /\ Post(u, "generation_refund", -txs[u][i].monthlyDelta, -txs[u][i].addonDelta, g, NULL)

Refund(g) == \E u \in Users : \E i \in DOMAIN txs[u] : RefundRow(u, i, g)

(* A faulty Grant writes an empty string where no generation is meant.     *)
GrantWithEmptyKey(u, m, a) ==
    /\ m + a > 0
    /\ Post(u, "admin_grant", m, a, "", NULL)

Grant(u, m, a) ==
    /\ m + a > 0
    /\ Post(u, "admin_grant", m, a, NULL, NULL)

(* ResetMonthly sets the monthly balance instead of adding to it. It runs  *)
(* in its caller's transaction; what a caller that commits in spite of     *)
(* ErrAlreadyGranted does is StripeWebhook's GrantedAlready.               *)
ResetMonthly(u, amount, e) ==
    /\ ~ExtTypeTaken(e, "subscription_grant")
    /\ Post(u, "subscription_grant", amount - monthly[u], 0, NULL, e)

GrantSignupBonus(u, amount) ==
    /\ amount > 0
    /\ ~ExtTypeTaken(SignupKey(u), "signup_grant")
    /\ Post(u, "signup_grant", amount, 0, NULL, SignupKey(u))

Next ==
    \/ \E u \in Users, cost \in Costs, g \in Gens : Spend(u, cost, g)
    \/ \E g \in Gens : Refund(g)
    \/ \E u \in Users, m \in GrantAmounts, a \in GrantAmounts : Grant(u, m, a)
    \/ \E u \in Users, amount \in PlanAmounts, e \in Events : ResetMonthly(u, amount, e)
    \/ \E u \in Users, amount \in GrantAmounts : GrantSignupBonus(u, amount)

Spec == Init /\ [][Next]_vars

-----------------------------------------------------------------------------
(* Properties                                                              *)

(* Every variable has its type; a row that carries no id carries NULL.     *)
TypeOK ==
    /\ accounts \in SUBSET Users
    /\ monthly \in [Users -> Int]
    /\ addon \in [Users -> Int]
    /\ txs \in [Users -> Seq(CreditTransaction)]

(* No operation overdraws either balance, and no row ever recorded a       *)
(* negative one: Spend is the only debit, Refund undoes at most a Spend,   *)
(* and ResetMonthly may lower a balance but only to a plan's amount.       *)
NoOverdraft ==
    \A u \in Users :
        /\ monthly[u] >= 0 /\ addon[u] >= 0
        /\ \A i \in DOMAIN txs[u] : txs[u][i].monthlyAfter >= 0 /\ txs[u][i].addonAfter >= 0

(* The balances before a user's i-th row: the snapshot of the row before.  *)
MonthlyBefore(u, i) == IF i = 1 THEN 0 ELSE txs[u][i - 1].monthlyAfter
AddonBefore(u, i) == IF i = 1 THEN 0 ELSE txs[u][i - 1].addonAfter

(* Every row's snapshot is the previous row's plus its own deltas, so the  *)
(* ledger can be audited row by row (model/credit.go, MonthlyAfter).       *)
SnapshotsChain ==
    \A u \in Users : \A i \in DOMAIN txs[u] :
        /\ txs[u][i].monthlyAfter = MonthlyBefore(u, i) + txs[u][i].monthlyDelta
        /\ txs[u][i].addonAfter = AddonBefore(u, i) + txs[u][i].addonDelta

(* The account agrees with its last row: no balance ever moves without a   *)
(* row, no row without the balance.                                        *)
AccountIsLastSnapshot ==
    \A u \in Users :
        /\ monthly[u] = MonthlyBefore(u, Len(txs[u]) + 1)
        /\ addon[u] = AddonBefore(u, Len(txs[u]) + 1)

(* The books balance: the chain of snapshots is sound and ends at the      *)
(* account's balances.                                                     *)
Reconciles == SnapshotsChain /\ AccountIsLastSnapshot

(* Two rows of one type never share a generation id or an external id,     *)
(* whichever users they belong to: one charge and one refund per           *)
(* generation, one grant per Stripe event, one signup bonus per user.      *)
KeysUnique ==
    \A u, v \in Users : \A i \in DOMAIN txs[u] : \A j \in DOMAIN txs[v] :
        /\ txs[u][i].type = txs[v][j].type
        /\ \/ txs[u][i].generationID = txs[v][j].generationID /\ txs[u][i].generationID # NULL
           \/ txs[u][i].externalID = txs[v][j].externalID /\ txs[u][i].externalID # NULL
        => u = v /\ i = j

(* A refund pays back exactly what one earlier row of the same user        *)
(* charged for the same generation, balance by balance: nobody is refunded *)
(* another's generation, and no add-on credit comes back as a monthly one. *)
RefundsMirrorCosts ==
    \A u \in Users : \A j \in DOMAIN txs[u] :
        txs[u][j].type = "generation_refund" =>
            \E i \in 1 .. (j - 1) :
                /\ txs[u][i].type = "generation_cost"
                /\ txs[u][i].generationID = txs[u][j].generationID
                /\ txs[u][i].monthlyDelta = -txs[u][j].monthlyDelta
                /\ txs[u][i].addonDelta = -txs[u][j].addonDelta

(* Whoever was charged has an account row, so a refund never fails for     *)
(* want of one.                                                            *)
ChargedHaveAccounts == \A u \in Users : Len(txs[u]) > 0 => u \in accounts

(* Rows are never changed or removed, and one operation writes at most one *)
(* row (model/credit.go: an immutable journal).                            *)
JournalStep ==
    \A u \in Users :
        /\ Len(txs'[u]) \in {Len(txs[u]), Len(txs[u]) + 1}
        /\ \A i \in DOMAIN txs[u] : txs'[u][i] = txs[u][i]
        /\ \A v \in Users : txs'[u] # txs[u] /\ txs'[v] # txs[v] => u = v

JournalOnlyGrows == [][JournalStep]_vars

(* Purchased add-on credits are only ever taken by a generation that found *)
(* the monthly balance too small, and then the monthly balance is used up. *)
AddonStep ==
    \A u \in Users :
        addon'[u] < addon[u] =>
            /\ monthly'[u] = 0
            /\ Len(txs'[u]) > Len(txs[u])
            /\ txs'[u][Len(txs'[u])].type = "generation_cost"

AddonSpentLast == [][AddonStep]_vars
=============================================================================
