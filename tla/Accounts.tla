------------------------------ MODULE Accounts ------------------------------
(***************************************************************************)
(* Who may administer: AuthHandler.Register                                *)
(* (src/internal/handler/auth.go), PromoteAdmin                            *)
(* (src/internal/bootstrap/admin.go), the two middlewares in front of the  *)
(* admin routes and AdminUsersHandler.Patch                                *)
(* (src/internal/handler/admin_users.go).                                  *)
(*                                                                         *)
(* A user is named by the email of the account, which never changes.       *)
(* Requests run concurrently: every database call made outside a           *)
(* transaction is a step of its own. The transaction of Patch is one step: *)
(* on SQLite it holds the only connection.                                 *)
(***************************************************************************)
EXTENDS Integers, Sequences, FiniteSets

CONSTANTS Users, Gens, Events, Costs, GrantAmounts, PlanAmounts, MaxRows, NULL,
    Dialects,      \* "postgres" in production, "sqlite" in development
    Bootstrap,     \* the user of BOOTSTRAP_ADMIN_EMAIL
    Requests,      \* PATCH requests that may be in flight at a time
    Bonus          \* signupBonusCredits, 0 when there is none

ASSUME BonusAssumption == Bonus \in Nat /\ (Bonus > 0 => Bonus \in GrantAmounts)
ASSUME LedgerAssumption ==
    /\ Costs \subseteq Nat \ {0} /\ GrantAmounts \subseteq Nat /\ PlanAmounts \subseteq Nat
    /\ MaxRows \in Nat /\ NULL \notin Gens /\ NULL \notin Events
ASSUME NullAssumption == NULL \notin {"user", "admin", "active", "banned"}
ASSUME DialectsAssumption == Dialects \subseteq {"postgres", "sqlite"}

VARIABLES
    accounts, monthly, addon, txs,   \* the ledger, as in CreditLedger
    users,     \* table users: [Users -> row, or NoUser]
    signup,    \* [Users -> where the user's registration is]
    req,       \* [Requests -> the PATCH request in progress, or NoRequest]
    dialect    \* the database of this deployment

ledgerVars == <<accounts, monthly, addon, txs>>
vars == <<ledgerVars, users, signup, req, dialect>>

Ledger == INSTANCE CreditLedger

NoUser == [role |-> NULL, status |-> NULL]
NewUser == [role |-> "user", status |-> "active"]
NoRequest == [pc |-> "idle", actor |-> NULL, target |-> NULL,
              role |-> NULL, status |-> NULL, lose |-> FALSE]

Registered == {u \in Users : users[u] # NoUser}
Admins == {u \in Users : users[u].role = "admin"}
ActiveAdmins == {u \in Admins : users[u].status = "active"}

Init ==
    /\ Ledger!Init
    /\ users = [u \in Users |-> NoUser]
    /\ signup = [u \in Users |-> "none"]
    /\ req = [r \in Requests |-> NoRequest]
    /\ dialect \in Dialects

-----------------------------------------------------------------------------
(* Registration: insert the user, perhaps promote it, perhaps give it the  *)
(* signup bonus. Failures after the insert are logged and passed over.     *)

Register(u) ==
    /\ u \notin Registered
    /\ users' = [users EXCEPT ![u] = NewUser]
    /\ signup' = [signup EXCEPT ![u] = IF u = Bootstrap THEN "count" ELSE "bonus"]
    /\ UNCHANGED <<ledgerVars, req, dialect>>

(* PromoteAdmin counts the administrators, whatever their status.          *)
PromoteCount(u) ==
    /\ signup[u] = "count"
    /\ signup' = [signup EXCEPT ![u] = IF Admins = {} THEN "promote" ELSE "bonus"]
    /\ UNCHANGED <<ledgerVars, users, req, dialect>>

PromoteUpdate(u) ==
    /\ signup[u] = "promote"
    /\ users' = [users EXCEPT ![u].role = "admin"]
    /\ signup' = [signup EXCEPT ![u] = "bonus"]
    /\ UNCHANGED <<ledgerVars, req, dialect>>

(* A database error in PromoteAdmin.                                       *)
PromoteFails(u) ==
    /\ signup[u] \in {"count", "promote"}
    /\ signup' = [signup EXCEPT ![u] = "bonus"]
    /\ UNCHANGED <<ledgerVars, users, req, dialect>>

(* A faulty SignupBonus is tried again when its answer is lost, and        *)
(* carries no key.                                                         *)
SignupBonusUnkeyed(u) ==
    /\ signup[u] = "bonus"
    /\ Ledger!Grant(u, Bonus, 0) \/ UNCHANGED ledgerVars
    /\ \E next \in {"bonus", "done"} : signup' = [signup EXCEPT ![u] = next]
    /\ UNCHANGED <<users, req, dialect>>

(* The bonus arrives or is lost with an error; nobody tries again.         *)
SignupBonus(u) ==
    /\ signup[u] = "bonus"
    /\ Ledger!GrantSignupBonus(u, Bonus) \/ UNCHANGED ledgerVars
    /\ signup' = [signup EXCEPT ![u] = "done"]
    /\ UNCHANGED <<users, req, dialect>>

(* A restart cuts every request short.                                     *)
CutShort ==
    /\ signup' = [u \in Users |-> IF signup[u] = "none" THEN "none" ELSE "done"]
    /\ req' = [r \in Requests |-> NoRequest]

(* A faulty Restart promotes without counting.                             *)
RestartUncounted ==
    /\ users' = IF Bootstrap \in Registered
                THEN [users EXCEPT ![Bootstrap].role = "admin"] ELSE users
    /\ CutShort
    /\ UNCHANGED <<ledgerVars, dialect>>

(* main promotes before it listens; when that fails it logs it and goes on. *)
Restart ==
    /\ \/ users' = IF Bootstrap \in Registered /\ Admins = {}
                   THEN [users EXCEPT ![Bootstrap].role = "admin"] ELSE users
       \/ UNCHANGED users
    /\ CutShort
    /\ UNCHANGED <<ledgerVars, dialect>>

-----------------------------------------------------------------------------
(* PATCH /api/v1/admin/users/:id.                                          *)

(* RequireActiveUser.                                                      *)
Arrive(r, actor) ==
    /\ req[r].pc = "idle"
    /\ users[actor].status = "active"
    /\ req' = [req EXCEPT ![r] = [NoRequest EXCEPT !.pc = "active", !.actor = actor]]
    /\ UNCHANGED <<ledgerVars, users, signup, dialect>>

Answer(r) == req' = [req EXCEPT ![r] = NoRequest]

(* RequireAdmin, which reads the user again.                               *)
Authorize(r) ==
    /\ req[r].pc = "active"
    /\ IF users[req[r].actor].role = "admin"
       THEN req' = [req EXCEPT ![r].pc = "admin"] ELSE Answer(r)
    /\ UNCHANGED <<ledgerVars, users, signup, dialect>>

(* The target is read before the transaction, and whether the patch takes  *)
(* an administrator away is decided from what was read. The caller plays   *)
(* no part in what follows.                                                *)
ReadTarget(r, target, role, status) ==
    /\ req[r].pc = "admin"
    /\ target \in Registered \ {req[r].actor}
    /\ role # NULL \/ status # NULL
    /\ req' = [req EXCEPT ![r].pc = "tx", ![r].actor = NULL, ![r].target = target,
                          ![r].role = role, ![r].status = status,
                          ![r].lose = /\ users[target].role = "admin"
                                      /\ role = "user" \/ status = "banned"]
    /\ UNCHANGED <<ledgerVars, users, signup, dialect>>

(* A faulty Patched also writes the fields the request left out.           *)
PatchedWhole(row, q) == [role |-> q.role, status |-> q.status]

Patched(row, q) ==
    [role |-> IF q.role = NULL THEN row.role ELSE q.role,
     status |-> IF q.status = NULL THEN row.status ELSE q.status]

(* A faulty Patch guards a demotion and not a ban.                         *)
PatchGuardingRoleOnly(r) ==
    /\ req[r].pc = "tx"
    /\ users' = IF req[r].lose /\ req[r].role = "user" /\ Cardinality(ActiveAdmins) <= 1
                THEN users ELSE [users EXCEPT ![req[r].target] = Patched(@, req[r])]
    /\ Answer(r)
    /\ UNCHANGED <<ledgerVars, signup, dialect>>

(* The guard inside the transaction counts the usable administrators FOR   *)
(* UPDATE. Postgres rejects that of an aggregate, so that there the        *)
(* transaction fails; SQLite reads it as a plain count.                    *)
Allowed(r) ==
    req[r].lose => dialect = "sqlite" /\ Cardinality(ActiveAdmins) > 1

(* The transaction: the count, then the UPDATE. The user is read again for *)
(* the answer, which may fail after the change was made.                   *)
Patch(r) ==
    /\ req[r].pc = "tx"
    /\ users' = IF Allowed(r) THEN [users EXCEPT ![req[r].target] = Patched(@, req[r])]
                ELSE users
    /\ Answer(r)
    /\ UNCHANGED <<ledgerVars, signup, dialect>>

(* The transaction fails or the connection breaks.                         *)
PatchFails(r) ==
    /\ req[r].pc # "idle"
    /\ Answer(r)
    /\ UNCHANGED <<ledgerVars, users, signup, dialect>>

Next ==
    \/ \E u \in Users : \/ Register(u) \/ PromoteCount(u) \/ PromoteUpdate(u)
                        \/ PromoteFails(u) \/ SignupBonus(u)
    \/ \E r \in Requests :
          \/ \E actor \in Users : Arrive(r, actor)
          \/ \E target \in Users, role \in {"user", "admin", NULL},
                status \in {"active", "banned", NULL} : ReadTarget(r, target, role, status)
          \/ Authorize(r) \/ Patch(r) \/ PatchFails(r)
    \/ Restart

Spec == Init /\ [][Next]_vars

-----------------------------------------------------------------------------
(* Properties                                                              *)

(* Every variable has its type.                                            *)
TypeOK ==
    /\ Ledger!TypeOK
    /\ users \in [Users -> [role : {"user", "admin"}, status : {"active", "banned"}] \cup {NoUser}]
    /\ signup \in [Users -> {"none", "count", "promote", "bonus", "done"}]
    /\ \A r \in Requests : /\ req[r].pc \in {"idle", "active", "admin", "tx"}
                           /\ req[r].actor \in Users \cup {NULL}
                           /\ req[r].target \in Users \cup {NULL}
    /\ dialect \in Dialects

Decided(r) == req[r].pc = "tx" /\ req'[r].pc = "idle"

(* A patch that saw an administrator in its target never takes the last    *)
(* usable one away, by demotion or by ban, whatever the other requests did *)
(* since it read (admin_users.go, guard 2).                                *)
CountedStep ==
    \A r \in Requests :
        Decided(r) /\ req[r].lose /\ ActiveAdmins # {} => ActiveAdmins' # {}

CountedPatchLeavesAdmin == [][CountedStep]_vars

(* Once somebody can administer, somebody always can: no request takes the *)
(* last usable administrator away (admin_users.go, guard 2).               *)
AdminRemains == [][ActiveAdmins # {} => ActiveAdmins' # {}]_vars

(* The bootstrap window closes for good with the first administrator: a    *)
(* user becomes one at another's hand, or when there is none               *)
(* (bootstrap/admin.go).                                                   *)
WindowStep ==
    \A u \in Users :
        u \in Admins' \ Admins =>
            \/ \E r \in Requests : Decided(r) /\ req[r].target = u /\ req[r].role = "admin"
            \/ u = Bootstrap /\ Admins = {}

BootstrapWindowCloses == [][WindowStep]_vars

(* The signup bonus goes to registered users, once each, over repeated     *)
(* requests and restarts.                                                  *)
BonusOnce == \A u \in Users : Len(txs[u]) <= 1 /\ (Len(txs[u]) = 1 => u \in Registered)
=============================================================================
