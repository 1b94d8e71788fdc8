------------------------------ MODULE Catalog ------------------------------
(***************************************************************************)
(* What is for sale: the tables plans and image_models. They are written   *)
(* by the seeding of every process that opens the database                 *)
(* (src/internal/database/database.go), by administrators' requests        *)
(* (src/internal/handler/admin_plans.go, admin_models.go), and by          *)
(* seed-stripe, which makes a Stripe Price for each plan that has none     *)
(* (src/cmd/seed-stripe/main.go). Stripe's Prices are external and         *)
(* immutable; a user who subscribes buys one of them.                      *)
(*                                                                         *)
(* An administrator's request reads a row and decides, then writes; in     *)
(* between anything may happen. A request that is refused changes nothing  *)
(* and is no step. Display names, sort orders and upstream names are left  *)
(* out: nothing depends on them.                                           *)
(***************************************************************************)
EXTENDS Integers, Sequences, FiniteSets

CONSTANTS
    Plans, Models,
    SeededModels,   \* the models of seedModels
    Cents,          \* prices in administrators' requests
    Credits,        \* credits in administrators' requests
    SeedCents,      \* the price of a seeded plan
    SeedCredits,    \* the credits of a seeded row
    Requests,       \* administrators' requests in progress at a time
    Seeders,        \* runs of seed-stripe in progress at a time
    MaxPrices,      \* bound: Prices made in Stripe
    MaxEdits,       \* bound: administrators' requests
    NULL

ASSUME CentsAssumption == Cents \subseteq Int /\ Credits \subseteq Int
ASSUME SeedAssumption == SeedCents \in Nat \ {0} /\ SeedCredits \in Nat \ {0}
ASSUME ModelsAssumption == SeededModels \subseteq Models
ASSUME CatalogBounds == MaxPrices \in Nat /\ MaxEdits \in Nat
ASSUME NullAssumption == NULL \notin Int \cup BOOLEAN \cup Plans \cup Models

VARIABLES
    plans,         \* table plans: [Plans -> row, or NoPlan]
    models,        \* table image_models: [Models -> row, or NoModel]
    prices,        \* Stripe's Prices; a Price's id is its position
    seeder,        \* [Seeders -> a run of seed-stripe, or NotRunning]
    req,           \* [Requests -> an administrator's request, or NoRequest]
    sold,          \* <<plan, Price>> of the subscriptions sold
    edits,         \* administrators' requests so far
    overlapped     \* plans priced by two at a time; see Contended

vars == <<plans, models, prices, seeder, req, sold, edits, overlapped>>

NoPlan == [cents |-> NULL, credits |-> NULL, price |-> NULL, enabled |-> NULL]
NoModel == [credits |-> NULL, enabled |-> NULL]
SeedPlan == [cents |-> SeedCents, credits |-> SeedCredits, price |-> NULL, enabled |-> TRUE]
SeedModel == [credits |-> SeedCredits, enabled |-> TRUE]
NotRunning == [todo |-> <<>>, made |-> <<>>]
NoRequest == [kind |-> "none", id |-> NULL, cents |-> NULL, credits |-> NULL, enabled |-> NULL]

Init ==
    /\ plans = [p \in Plans |-> NoPlan]
    /\ models = [m \in Models |-> NoModel]
    /\ prices = <<>>
    /\ seeder = [s \in Seeders |-> NotRunning]
    /\ req = [r \in Requests |-> NoRequest]
    /\ sold = {}
    /\ edits = 0
    /\ overlapped = {}

(* The processes find a database that one of them has opened.              *)
Opened == \A p \in Plans : plans[p] # NoPlan

(* The plans that a run of seed-stripe is about to price while another run *)
(* is, or while a request is changing their amount.                        *)
Contended ==
    {p \in Plans : \E s \in Seeders :
        /\ p \in DOMAIN seeder[s].todo
        /\ \/ \E s0 \in Seeders \ {s} : p \in DOMAIN seeder[s0].todo
           \/ \E r \in Requests : req[r].kind = "plan" /\ req[r].id = p /\ req[r].cents # NULL}

(* Part of every step: the plans that have been contended so far.          *)
Watch == overlapped' = overlapped \cup Contended'

-----------------------------------------------------------------------------
(* Opening the database.                                                   *)

(* A faulty SeedPlans saves its rows whether they exist or not.            *)
SeedPlansSaving == [p \in Plans |-> [SeedPlan EXCEPT !.price = plans[p].price]]

(* FirstOrCreate of each plan, and of each built-in model. A row's is      *)
(* independent of the others', so that one step stands for all of them.    *)
SeedPlans == [p \in Plans |-> IF plans[p] = NoPlan THEN SeedPlan ELSE plans[p]]

SeedModels ==
    [m \in Models |-> IF m \in SeededModels /\ models[m] = NoModel THEN SeedModel ELSE models[m]]

(* The server starts, or starts again and has lost what was in progress.   *)
StartServer ==
    /\ plans' = SeedPlans /\ models' = SeedModels
    /\ req' = [r \in Requests |-> NoRequest]
    /\ UNCHANGED <<prices, seeder, sold, edits>>
    /\ Watch

-----------------------------------------------------------------------------
(* Administrators.                                                         *)

Ask(r, kind, id, cents, credits, enabled) ==
    /\ Opened /\ req[r] = NoRequest /\ edits < MaxEdits
    /\ req' = [req EXCEPT ![r] = [kind |-> kind, id |-> id, cents |-> cents,
                                  credits |-> credits, enabled |-> enabled]]
    /\ edits' = edits + 1
    /\ UNCHANGED <<plans, models, prices, seeder, sold>>
    /\ Watch

(* A faulty PatchPlan does not look for a Price.                           *)
PatchPlanUnlocked(r, p, cents, credits, enabled) ==
    /\ cents # NULL => cents > 0
    /\ credits # NULL => credits >= 0
    /\ <<cents, credits, enabled>> # <<NULL, NULL, NULL>>
    /\ Ask(r, "plan", p, cents, credits, enabled)

(* PATCH of a plan up to its UPDATE: the amount may change while the row   *)
(* that was read has no Price; zero credits are legal.                     *)
PatchPlan(r, p, cents, credits, enabled) ==
    /\ cents # NULL => plans[p].price = NULL /\ cents > 0
    /\ credits # NULL => credits >= 0
    /\ <<cents, credits, enabled>> # <<NULL, NULL, NULL>>
    /\ Ask(r, "plan", p, cents, credits, enabled)

(* POST of a model up to its transaction: at least one credit, a provider  *)
(* with an adapter, and no model of that id yet.                           *)
CreateModel(r, m, credits, enabled) ==
    /\ models[m] = NoModel
    /\ credits >= 1
    /\ Ask(r, "create", m, NULL, credits, enabled)

(* PATCH of a model up to its UPDATE.                                      *)
PatchModel(r, m, credits, enabled) ==
    /\ models[m] # NoModel
    /\ credits # NULL => credits >= 1
    /\ <<credits, enabled>> # <<NULL, NULL>>
    /\ Ask(r, "model", m, NULL, credits, enabled)

(* A faulty Given writes a column that the request leaves out.             *)
GivenAlways(asked, old) == asked

Given(asked, old) == IF asked = NULL THEN old ELSE asked

(* The UPDATE of the columns in the request, by id alone.                  *)
UpdatePlan(r) ==
    LET q == req[r]
    IN  /\ q.kind = "plan"
        /\ plans' = [plans EXCEPT ![q.id].cents = Given(q.cents, @),
                                  ![q.id].credits = Given(q.credits, @),
                                  ![q.id].enabled = Given(q.enabled, @)]
        /\ req' = [req EXCEPT ![r] = NoRequest]
        /\ UNCHANGED <<models, prices, seeder, sold, edits>>
        /\ Watch

UpdateModel(r) ==
    LET q == req[r]
    IN  /\ q.kind = "model"
        /\ models' = [models EXCEPT ![q.id].credits = Given(q.credits, @),
                                    ![q.id].enabled = Given(q.enabled, @)]
        /\ req' = [req EXCEPT ![r] = NoRequest]
        /\ UNCHANGED <<plans, prices, seeder, sold, edits>>
        /\ Watch

(* The transaction that inserts, and turns off what the column's default   *)
(* turned on. An id taken meanwhile violates the primary key.              *)
InsertModel(r) ==
    LET q == req[r]
    IN  /\ q.kind = "create"
        /\ IF models[q.id] = NoModel
           THEN models' = [models EXCEPT ![q.id] = [credits |-> q.credits, enabled |-> q.enabled]]
           ELSE UNCHANGED models
        /\ req' = [req EXCEPT ![r] = NoRequest]
        /\ UNCHANGED <<plans, prices, seeder, sold, edits>>
        /\ Watch

(* A statement of the request fails.                                       *)
RequestFails(r) ==
    /\ req[r] # NoRequest
    /\ req' = [req EXCEPT ![r] = NoRequest]
    /\ UNCHANGED <<plans, models, prices, seeder, sold, edits>>
    /\ Watch

-----------------------------------------------------------------------------
(* seed-stripe.                                                            *)

(* A faulty StartSeeder does not skip the plans that have a Price.         *)
StartSeederOver(s) ==
    /\ seeder[s] = NotRunning
    /\ plans' = SeedPlans /\ models' = SeedModels
    /\ seeder' = [seeder EXCEPT ![s] =
          [todo |-> [p \in Plans |-> SeedPlans[p].cents], made |-> <<>>]]
    /\ UNCHANGED <<prices, req, sold, edits>>
    /\ Watch

(* It opens the database and reads the plans once; those with a Price are  *)
(* skipped.                                                                *)
StartSeeder(s) ==
    /\ seeder[s] = NotRunning
    /\ plans' = SeedPlans /\ models' = SeedModels
    /\ seeder' = [seeder EXCEPT ![s] =
          [made |-> <<>>,
           todo |-> [p \in {q \in Plans : SeedPlans[q].price = NULL} |-> SeedPlans[p].cents]]]
    /\ UNCHANGED <<prices, req, sold, edits>>
    /\ Watch

(* Stripe makes a Product and a Price of the amount that was read. The     *)
(* plans are in the order administrators gave them: in any order.          *)
MakePrice(s, p) ==
    /\ p \in DOMAIN seeder[s].todo /\ seeder[s].made = <<>>
    /\ Len(prices) < MaxPrices
    /\ prices' = Append(prices, [plan |-> p, cents |-> seeder[s].todo[p]])
    /\ seeder' = [seeder EXCEPT ![s].made = <<p, Len(prices) + 1>>]
    /\ UNCHANGED <<plans, models, req, sold, edits>>
    /\ Watch

Without(f, p) == [q \in DOMAIN f \ {p} |-> f[q]]

(* The Price's id is written to the plan, whatever it says by now.         *)
WriteBack(s) ==
    /\ seeder[s].made # <<>>
    /\ LET p == seeder[s].made[1]
       IN  /\ plans' = [plans EXCEPT ![p].price = seeder[s].made[2]]
           /\ seeder' = [seeder EXCEPT ![s].todo = Without(@, p), ![s].made = <<>>]
    /\ UNCHANGED <<models, prices, req, sold, edits>>
    /\ Watch

(* The run is over, has died, or has met an error, before or after Stripe  *)
(* did what it was asked.                                                  *)
ExitSeeder(s) ==
    /\ seeder[s] # NotRunning
    /\ seeder' = [seeder EXCEPT ![s] = NotRunning]
    /\ UNCHANGED <<plans, models, prices, req, sold, edits>>
    /\ Watch

-----------------------------------------------------------------------------
(* A user subscribes to an enabled plan that has a Price, and is billed    *)
(* that Price from then on.                                                *)
Subscribe(p) ==
    /\ plans[p].enabled = TRUE /\ plans[p].price # NULL
    /\ sold' = sold \cup {<<p, plans[p].price>>}
    /\ UNCHANGED <<plans, models, prices, seeder, req, edits>>
    /\ Watch

(* The plans an invoice for a Price is granted by; enabled plays no part.  *)
PlanByPriceID(price) == {p \in Plans : plans[p].price = price}

AdminStep(r) ==
    \/ \E p \in Plans, cents \in Cents \cup {NULL}, credits \in Credits \cup {NULL},
          enabled \in BOOLEAN \cup {NULL} : PatchPlan(r, p, cents, credits, enabled)
    \/ \E m \in Models, credits \in Credits, enabled \in BOOLEAN :
          CreateModel(r, m, credits, enabled)
    \/ \E m \in Models, credits \in Credits \cup {NULL}, enabled \in BOOLEAN \cup {NULL} :
          PatchModel(r, m, credits, enabled)
    \/ UpdatePlan(r) \/ UpdateModel(r) \/ InsertModel(r) \/ RequestFails(r)

SeederStep(s) ==
    \/ StartSeeder(s) \/ WriteBack(s) \/ ExitSeeder(s)
    \/ \E p \in Plans : MakePrice(s, p)

Next ==
    \/ StartServer
    \/ \E r \in Requests : AdminStep(r)
    \/ \E s \in Seeders : SeederStep(s)
    \/ \E p \in Plans : Subscribe(p)

Spec == Init /\ [][Next]_vars

-----------------------------------------------------------------------------
(* Properties                                                              *)

(* Every variable has its type. Every model can be paid for: credit.Spend  *)
(* refuses a cost below one.                                               *)
TypeOK ==
    /\ \A p \in Plans : plans[p] # NoPlan =>
          /\ plans[p].cents \in Nat \ {0} /\ plans[p].credits \in Nat
          /\ plans[p].price \in 1 .. Len(prices) \cup {NULL}
          /\ plans[p].enabled \in BOOLEAN
    /\ \A m \in Models : models[m] # NoModel =>
          models[m].credits \in Nat \ {0} /\ models[m].enabled \in BOOLEAN
    /\ \A i \in DOMAIN prices : prices[i].plan \in Plans /\ prices[i].cents \in Nat
    /\ \A s \in Seeders : DOMAIN seeder[s].todo \subseteq Plans
    /\ \A r \in Requests : req[r].kind \in {"none", "plan", "create", "model"}
    /\ sold \subseteq Plans \X (1 .. Len(prices)) /\ overlapped \subseteq Plans

(* A plan that has a Price is listed for what Stripe charges: over edits,  *)
(* restarts and runs of seed-stripe that die anywhere, unless one of these *)
(* overlapped the pricing of that plan (admin_plans.go, the price lock).   *)
ListedPriceIsCharged ==
    \A p \in Plans \ overlapped :
        plans[p].price # NULL => prices[plans[p].price] = [plan |-> p, cents |-> plans[p].cents]

(* Every Price somebody pays finds the plan that was sold, and no other,   *)
(* also after the plan was edited or taken off the list: the invoices to   *)
(* come are granted (seed-stripe: never overwrite). Two runs that overlap  *)
(* are excluded.                                                           *)
SoldPricesAreKnown ==
    \A sale \in sold : sale[1] \notin overlapped => PlanByPriceID(sale[2]) = {sale[1]}

Served(r, kind, id) == req[r].kind = kind /\ req[r].id = id /\ req'[r] = NoRequest

(* What a row says changes only to what an administrator's request asks    *)
(* for in that step, never by a restart, a second creation, a column's     *)
(* default or another request's older copy; a new model is exactly as it   *)
(* was asked for (database.go, admin_models.go).                           *)
EditStep ==
    /\ \A p \in Plans, f \in {"cents", "credits", "enabled"} :
          plans[p] # NoPlan /\ plans'[p][f] # plans[p][f] =>
              \E r \in Requests : Served(r, "plan", p) /\ plans'[p][f] = req[r][f]
    /\ \A m \in Models, f \in {"credits", "enabled"} :
          models'[m][f] # models[m][f] =>
              \/ models[m] = NoModel /\ models'[m] = SeedModel /\ m \in SeededModels
              \/ \E r \in Requests :
                    /\ Served(r, IF models[m] = NoModel THEN "create" ELSE "model", m)
                    /\ models'[m][f] = req[r][f]

EditsAreAskedFor == [][EditStep]_vars
=============================================================================
