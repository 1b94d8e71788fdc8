--------------------------- MODULE CatalogProofs ---------------------------
(***************************************************************************)
(* What is for sale, for any plans and models, any number of requests and  *)
(* of runs of seed-stripe at a time: proofs about Catalog.                 *)
(*                                                                         *)
(* A plan is priced by one run that read its amount, and while nobody else *)
(* concerns himself with the amount the copy of the run stays true.        *)
(* Whoever does puts the plan among the overlapped ones before he can do   *)
(* any harm, which is what Contended and Watch are made for.               *)
(***************************************************************************)
EXTENDS Catalog, TLAPS

(* The invariant: the types of the tables, named for their rows.           *)
PlanRow == [cents : Nat \ {0}, credits : Nat, price : Nat \cup {NULL}, enabled : BOOLEAN]
ModelRow == [credits : Nat \ {0}, enabled : BOOLEAN]
Price == [plan : Plans, cents : Nat \ {0}]
Todo == UNION {[D -> Nat \ {0}] : D \in SUBSET Plans}
Run == [todo : Todo, made : {<<>>} \cup (Plans \X Nat)]
Request == [kind : {"none", "plan", "create", "model"}, id : Plans \cup Models \cup {NULL},
            cents : Int \cup {NULL}, credits : Int \cup {NULL}, enabled : BOOLEAN \cup {NULL}]

TypeInv ==
    /\ plans \in [Plans -> PlanRow \cup {NoPlan}]
    /\ models \in [Models -> ModelRow \cup {NoModel}]
    /\ prices \in Seq(Price)
    /\ seeder \in [Seeders -> Run]
    /\ req \in [Requests -> Request]
    /\ overlapped \subseteq Plans /\ Contended \subseteq overlapped

(* The Price of a plan was made for it, and for its amount.                *)
PlanOK(p) ==
    plans[p].price # NULL =>
        /\ plans[p].price \in DOMAIN prices /\ prices[plans[p].price].plan = p
        /\ p \notin overlapped => prices[plans[p].price].cents = plans[p].cents

(* A run's copy of an amount is true, its plan has no Price, and the Price *)
(* it made is of its copy.                                                 *)
RunOK(s) ==
    /\ \A p \in DOMAIN seeder[s].todo :
          /\ plans[p] # NoPlan
          /\ p \notin overlapped => plans[p].price = NULL /\ seeder[s].todo[p] = plans[p].cents
    /\ seeder[s].made # <<>> =>
          /\ seeder[s].made[1] \in DOMAIN seeder[s].todo
          /\ seeder[s].made[2] \in DOMAIN prices
          /\ prices[seeder[s].made[2]].plan = seeder[s].made[1]
          /\ prices[seeder[s].made[2]].cents = seeder[s].todo[seeder[s].made[1]]

(* What a request is about to write is legal, and an amount still unpriced. *)
ReqOK(r) ==
    /\ req[r].kind = "plan" =>
          /\ req[r].id \in Plans /\ plans[req[r].id] # NoPlan
          /\ req[r].cents \in (Nat \ {0}) \cup {NULL} /\ req[r].credits \in Nat \cup {NULL}
          /\ req[r].cents # NULL /\ req[r].id \notin overlapped => plans[req[r].id].price = NULL
    /\ req[r].kind = "create" =>
          req[r].id \in Models /\ req[r].credits \in Nat \ {0} /\ req[r].enabled \in BOOLEAN
    /\ req[r].kind = "model" =>
          /\ req[r].id \in Models /\ models[req[r].id] # NoModel
          /\ req[r].credits \in (Nat \ {0}) \cup {NULL}

(* Who bought a plan pays the Price that the plan still has.               *)
SaleOK(sale) ==
    /\ sale \in Plans \X Nat /\ sale[2] \in DOMAIN prices
    /\ sale[1] \notin overlapped => plans[sale[1]].price = sale[2]

IInv ==
    /\ TypeInv
    /\ \A p \in Plans : PlanOK(p)
    /\ \A s \in Seeders : RunOK(s)
    /\ \A r \in Requests : ReqOK(r)
    /\ \A sale \in sold : SaleOK(sale)

-----------------------------------------------------------------------------
(* What a step leaves alone                                                *)

(* Plans are only ever added to the overlapped ones.                       *)
LEMMA Marked ==
    ASSUME IInv, Watch
    PROVE  /\ overlapped \subseteq overlapped' /\ overlapped' \subseteq Plans
           /\ Contended' \subseteq overlapped'
<1>1. Contended' \subseteq Plans
  BY DEF Contended
<1> QED BY <1>1 DEF IInv, TypeInv, Watch

(* The Prices are only ever added to.                                      *)
PricesStay ==
    \A i \in DOMAIN prices : i \in DOMAIN prices' /\ prices'[i] = prices[i]

(* A new Price comes after the others.                                     *)
LEMMA PricesGrow ==
    ASSUME IInv, NEW e \in Price, prices' = Append(prices, e)
    PROVE  /\ PricesStay /\ prices' \in Seq(Price)
           /\ Len(prices) + 1 \in DOMAIN prices' /\ prices'[Len(prices) + 1] = e
<1>1. prices \in Seq(Price)
  BY DEF IInv, TypeInv
<1> QED BY <1>1 DEF PricesStay

(* A plan whose row stays keeps what is said of it.                        *)
LEMMA SamePlan ==
    ASSUME NEW p \in Plans, PlanOK(p), PricesStay, overlapped \subseteq overlapped', plans'[p] = plans[p]
    PROVE  PlanOK(p)'
BY DEF PlanOK, PricesStay

(* A run goes on as it was while the plans it has to do stay as they are.  *)
LEMMA SameRun ==
    ASSUME NEW s \in Seeders, RunOK(s), PricesStay, overlapped \subseteq overlapped',
           seeder'[s] = seeder[s], \A p \in DOMAIN seeder[s].todo : plans'[p] = plans[p]
    PROVE  RunOK(s)'
BY DEF RunOK, PricesStay

(* A request waits as it was while its row stays.                          *)
LEMMA SameRequest ==
    ASSUME NEW r \in Requests, ReqOK(r), overlapped \subseteq overlapped', req'[r] = req[r],
           req[r].kind = "plan" => /\ plans'[req[r].id] # NoPlan
                                   /\ plans'[req[r].id].price = plans[req[r].id].price,
           req[r].kind = "model" => models'[req[r].id] # NoModel
    PROVE  ReqOK(r)'
BY DEF ReqOK

(* So does a sale while its plan keeps its Price.                          *)
LEMMA SameSale ==
    ASSUME NEW sale, SaleOK(sale), PricesStay, overlapped \subseteq overlapped',
           plans'[sale[1]].price = plans[sale[1]].price
    PROVE  SaleOK(sale)'
BY DEF SaleOK, PricesStay

(* A request that is over asks for nothing.                                *)
LEMMA OverIsOK ==
    ASSUME NEW r \in Requests, req'[r] = NoRequest
    PROVE  ReqOK(r)'
BY DEF ReqOK, NoRequest

(* A run that is over has nothing to do.                                   *)
LEMMA IdleIsOK ==
    ASSUME NEW s \in Seeders, seeder'[s] = NotRunning
    PROVE  RunOK(s)'
BY DEF RunOK, NotRunning

(* The records that stand for nothing have the types of the tables.        *)
LEMMA Nothing ==
    /\ NoRequest \in Request /\ NotRunning \in Run
    /\ SeedPlan \in PlanRow /\ SeedModel \in ModelRow
    /\ SeedPlan # NoPlan /\ SeedModel # NoModel
    /\ NoPlan \notin PlanRow /\ NoModel \notin ModelRow
<1>1. NULL \in Plans \cup Models \cup {NULL} /\ NULL \in Int \cup {NULL} /\ NULL \in BOOLEAN \cup {NULL}
  OBVIOUS
<1>2. NoRequest \in Request
  BY <1>1 DEF NoRequest, Request
<1>3. NotRunning \in Run
  <2>1. <<>> \in [{} -> Nat \ {0}]
    OBVIOUS
  <2>2. <<>> \in Todo
    BY <2>1 DEF Todo
  <2> QED BY <2>2 DEF NotRunning, Run
<1>4. SeedPlan \in PlanRow /\ SeedModel \in ModelRow
  BY SeedAssumption DEF SeedPlan, SeedModel, PlanRow, ModelRow
<1>5. NULL \notin Nat
  BY NullAssumption
<1>6. NoPlan \notin PlanRow /\ NoModel \notin ModelRow
  BY <1>5 DEF NoPlan, NoModel, PlanRow, ModelRow
<1> QED BY <1>2, <1>3, <1>4, <1>6

(* The invariant holds of the empty database.                              *)
LEMMA InitIInv == Init => IInv
<1> SUFFICES ASSUME Init PROVE IInv
  OBVIOUS
<1>1. /\ plans \in [Plans -> PlanRow \cup {NoPlan}] /\ models \in [Models -> ModelRow \cup {NoModel}]
      /\ prices \in Seq(Price) /\ seeder \in [Seeders -> Run] /\ req \in [Requests -> Request]
  BY Nothing DEF Init
<1>2. \A s \in Seeders : DOMAIN seeder[s].todo = {}
  BY DEF Init, NotRunning
<1>3. overlapped = {} /\ Contended = {}
  BY <1>2 DEF Init, Contended
<1>4. \A p \in Plans : PlanOK(p)
  BY DEF Init, PlanOK, NoPlan
<1>5. \A s \in Seeders : RunOK(s)
  BY DEF Init, RunOK, NotRunning
<1>6. \A r \in Requests : ReqOK(r)
  BY DEF Init, ReqOK, NoRequest
<1> QED BY <1>1, <1>3, <1>4, <1>5, <1>6 DEF IInv, TypeInv, Init

-----------------------------------------------------------------------------
(* Opening the database                                                    *)

(* Seeding adds rows and leaves those that exist alone.                    *)
LEMMA SeedingAdds ==
    ASSUME IInv, plans' = SeedPlans, models' = SeedModels
    PROVE  /\ plans' \in [Plans -> PlanRow \cup {NoPlan}]
           /\ models' \in [Models -> ModelRow \cup {NoModel}]
           /\ \A p \in Plans : /\ plans'[p] # NoPlan /\ plans'[p].price = plans[p].price
                               /\ plans[p] # NoPlan => plans'[p] = plans[p]
           /\ \A m \in Models : models[m] # NoModel => models'[m] = models[m]
<1>1. plans \in [Plans -> PlanRow \cup {NoPlan}] /\ models \in [Models -> ModelRow \cup {NoModel}]
  BY DEF IInv, TypeInv
<1>2. \A p \in Plans : plans'[p] = IF plans[p] = NoPlan THEN SeedPlan ELSE plans[p]
  BY DEF SeedPlans
<1>3. plans' \in [Plans -> PlanRow \cup {NoPlan}]
  BY <1>1, Nothing DEF SeedPlans
<1>4. models' \in [Models -> ModelRow \cup {NoModel}]
  BY <1>1, Nothing DEF SeedModels
<1>5. \A p \in Plans : /\ plans'[p] # NoPlan /\ plans'[p].price = plans[p].price
                       /\ plans[p] # NoPlan => plans'[p] = plans[p]
  <2>1. SeedPlan.price = NULL /\ NoPlan.price = NULL
    BY DEF SeedPlan, NoPlan
  <2> QED BY <1>2, <2>1, Nothing
<1>6. \A m \in Models : models[m] # NoModel => models'[m] = models[m]
  BY DEF SeedModels
<1> QED BY <1>3, <1>4, <1>5, <1>6

(* What seeding does to the invariant's parts.                             *)
LEMMA SeedingKeeps ==
    ASSUME IInv, plans' = SeedPlans, models' = SeedModels, prices' = prices, sold' = sold, Watch
    PROVE  /\ \A p \in Plans : PlanOK(p)'
           /\ \A s \in Seeders : seeder'[s] = seeder[s] => RunOK(s)'
           /\ \A r \in Requests : req'[r] = req[r] => ReqOK(r)'
           /\ \A sale \in sold' : SaleOK(sale)'
<1>1. /\ \A p \in Plans : /\ plans'[p] # NoPlan /\ plans'[p].price = plans[p].price
                          /\ plans[p] # NoPlan => plans'[p] = plans[p]
      /\ \A m \in Models : models[m] # NoModel => models'[m] = models[m]
  BY SeedingAdds
<1>2. PricesStay /\ overlapped \subseteq overlapped'
  BY Marked DEF PricesStay
<1>3. ASSUME NEW p \in Plans PROVE PlanOK(p)'
  <2>1. PlanOK(p)
    BY DEF IInv
  <2>2. CASE plans[p] # NoPlan
    BY <1>1, <1>2, <2>1, <2>2, SamePlan
  <2>3. CASE plans[p] = NoPlan
    BY <1>1, <2>3 DEF PlanOK, NoPlan
  <2> QED BY <2>2, <2>3
<1>4. ASSUME NEW s \in Seeders, seeder'[s] = seeder[s] PROVE RunOK(s)'
  <2>1. RunOK(s) /\ DOMAIN seeder[s].todo \subseteq Plans
    BY DEF IInv, TypeInv, Run, Todo
  <2>2. \A p \in DOMAIN seeder[s].todo : plans'[p] = plans[p]
    BY <1>1, <2>1 DEF RunOK
  <2> QED BY <1>2, <1>4, <2>1, <2>2, SameRun
<1>5. ASSUME NEW r \in Requests, req'[r] = req[r] PROVE ReqOK(r)'
  <2>1. ReqOK(r)
    BY DEF IInv
  <2>2. /\ req[r].kind = "plan" => plans'[req[r].id] # NoPlan
                                   /\ plans'[req[r].id].price = plans[req[r].id].price
        /\ req[r].kind = "model" => models'[req[r].id] # NoModel
    BY <1>1, <2>1 DEF ReqOK
  <2> QED BY <1>2, <1>5, <2>1, <2>2, SameRequest
<1>6. ASSUME NEW sale \in sold PROVE SaleOK(sale)'
  <2>1. SaleOK(sale) /\ sale[1] \in Plans
    BY DEF IInv, SaleOK
  <2> QED BY <1>1, <1>2, <2>1, SameSale
<1> QED BY <1>3, <1>4, <1>5, <1>6

(* A start of the server forgets the requests in progress.                 *)
LEMMA StartServerIInv ==
    ASSUME IInv, StartServer
    PROVE  IInv'
<1>1. /\ plans' = SeedPlans /\ models' = SeedModels /\ prices' = prices /\ sold' = sold
      /\ seeder' = seeder /\ req' = [r \in Requests |-> NoRequest] /\ Watch
  BY DEF StartServer
<1>2. /\ \A p \in Plans : PlanOK(p)'
      /\ \A s \in Seeders : RunOK(s)'
      /\ \A sale \in sold' : SaleOK(sale)'
  BY <1>1, SeedingKeeps
<1>3. \A r \in Requests : ReqOK(r)'
  BY <1>1, OverIsOK
<1>4. TypeInv'
  <2>1. req' \in [Requests -> Request]
    BY <1>1, Nothing
  <2> QED BY <1>1, <2>1, SeedingAdds, Marked DEF IInv, TypeInv
<1> QED BY <1>2, <1>3, <1>4 DEF IInv

(* A run of seed-stripe begins with a true copy of the amounts.            *)
LEMMA StartSeederIInv ==
    ASSUME IInv, NEW s \in Seeders, StartSeeder(s)
    PROVE  IInv'
<1> DEFINE unpriced == {q \in Plans : SeedPlans[q].price = NULL}
           run == [made |-> <<>>, todo |-> [p \in unpriced |-> SeedPlans[p].cents]]
<1>1. /\ plans' = SeedPlans /\ models' = SeedModels /\ prices' = prices /\ sold' = sold
      /\ req' = req /\ seeder' = [seeder EXCEPT ![s] = run] /\ Watch
  BY DEF StartSeeder
<1>2. /\ \A p \in Plans : PlanOK(p)'
      /\ \A k \in Seeders : seeder'[k] = seeder[k] => RunOK(k)'
      /\ \A r \in Requests : ReqOK(r)'
      /\ \A sale \in sold' : SaleOK(sale)'
  BY <1>1, SeedingKeeps
<1>3. /\ plans' \in [Plans -> PlanRow \cup {NoPlan}] /\ \A p \in Plans : plans'[p] # NoPlan
      /\ models' \in [Models -> ModelRow \cup {NoModel}]
  BY <1>1, SeedingAdds
<1>4. \A p \in unpriced : SeedPlans[p].cents \in Nat \ {0}
  BY <1>1, <1>3 DEF PlanRow
<1>5. run \in Run
  <2>1. run.todo \in [unpriced -> Nat \ {0}]
    BY <1>4
  <2>2. run.todo \in Todo
    BY <2>1 DEF Todo
  <2> QED BY <2>2 DEF Run
<1>6. seeder \in [Seeders -> Run]
  BY DEF IInv, TypeInv
<1>7. seeder' \in [Seeders -> Run] /\ seeder'[s] = run /\ \A k \in Seeders \ {s} : seeder'[k] = seeder[k]
  BY <1>1, <1>5, <1>6
<1>8. RunOK(s)'
  <2>1. \A p \in unpriced : p \in Plans /\ plans'[p].price = NULL /\ run.todo[p] = plans'[p].cents
    BY <1>1
  <2>2. DOMAIN run.todo = unpriced /\ run.made = <<>>
    OBVIOUS
  <2> HIDE DEF run
  <2> QED BY <1>3, <1>7, <2>1, <2>2 DEF RunOK
<1>9. TypeInv'
  BY <1>1, <1>3, <1>7, Marked DEF IInv, TypeInv
<1> QED BY <1>2, <1>7, <1>8, <1>9 DEF IInv

-----------------------------------------------------------------------------
(* Administrators                                                          *)

(* A step of a request that leaves the tables alone.                       *)
LEMMA RequestIInv ==
    ASSUME IInv, NEW r \in Requests, NEW q \in Request, req' = [req EXCEPT ![r] = q],
           UNCHANGED <<plans, models, prices, seeder, sold>>, Watch,
           req'[r] = q => ReqOK(r)'
    PROVE  IInv'
<1>1. req \in [Requests -> Request]
  BY DEF IInv, TypeInv
<1>2. /\ req' \in [Requests -> Request] /\ req'[r] = q
      /\ \A k \in Requests \ {r} : req'[k] = req[k]
  BY <1>1
<1>3. PricesStay /\ overlapped \subseteq overlapped'
  BY Marked DEF PricesStay
<1>4. \A p \in Plans : PlanOK(p)'
  BY <1>3, SamePlan DEF IInv
<1>5. \A s \in Seeders : RunOK(s)'
  BY <1>3, SameRun DEF IInv
<1>6. \A sale \in sold' : SaleOK(sale)'
  BY <1>3, SameSale DEF IInv
<1>7. ASSUME NEW k \in Requests \ {r} PROVE ReqOK(k)'
  <2>1. ReqOK(k) /\ req'[k] = req[k]
    BY <1>2 DEF IInv
  <2>2. /\ req[k].kind = "plan" => plans'[req[k].id] # NoPlan
                                   /\ plans'[req[k].id].price = plans[req[k].id].price
        /\ req[k].kind = "model" => models'[req[k].id] # NoModel
    BY <2>1 DEF ReqOK
  <2> QED BY <1>3, <2>1, <2>2, SameRequest
<1>8. TypeInv'
  BY <1>2, Marked DEF IInv, TypeInv
<1> QED BY <1>2, <1>4, <1>5, <1>6, <1>7, <1>8 DEF IInv

(* What a request asks for is legal when it arrives.                       *)
LEMMA AskIInv ==
    ASSUME IInv, NEW r \in Requests,
           NEW kind \in {"plan", "create", "model"}, NEW id \in Plans \cup Models \cup {NULL},
           NEW cents \in Int \cup {NULL}, NEW credits \in Int \cup {NULL},
           NEW enabled \in BOOLEAN \cup {NULL},
           Ask(r, kind, id, cents, credits, enabled),
           kind = "plan" =>
               /\ id \in Plans /\ cents \in (Nat \ {0}) \cup {NULL} /\ credits \in Nat \cup {NULL}
               /\ cents # NULL => plans[id].price = NULL,
           kind = "create" => id \in Models /\ credits \in Nat \ {0} /\ enabled \in BOOLEAN,
           kind = "model" =>
               id \in Models /\ models[id] # NoModel /\ credits \in (Nat \ {0}) \cup {NULL}
    PROVE  IInv'
<1> DEFINE q == [kind |-> kind, id |-> id, cents |-> cents, credits |-> credits, enabled |-> enabled]
<1>1. /\ req' = [req EXCEPT ![r] = q] /\ UNCHANGED <<plans, models, prices, seeder, sold>> /\ Watch
      /\ Opened
  BY DEF Ask
<1>2. q \in Request
  BY DEF Request
<1>3. kind = "plan" => plans[id] # NoPlan
  BY <1>1 DEF Opened
<1>4. req'[r] = q => ReqOK(r)'
  <2>1. /\ q.kind = kind /\ q.id = id /\ q.cents = cents /\ q.credits = credits /\ q.enabled = enabled
    OBVIOUS
  <2> HIDE DEF q
  <2> QED BY <1>1, <1>3, <2>1 DEF ReqOK
<1> HIDE DEF q
<1> QED BY <1>1, <1>2, <1>4, RequestIInv

(* Zero credits are legal for a plan, a free one is not.                   *)
LEMMA PatchPlanIInv ==
    ASSUME IInv, NEW r \in Requests, NEW p \in Plans, NEW cents \in Cents \cup {NULL},
           NEW credits \in Credits \cup {NULL}, NEW enabled \in BOOLEAN \cup {NULL},
           PatchPlan(r, p, cents, credits, enabled)
    PROVE  IInv'
<1>1. /\ cents \in (Nat \ {0}) \cup {NULL} /\ credits \in Nat \cup {NULL}
      /\ cents # NULL => plans[p].price = NULL
      /\ Ask(r, "plan", p, cents, credits, enabled)
  <2>1. /\ cents # NULL => plans[p].price = NULL /\ cents > 0
        /\ credits # NULL => credits >= 0
        /\ Ask(r, "plan", p, cents, credits, enabled)
    BY DEF PatchPlan
  <2>2. cents # NULL => cents \in Nat \ {0}
    <3> SUFFICES ASSUME cents # NULL PROVE cents \in Nat \ {0}
      OBVIOUS
    <3>1. cents \in Int /\ cents > 0
      BY <2>1, CentsAssumption
    <3> QED BY <3>1
  <2>3. credits # NULL => credits \in Nat
    <3> SUFFICES ASSUME credits # NULL PROVE credits \in Nat
      OBVIOUS
    <3>1. credits \in Int /\ credits >= 0
      BY <2>1, CentsAssumption
    <3> QED BY <3>1
  <2> QED BY <2>1, <2>2, <2>3
<1>2. cents \in Int \cup {NULL} /\ credits \in Int \cup {NULL} /\ p \in Plans \cup Models \cup {NULL}
  BY CentsAssumption
<1> QED BY <1>1, <1>2, AskIInv

(* A new model costs at least one credit.                                  *)
LEMMA CreateModelIInv ==
    ASSUME IInv, NEW r \in Requests, NEW m \in Models, NEW credits \in Credits,
           NEW enabled \in BOOLEAN, CreateModel(r, m, credits, enabled)
    PROVE  IInv'
<1>1. credits \in Nat \ {0} /\ Ask(r, "create", m, NULL, credits, enabled)
  BY CentsAssumption DEF CreateModel
<1>2. /\ NULL \in Int \cup {NULL} /\ credits \in Int \cup {NULL}
      /\ m \in Plans \cup Models \cup {NULL} /\ enabled \in BOOLEAN \cup {NULL}
  BY CentsAssumption
<1> QED BY <1>1, <1>2, AskIInv

(* An edited model costs at least one credit.                              *)
LEMMA PatchModelIInv ==
    ASSUME IInv, NEW r \in Requests, NEW m \in Models, NEW credits \in Credits \cup {NULL},
           NEW enabled \in BOOLEAN \cup {NULL}, PatchModel(r, m, credits, enabled)
    PROVE  IInv'
<1>1. /\ credits \in (Nat \ {0}) \cup {NULL} /\ models[m] # NoModel
      /\ Ask(r, "model", m, NULL, credits, enabled)
  BY CentsAssumption DEF PatchModel
<1>2. /\ NULL \in Int \cup {NULL} /\ credits \in Int \cup {NULL}
      /\ m \in Plans \cup Models \cup {NULL}
  BY CentsAssumption
<1> QED BY <1>1, <1>2, AskIInv

(* A request that fails has written nothing.                               *)
LEMMA RequestFailsIInv ==
    ASSUME IInv, NEW r \in Requests, RequestFails(r)
    PROVE  IInv'
<1>1. /\ req' = [req EXCEPT ![r] = NoRequest] /\ Watch
      /\ UNCHANGED <<plans, models, prices, seeder, sold>>
  BY DEF RequestFails
<1>2. req'[r] = NoRequest => ReqOK(r)'
  BY OverIsOK
<1> QED BY <1>1, <1>2, Nothing, RequestIInv

(* The UPDATE of a plan keeps its Price, and its amount wherever somebody  *)
(* relies on it.                                                           *)
LEMMA UpdatePlanIInv ==
    ASSUME IInv, NEW r \in Requests, UpdatePlan(r)
    PROVE  IInv'
<1> DEFINE q == req[r]
           id == req[r].id
<1>1. /\ q.kind = "plan"
      /\ plans' = [plans EXCEPT ![id].cents = Given(q.cents, @),
                                ![id].credits = Given(q.credits, @),
                                ![id].enabled = Given(q.enabled, @)]
      /\ req' = [req EXCEPT ![r] = NoRequest]
      /\ models' = models /\ prices' = prices /\ seeder' = seeder /\ sold' = sold /\ Watch
  BY DEF UpdatePlan
<1>2. /\ id \in Plans /\ plans[id] # NoPlan
      /\ q.cents \in (Nat \ {0}) \cup {NULL} /\ q.credits \in Nat \cup {NULL}
      /\ q.enabled \in BOOLEAN \cup {NULL}
      /\ q.cents # NULL /\ id \notin overlapped => plans[id].price = NULL
      /\ req \in [Requests -> Request] /\ plans \in [Plans -> PlanRow \cup {NoPlan}]
  <2>1. ReqOK(r) /\ req \in [Requests -> Request] /\ plans \in [Plans -> PlanRow \cup {NoPlan}]
    BY DEF IInv, TypeInv
  <2>2. q.enabled \in BOOLEAN \cup {NULL}
    BY <2>1 DEF Request
  <2> QED BY <1>1, <2>1, <2>2 DEF ReqOK
<1>3. plans[id] \in PlanRow
  BY <1>2
<1>4. /\ plans'[id] = [cents |-> Given(q.cents, plans[id].cents),
                       credits |-> Given(q.credits, plans[id].credits),
                       price |-> plans[id].price,
                       enabled |-> Given(q.enabled, plans[id].enabled)]
      /\ \A p \in Plans \ {id} : plans'[p] = plans[p]
      /\ DOMAIN plans' = Plans
  <2> HIDE DEF q
  <2> QED BY <1>1, <1>2, <1>3 DEF PlanRow
<1>5. /\ plans'[id] \in PlanRow /\ plans'[id].price = plans[id].price
      /\ q.cents = NULL => plans'[id].cents = plans[id].cents
  <2>1. /\ Given(q.cents, plans[id].cents) \in Nat \ {0}
        /\ Given(q.credits, plans[id].credits) \in Nat
        /\ Given(q.enabled, plans[id].enabled) \in BOOLEAN
        /\ plans[id].price \in Nat \cup {NULL}
    BY <1>2, <1>3 DEF Given, PlanRow
  <2> HIDE DEF q, id
  <2> QED BY <1>4, <2>1 DEF PlanRow, Given
<1>6. plans' \in [Plans -> PlanRow \cup {NoPlan}]
  <2>1. plans' = [p \in Plans |-> plans'[p]]
    BY <1>1, <1>2
  <2>2. \A p \in Plans : plans'[p] \in PlanRow \cup {NoPlan}
    BY <1>2, <1>4, <1>5
  <2> QED BY <2>1, <2>2
<1>7. /\ req' \in [Requests -> Request] /\ req'[r] = NoRequest
      /\ \A k \in Requests \ {r} : req'[k] = req[k]
  BY <1>1, <1>2, Nothing
<1>8. PricesStay /\ overlapped \subseteq overlapped'
  BY <1>1, Marked DEF PricesStay
<1> HIDE DEF q, id
<1>9. plans'[id] # NoPlan /\ \A p \in Plans : plans'[p].price = plans[p].price
  BY <1>4, <1>5, Nothing
<1>10. ASSUME NEW p \in Plans PROVE PlanOK(p)'
  <2>1. PlanOK(p)
    BY DEF IInv
  <2>2. CASE p # id
    BY <1>4, <1>8, <2>1, <2>2, SamePlan
  <2>3. CASE p = id
    <3>1. plans[id].price # NULL /\ id \notin overlapped => plans'[id].cents = plans[id].cents
      BY <1>2, <1>5
    <3> QED BY <1>1, <1>8, <1>9, <2>1, <2>3, <3>1 DEF PlanOK
  <2> QED BY <2>2, <2>3
<1>11. ASSUME NEW s \in Seeders PROVE RunOK(s)'
  <2>1. RunOK(s) /\ DOMAIN seeder[s].todo \subseteq Plans
    BY DEF IInv, TypeInv, Run, Todo
  <2>2. ASSUME NEW p \in DOMAIN seeder[s].todo, p \notin overlapped
        PROVE  plans'[p].cents = plans[p].cents
    <3>1. CASE p # id
      BY <1>4, <2>1, <3>1
    <3>2. CASE p = id
      <4>1. q.cents = NULL
        BY <1>1, <2>1, <2>2, <3>2 DEF Contended, IInv, TypeInv, q, id
      <4> QED BY <1>5, <3>2, <4>1
    <3> QED BY <3>1, <3>2
  <2>3. \A p \in DOMAIN seeder[s].todo : plans'[p] # NoPlan /\ plans'[p].price = plans[p].price
    BY <1>4, <1>9, <2>1 DEF RunOK
  <2> QED BY <1>1, <1>8, <2>1, <2>2, <2>3 DEF RunOK
<1>12. ASSUME NEW k \in Requests PROVE ReqOK(k)'
  <2>1. CASE k = r
    BY <1>7, <2>1, OverIsOK
  <2>2. CASE k # r
    <3>1. ReqOK(k) /\ req'[k] = req[k]
      BY <1>7, <2>2 DEF IInv
    <3>2. /\ req[k].kind = "plan" => plans'[req[k].id] # NoPlan
                                     /\ plans'[req[k].id].price = plans[req[k].id].price
          /\ req[k].kind = "model" => models'[req[k].id] # NoModel
      BY <1>1, <1>4, <1>9, <3>1 DEF ReqOK
    <3> QED BY <1>8, <3>1, <3>2, SameRequest
  <2> QED BY <2>1, <2>2
<1>13. ASSUME NEW sale \in sold' PROVE SaleOK(sale)'
  <2>1. SaleOK(sale) /\ sale[1] \in Plans
    BY <1>1 DEF IInv, SaleOK
  <2> QED BY <1>8, <1>9, <2>1, SameSale
<1>14. TypeInv'
  BY <1>1, <1>6, <1>7, Marked DEF IInv, TypeInv
<1> QED BY <1>10, <1>11, <1>12, <1>13, <1>14 DEF IInv

(* A request that writes a model: it stays one, with at least one credit.  *)
LEMMA ModelIInv ==
    ASSUME IInv, NEW r \in Requests, req' = [req EXCEPT ![r] = NoRequest],
           UNCHANGED <<plans, prices, seeder, sold>>, Watch,
           models' \in [Models -> ModelRow \cup {NoModel}],
           \A m \in Models : models[m] # NoModel => models'[m] # NoModel
    PROVE  IInv'
<1>1. /\ req \in [Requests -> Request]
  BY DEF IInv, TypeInv
<1>2. /\ req' \in [Requests -> Request] /\ req'[r] = NoRequest
      /\ \A k \in Requests \ {r} : req'[k] = req[k]
  BY <1>1, Nothing
<1>3. PricesStay /\ overlapped \subseteq overlapped'
  BY Marked DEF PricesStay
<1>4. \A p \in Plans : PlanOK(p)'
  BY <1>3, SamePlan DEF IInv
<1>5. \A s \in Seeders : RunOK(s)'
  BY <1>3, SameRun DEF IInv
<1>6. \A sale \in sold' : SaleOK(sale)'
  BY <1>3, SameSale DEF IInv
<1>7. ASSUME NEW k \in Requests \ {r} PROVE ReqOK(k)'
  <2>1. ReqOK(k) /\ req'[k] = req[k]
    BY <1>2 DEF IInv
  <2>2. /\ req[k].kind = "plan" => plans'[req[k].id] # NoPlan
                                   /\ plans'[req[k].id].price = plans[req[k].id].price
        /\ req[k].kind = "model" => models'[req[k].id] # NoModel
    BY <2>1 DEF ReqOK
  <2> QED BY <1>3, <2>1, <2>2, SameRequest
<1>8. TypeInv'
  BY <1>2, Marked DEF IInv, TypeInv
<1> QED BY <1>2, <1>4, <1>5, <1>6, <1>7, <1>8, OverIsOK DEF IInv

(* The UPDATE of a model leaves a model.                                   *)
LEMMA UpdateModelIInv ==
    ASSUME IInv, NEW r \in Requests, UpdateModel(r)
    PROVE  IInv'
<1> DEFINE q == req[r]
           id == req[r].id
<1>1. /\ q.kind = "model"
      /\ models' = [models EXCEPT ![id].credits = Given(q.credits, @),
                                  ![id].enabled = Given(q.enabled, @)]
      /\ req' = [req EXCEPT ![r] = NoRequest]
      /\ UNCHANGED <<plans, prices, seeder, sold>> /\ Watch
  BY DEF UpdateModel
<1>2. /\ id \in Models /\ models[id] # NoModel
      /\ q.credits \in (Nat \ {0}) \cup {NULL} /\ q.enabled \in BOOLEAN \cup {NULL}
      /\ models \in [Models -> ModelRow \cup {NoModel}]
  <2>1. ReqOK(r) /\ req \in [Requests -> Request] /\ models \in [Models -> ModelRow \cup {NoModel}]
    BY DEF IInv, TypeInv
  <2>2. q.enabled \in BOOLEAN \cup {NULL}
    BY <2>1 DEF Request
  <2> QED BY <1>1, <2>1, <2>2 DEF ReqOK
<1>3. models[id] \in ModelRow
  BY <1>2
<1>4. /\ models'[id] = [credits |-> Given(q.credits, models[id].credits),
                        enabled |-> Given(q.enabled, models[id].enabled)]
      /\ \A m \in Models \ {id} : models'[m] = models[m]
  <2> HIDE DEF q
  <2> QED BY <1>1, <1>2, <1>3 DEF ModelRow
<1>5. models'[id] \in ModelRow
  <2>1. /\ Given(q.credits, models[id].credits) \in Nat \ {0}
        /\ Given(q.enabled, models[id].enabled) \in BOOLEAN
    BY <1>2, <1>3 DEF Given, ModelRow
  <2> QED BY <1>4, <2>1 DEF ModelRow
<1>6. models' \in [Models -> ModelRow \cup {NoModel}]
  <2>1. models' = [m \in Models |-> models'[m]]
    BY <1>1, <1>2
  <2>2. \A m \in Models : models'[m] \in ModelRow \cup {NoModel}
    BY <1>2, <1>4, <1>5
  <2> QED BY <2>1, <2>2
<1>7. \A m \in Models : models[m] # NoModel => models'[m] # NoModel
  BY <1>4, <1>5, Nothing
<1> QED BY <1>1, <1>6, <1>7, ModelIInv

(* The INSERT of a model writes nothing where the id is taken.             *)
LEMMA InsertModelIInv ==
    ASSUME IInv, NEW r \in Requests, InsertModel(r)
    PROVE  IInv'
<1> DEFINE row == [credits |-> req[r].credits, enabled |-> req[r].enabled]
<1>1. /\ req[r].kind = "create"
      /\ models' = models \/ models' = [models EXCEPT ![req[r].id] = row]
      /\ req' = [req EXCEPT ![r] = NoRequest]
      /\ UNCHANGED <<plans, prices, seeder, sold>> /\ Watch
  BY DEF InsertModel
<1>2. /\ req[r].id \in Models /\ req[r].credits \in Nat \ {0} /\ req[r].enabled \in BOOLEAN
      /\ models \in [Models -> ModelRow \cup {NoModel}]
  BY <1>1 DEF IInv, TypeInv, ReqOK
<1>3. row \in ModelRow /\ row # NoModel
  <2>1. row \in ModelRow
    BY <1>2 DEF ModelRow
  <2> QED BY <2>1, Nothing
<1> HIDE DEF row
<1>4. models' \in [Models -> ModelRow \cup {NoModel}]
  BY <1>1, <1>2, <1>3
<1>5. \A m \in Models : models[m] # NoModel => models'[m] # NoModel
  BY <1>1, <1>2, <1>3
<1> QED BY <1>1, <1>4, <1>5, ModelIInv

-----------------------------------------------------------------------------
(* seed-stripe                                                             *)

(* A step of a run that writes no table.                                   *)
LEMMA RunIInv ==
    ASSUME IInv, NEW s \in Seeders, NEW run \in Run, seeder' = [seeder EXCEPT ![s] = run],
           UNCHANGED <<plans, models, req, sold>>, prices' \in Seq(Price), PricesStay, Watch,
           seeder'[s] = run => RunOK(s)'
    PROVE  IInv'
<1>1. seeder \in [Seeders -> Run]
  BY DEF IInv, TypeInv
<1>2. /\ seeder' \in [Seeders -> Run] /\ seeder'[s] = run
      /\ \A k \in Seeders \ {s} : seeder'[k] = seeder[k]
  BY <1>1
<1>3. overlapped \subseteq overlapped'
  BY Marked
<1>4. \A p \in Plans : PlanOK(p)'
  BY <1>3, SamePlan DEF IInv
<1>5. \A k \in Seeders \ {s} : RunOK(k)'
  BY <1>2, <1>3, SameRun DEF IInv
<1>6. \A sale \in sold' : SaleOK(sale)'
  BY <1>3, SameSale DEF IInv
<1>7. ASSUME NEW r \in Requests PROVE ReqOK(r)'
  <2>1. ReqOK(r)
    BY DEF IInv
  <2>2. /\ req[r].kind = "plan" => plans'[req[r].id] # NoPlan
                                   /\ plans'[req[r].id].price = plans[req[r].id].price
        /\ req[r].kind = "model" => models'[req[r].id] # NoModel
    BY <2>1 DEF ReqOK
  <2> QED BY <1>3, <2>1, <2>2, SameRequest
<1>8. TypeInv'
  BY <1>2, Marked DEF IInv, TypeInv
<1> QED BY <1>2, <1>4, <1>5, <1>6, <1>7, <1>8 DEF IInv

(* A new Price is of the plan and of the amount in the run's copy.         *)
LEMMA MakePriceIInv ==
    ASSUME IInv, NEW s \in Seeders, NEW p \in Plans, MakePrice(s, p)
    PROVE  IInv'
<1> DEFINE e == [plan |-> p, cents |-> seeder[s].todo[p]]
           n == Len(prices) + 1
           run == [todo |-> seeder[s].todo, made |-> <<p, n>>]
<1>1. /\ p \in DOMAIN seeder[s].todo /\ prices' = Append(prices, e)
      /\ seeder' = [seeder EXCEPT ![s].made = <<p, n>>]
      /\ UNCHANGED <<plans, models, req, sold>> /\ Watch
  BY DEF MakePrice
<1>2. seeder \in [Seeders -> Run] /\ seeder[s] \in Run /\ prices \in Seq(Price) /\ RunOK(s)
  BY DEF IInv, TypeInv
<1>3. seeder[s].todo \in Todo
  BY <1>2 DEF Run
<1>4. e \in Price
  BY <1>1, <1>3 DEF Price, Todo
<1>5. n \in Nat
  BY <1>2
<1>6. run \in Run
  BY <1>3, <1>5 DEF Run
<1>7. seeder' = [seeder EXCEPT ![s] = run]
  <2> DEFINE pair == <<p, n>>
  <2>1. seeder' = [seeder EXCEPT ![s].made = pair] /\ run = [todo |-> seeder[s].todo, made |-> pair]
    BY <1>1
  <2> HIDE DEF pair, run
  <2>2. [seeder[s] EXCEPT !.made = pair] = [todo |-> seeder[s].todo, made |-> pair]
    BY <1>2 DEF Run
  <2> QED BY <1>2, <2>1, <2>2
<1>8. /\ PricesStay /\ prices' \in Seq(Price) /\ n \in DOMAIN prices' /\ prices'[n] = e
  BY <1>1, <1>4, PricesGrow
<1>9. seeder'[s] = run => RunOK(s)'
  <2> SUFFICES ASSUME seeder'[s] = run PROVE RunOK(s)'
    OBVIOUS
  <2>1. seeder'[s].todo = seeder[s].todo /\ seeder'[s].made[1] = p /\ seeder'[s].made[2] = n
    OBVIOUS
  <2>2. e.plan = p /\ e.cents = seeder[s].todo[p]
    OBVIOUS
  <2>3. plans' = plans /\ overlapped \subseteq overlapped'
    BY <1>1, Marked
  <2> HIDE DEF e, n, run
  <2> QED BY <1>1, <1>2, <1>8, <2>1, <2>2, <2>3 DEF RunOK
<1> HIDE DEF e, n, run
<1> QED BY <1>1, <1>6, <1>7, <1>8, <1>9, RunIInv

(* A run may end anywhere; its Prices stay, known to nobody.               *)
LEMMA ExitSeederIInv ==
    ASSUME IInv, NEW s \in Seeders, ExitSeeder(s)
    PROVE  IInv'
<1>1. /\ seeder' = [seeder EXCEPT ![s] = NotRunning] /\ Watch
      /\ UNCHANGED <<plans, models, prices, req, sold>>
  BY DEF ExitSeeder
<1>2. prices' \in Seq(Price) /\ PricesStay
  BY <1>1 DEF IInv, TypeInv, PricesStay
<1>3. seeder'[s] = NotRunning => RunOK(s)'
  BY IdleIsOK
<1> QED BY <1>1, <1>2, <1>3, Nothing, RunIInv

(* The Price goes to a plan that had none, or to an overlapped one.        *)
LEMMA WriteBackIInv ==
    ASSUME IInv, NEW s \in Seeders, WriteBack(s)
    PROVE  IInv'
<1> DEFINE p == seeder[s].made[1]
           i == seeder[s].made[2]
           rest == Without(seeder[s].todo, p)
           run == [todo |-> rest, made |-> <<>>]
<1>1. /\ seeder[s].made # <<>> /\ plans' = [plans EXCEPT ![p].price = i]
      /\ seeder' = [seeder EXCEPT ![s].todo = rest, ![s].made = <<>>]
      /\ models' = models /\ prices' = prices /\ req' = req /\ sold' = sold /\ Watch
  BY DEF WriteBack
<1>2. /\ seeder \in [Seeders -> Run] /\ seeder[s] \in Run /\ prices \in Seq(Price) /\ RunOK(s)
      /\ plans \in [Plans -> PlanRow \cup {NoPlan}]
  BY DEF IInv, TypeInv
<1>3. seeder[s].todo \in Todo /\ DOMAIN seeder[s].todo \subseteq Plans
  BY <1>2 DEF Run, Todo
<1>4. /\ p \in DOMAIN seeder[s].todo /\ p \in Plans /\ plans[p] \in PlanRow
      /\ i \in DOMAIN prices /\ i \in Nat
      /\ prices[i].plan = p /\ prices[i].cents = seeder[s].todo[p]
      /\ p \notin overlapped => plans[p].price = NULL /\ seeder[s].todo[p] = plans[p].cents
  BY <1>1, <1>2, <1>3 DEF RunOK
<1>5. run \in Run /\ DOMAIN rest = DOMAIN seeder[s].todo \ {p}
      /\ \A k \in DOMAIN rest : rest[k] = seeder[s].todo[k]
  <2>1. PICK D \in SUBSET Plans : seeder[s].todo \in [D -> Nat \ {0}]
    BY <1>3 DEF Todo
  <2>2. rest \in [D \ {p} -> Nat \ {0}]
    BY <2>1 DEF Without
  <2>3. rest \in Todo
    BY <2>2 DEF Todo
  <2>4. run \in Run
    BY <2>3 DEF Run
  <2> QED BY <2>4 DEF Without
<1>6. seeder' = [seeder EXCEPT ![s] = run]
  <2> HIDE DEF rest
  <2> QED BY <1>1, <1>2 DEF Run
<1> HIDE DEF rest
<1>7. /\ seeder' \in [Seeders -> Run] /\ seeder'[s].todo = rest /\ seeder'[s].made = <<>>
      /\ \A k \in Seeders \ {s} : seeder'[k] = seeder[k]
  BY <1>2, <1>5, <1>6
<1> HIDE DEF run, p, i
<1>8. /\ plans'[p] \in PlanRow /\ plans'[p].price = i /\ plans'[p].cents = plans[p].cents
      /\ \A k \in Plans \ {p} : plans'[k] = plans[k]
      /\ plans' \in [Plans -> PlanRow \cup {NoPlan}]
  BY <1>1, <1>2, <1>4 DEF PlanRow
<1>9. PricesStay /\ overlapped \subseteq overlapped' /\ NULL \notin Nat
  BY <1>1, Marked, NullAssumption DEF PricesStay
<1>10. ASSUME NEW k \in Plans PROVE PlanOK(k)'
  <2>1. CASE k # p
    BY <1>8, <1>9, <2>1, SamePlan DEF IInv
  <2>2. CASE k = p
    BY <1>1, <1>4, <1>8, <1>9, <2>2 DEF PlanOK
  <2> QED BY <2>1, <2>2
<1>11. ASSUME NEW k \in Seeders PROVE RunOK(k)'
  <2>1. CASE k = s
    <3>1. \A x \in DOMAIN rest : x # p /\ x \in Plans /\ plans'[x] = plans[x]
      BY <1>3, <1>5, <1>8
    <3> QED BY <1>2, <1>5, <1>7, <1>9, <2>1, <3>1 DEF RunOK
  <2>2. CASE k # s
    <3>1. RunOK(k) /\ seeder'[k] = seeder[k] /\ DOMAIN seeder[k].todo \subseteq Plans
      BY <1>7, <2>2 DEF IInv, TypeInv, Run, Todo
    <3>2. p \in DOMAIN seeder[k].todo => p \in overlapped
      BY <1>4, <2>2 DEF IInv, TypeInv, Contended
    <3>3. \A x \in DOMAIN seeder[k].todo :
             /\ plans'[x] # NoPlan
             /\ x \notin overlapped' => plans'[x].price = NULL /\ seeder[k].todo[x] = plans'[x].cents
      BY <1>8, <1>9, <3>1, <3>2, Nothing DEF RunOK
    <3> QED BY <1>1, <3>1, <3>3 DEF RunOK
  <2> QED BY <2>1, <2>2
<1>12. ASSUME NEW r \in Requests PROVE ReqOK(r)'
  <2>1. ReqOK(r)
    BY DEF IInv
  <2>2. CASE req[r].kind = "plan" /\ req[r].id = p
    <3>1. req[r].cents # NULL => p \in overlapped
      BY <1>4, <2>2 DEF IInv, TypeInv, Contended
    <3>2. plans'[p] # NoPlan
      BY <1>8, Nothing
    <3> QED BY <1>1, <1>9, <2>1, <2>2, <3>1, <3>2 DEF ReqOK
  <2>3. CASE ~(req[r].kind = "plan" /\ req[r].id = p)
    <3>1. /\ req[r].kind = "plan" => plans'[req[r].id] # NoPlan
                                     /\ plans'[req[r].id].price = plans[req[r].id].price
          /\ req[r].kind = "model" => models'[req[r].id] # NoModel
      BY <1>1, <1>8, <2>1, <2>3 DEF ReqOK
    <3> QED BY <1>1, <1>9, <2>1, <3>1, SameRequest
  <2> QED BY <2>2, <2>3
<1>13. ASSUME NEW sale \in sold' PROVE SaleOK(sale)'
  <2>1. SaleOK(sale) /\ sale \in Plans \X Nat /\ sale[1] \in Plans /\ sale[2] \in Nat
    BY <1>1 DEF IInv, SaleOK
  <2>2. CASE sale[1] # p
    BY <1>8, <1>9, <2>1, <2>2, SameSale
  <2>3. CASE sale[1] = p
    <3>1. p \in overlapped
      BY <1>4, <1>9, <2>1, <2>3 DEF SaleOK
    <3> QED BY <1>1, <1>9, <2>1, <2>3, <3>1 DEF SaleOK
  <2> QED BY <2>2, <2>3
<1>14. TypeInv'
  BY <1>1, <1>7, <1>8, Marked DEF IInv, TypeInv
<1> QED BY <1>10, <1>11, <1>12, <1>13, <1>14 DEF IInv

-----------------------------------------------------------------------------
(* The users                                                               *)

(* Who subscribes pays the Price that the plan has now.                    *)
LEMMA SubscribeIInv ==
    ASSUME IInv, NEW p \in Plans, Subscribe(p)
    PROVE  IInv'
<1> DEFINE sale == <<p, plans[p].price>>
<1>1. /\ plans[p].price # NULL /\ sold' = sold \cup {sale} /\ Watch
      /\ UNCHANGED <<plans, models, prices, seeder, req>>
  BY DEF Subscribe
<1>2. PricesStay /\ overlapped \subseteq overlapped'
  BY <1>1, Marked DEF PricesStay
<1>3. plans[p].price \in DOMAIN prices /\ plans[p].price \in Nat /\ prices \in Seq(Price)
  BY <1>1 DEF IInv, PlanOK, TypeInv
<1>4. SaleOK(sale)'
  <2>1. sale \in Plans \X Nat /\ sale[1] = p /\ sale[2] = plans[p].price
    BY <1>3
  <2> QED BY <1>1, <1>3, <2>1 DEF SaleOK
<1>5. \A k \in sold : SaleOK(k)'
  BY <1>1, <1>2, SameSale DEF IInv
<1>6. \A k \in Plans : PlanOK(k)'
  BY <1>1, <1>2, SamePlan DEF IInv
<1>7. \A s \in Seeders : RunOK(s)'
  BY <1>1, <1>2, SameRun DEF IInv
<1>8. ASSUME NEW r \in Requests PROVE ReqOK(r)'
  BY <1>1, <1>2 DEF IInv, ReqOK
<1>9. TypeInv'
  BY <1>1, Marked DEF IInv, TypeInv
<1> QED BY <1>1, <1>4, <1>5, <1>6, <1>7, <1>8, <1>9 DEF IInv

(* A step that changes nothing.                                            *)
LEMMA StutterIInv ==
    ASSUME IInv, UNCHANGED vars
    PROVE  IInv'
<1>1. UNCHANGED <<plans, models, prices, seeder, req, sold, overlapped>>
  BY DEF vars
<1>2. TypeInv'
  BY <1>1 DEF IInv, TypeInv, Contended
<1>3. /\ \A p \in Plans : PlanOK(p)'
      /\ \A s \in Seeders : RunOK(s)'
      /\ \A r \in Requests : ReqOK(r)'
      /\ \A sale \in sold' : SaleOK(sale)'
  BY <1>1 DEF IInv, PlanOK, RunOK, ReqOK, SaleOK
<1> QED BY <1>2, <1>3 DEF IInv

(* Every step keeps the invariant.                                         *)
LEMMA NextIInv ==
    ASSUME IInv, [Next]_vars
    PROVE  IInv'
<1>1. ASSUME NEW r \in Requests, AdminStep(r) PROVE IInv'
  BY <1>1, PatchPlanIInv, CreateModelIInv, PatchModelIInv, UpdatePlanIInv, UpdateModelIInv,
     InsertModelIInv, RequestFailsIInv DEF AdminStep
<1>2. ASSUME NEW s \in Seeders, SeederStep(s) PROVE IInv'
  BY <1>2, StartSeederIInv, WriteBackIInv, ExitSeederIInv, MakePriceIInv DEF SeederStep
<1> QED BY <1>1, <1>2, StartServerIInv, SubscribeIInv, StutterIInv DEF Next

-----------------------------------------------------------------------------
(* Theorems                                                                *)

(* In every reachable state the plans, the Prices, the runs and the        *)
(* requests in progress agree about every plan that is not overlapped.     *)
THEOREM CatalogInvariant == Spec => []IInv
<1>1. IInv /\ [Next]_vars => IInv'
  BY NextIInv
<1> QED BY InitIInv, <1>1, PTL DEF Spec

(* Rows stay rows: a plan costs something, and so does every model, over   *)
(* any interleaving of edits, restarts and runs of seed-stripe.            *)
THEOREM CatalogTyped == Spec => []TypeOK
<1>1. IInv => TypeOK
  <2> SUFFICES ASSUME IInv PROVE TypeOK
    OBVIOUS
  <2>1. /\ plans \in [Plans -> PlanRow \cup {NoPlan}] /\ models \in [Models -> ModelRow \cup {NoModel}]
        /\ prices \in Seq(Price) /\ seeder \in [Seeders -> Run] /\ req \in [Requests -> Request]
        /\ overlapped \subseteq Plans
    BY DEF IInv, TypeInv
  <2>2. ASSUME NEW p \in Plans, plans[p] # NoPlan
        PROVE  /\ plans[p].cents \in Nat \ {0} /\ plans[p].credits \in Nat
               /\ plans[p].price \in 1 .. Len(prices) \cup {NULL}
               /\ plans[p].enabled \in BOOLEAN
    <3>1. plans[p] \in PlanRow
      BY <2>1, <2>2
    <3>2. plans[p].price # NULL => plans[p].price \in 1 .. Len(prices)
      BY <2>1 DEF IInv, PlanOK
    <3> QED BY <3>1, <3>2 DEF PlanRow
  <2>3. ASSUME NEW m \in Models, models[m] # NoModel
        PROVE  models[m].credits \in Nat \ {0} /\ models[m].enabled \in BOOLEAN
    <3>1. models[m] \in ModelRow
      BY <2>1, <2>3
    <3> QED BY <3>1 DEF ModelRow
  <2>4. \A i \in DOMAIN prices : prices[i].plan \in Plans /\ prices[i].cents \in Nat
    <3>1. \A i \in DOMAIN prices : prices[i] \in Price
      BY <2>1
    <3> QED BY <3>1 DEF Price
  <2>5. \A s \in Seeders : DOMAIN seeder[s].todo \subseteq Plans
    BY <2>1 DEF Run, Todo
  <2>6. \A r \in Requests : req[r].kind \in {"none", "plan", "create", "model"}
    BY <2>1 DEF Request
  <2>7. sold \subseteq Plans \X (1 .. Len(prices))
    <3>1. ASSUME NEW sale \in sold PROVE sale \in Plans \X (1 .. Len(prices))
      BY <2>1 DEF IInv, SaleOK
    <3> QED BY <3>1
  <2> QED BY <2>1, <2>2, <2>3, <2>4, <2>5, <2>6, <2>7 DEF TypeOK
<1> QED BY CatalogInvariant, <1>1, PTL

(* A plan is listed for what Stripe charges, unless two were changing its  *)
(* amount and its Price at the same time.                                  *)
THEOREM ListsAreTrue == Spec => []ListedPriceIsCharged
<1>1. IInv => ListedPriceIsCharged
  <2> SUFFICES ASSUME IInv, NEW p \in Plans \ overlapped, plans[p].price # NULL
               PROVE  prices[plans[p].price] = [plan |-> p, cents |-> plans[p].cents]
    BY DEF ListedPriceIsCharged
  <2>1. /\ plans[p].price \in DOMAIN prices /\ prices[plans[p].price].plan = p
        /\ prices[plans[p].price].cents = plans[p].cents
    BY DEF IInv, PlanOK
  <2>2. prices[plans[p].price] \in Price
    BY <2>1 DEF IInv, TypeInv
  <2> QED BY <2>1, <2>2 DEF Price
<1> QED BY CatalogInvariant, <1>1, PTL

(* Whatever was sold under a Price, the Price leads to that plan alone.    *)
THEOREM SalesAreKnown == Spec => []SoldPricesAreKnown
<1>1. IInv => SoldPricesAreKnown
  <2> SUFFICES ASSUME IInv, NEW sale \in sold, sale[1] \notin overlapped
               PROVE  PlanByPriceID(sale[2]) = {sale[1]}
    BY DEF SoldPricesAreKnown
  <2>1. /\ sale \in Plans \X Nat /\ sale[1] \in Plans /\ sale[2] \in Nat
        /\ plans[sale[1]].price = sale[2]
    BY DEF IInv, SaleOK
  <2>2. sale[2] # NULL
    BY <2>1, NullAssumption
  <2>3. prices[sale[2]].plan = sale[1]
    BY <2>1, <2>2 DEF IInv, PlanOK
  <2>4. \A p \in Plans : plans[p].price = sale[2] => p = sale[1]
    BY <2>2, <2>3 DEF IInv, PlanOK
  <2> QED BY <2>1, <2>4 DEF PlanByPriceID
<1> QED BY CatalogInvariant, <1>1, PTL

(* What an UPDATE of the given columns does to one column.                 *)
LEMMA PlanEdit ==
    ASSUME IInv, NEW r \in Requests, UpdatePlan(r),
           NEW p \in Plans, NEW f \in {"cents", "credits", "enabled"}, plans'[p][f] # plans[p][f]
    PROVE  Served(r, "plan", p) /\ plans'[p][f] = req[r][f]
<1> DEFINE id == req[r].id
<1>1. /\ req[r].kind = "plan"
      /\ plans' = [plans EXCEPT ![id].cents = Given(req[r].cents, @),
                                ![id].credits = Given(req[r].credits, @),
                                ![id].enabled = Given(req[r].enabled, @)]
      /\ req' = [req EXCEPT ![r] = NoRequest]
  BY DEF UpdatePlan
<1>2. /\ req \in [Requests -> Request] /\ plans \in [Plans -> PlanRow \cup {NoPlan}]
      /\ id \in Plans /\ plans[id] # NoPlan
  BY <1>1 DEF IInv, TypeInv, ReqOK
<1>3. plans[id] \in PlanRow /\ req'[r] = NoRequest
  BY <1>1, <1>2
<1>4. p = id
  BY <1>1, <1>2
<1>5. /\ plans'[id].cents = Given(req[r].cents, plans[id].cents)
      /\ plans'[id].credits = Given(req[r].credits, plans[id].credits)
      /\ plans'[id].enabled = Given(req[r].enabled, plans[id].enabled)
  BY <1>1, <1>2, <1>3 DEF PlanRow
<1> HIDE DEF id
<1>6. plans'[p][f] = req[r][f]
  BY <1>4, <1>5 DEF Given
<1> QED BY <1>1, <1>3, <1>4, <1>6 DEF Served, id

(* The same of a model that is edited or made.                             *)
LEMMA ModelEdit ==
    ASSUME IInv, NEW r \in Requests, UpdateModel(r) \/ InsertModel(r),
           NEW m \in Models, NEW f \in {"credits", "enabled"}, models'[m][f] # models[m][f]
    PROVE  /\ Served(r, IF models[m] = NoModel THEN "create" ELSE "model", m)
           /\ models'[m][f] = req[r][f]
<1> DEFINE id == req[r].id
<1>1. /\ req \in [Requests -> Request] /\ models \in [Models -> ModelRow \cup {NoModel}]
      /\ req' = [req EXCEPT ![r] = NoRequest] /\ ReqOK(r)
  BY DEF IInv, TypeInv, UpdateModel, InsertModel
<1>2. req'[r] = NoRequest
  BY <1>1
<1>3. CASE UpdateModel(r)
  <2>1. /\ req[r].kind = "model"
        /\ models' = [models EXCEPT ![id].credits = Given(req[r].credits, @),
                                    ![id].enabled = Given(req[r].enabled, @)]
    BY <1>3 DEF UpdateModel
  <2>2. id \in Models /\ models[id] # NoModel /\ models[id] \in ModelRow
    BY <1>1, <2>1 DEF ReqOK
  <2>3. m = id
    BY <1>1, <2>1, <2>2
  <2>4. /\ models'[id].credits = Given(req[r].credits, models[id].credits)
        /\ models'[id].enabled = Given(req[r].enabled, models[id].enabled)
    BY <1>1, <2>1, <2>2 DEF ModelRow
  <2> HIDE DEF id
  <2>5. models'[m][f] = req[r][f]
    BY <2>3, <2>4 DEF Given
  <2> QED BY <1>2, <2>1, <2>2, <2>3, <2>5 DEF Served, id
<1>4. CASE InsertModel(r)
  <2>1. /\ req[r].kind = "create" /\ models[id] = NoModel
        /\ models' = [models EXCEPT ![id] = [credits |-> req[r].credits, enabled |-> req[r].enabled]]
    BY <1>4 DEF InsertModel
  <2>2. id \in Models
    BY <1>1, <2>1 DEF ReqOK
  <2>3. m = id
    BY <1>1, <2>1, <2>2
  <2>4. models'[m].credits = req[r].credits /\ models'[m].enabled = req[r].enabled
    BY <1>1, <2>1, <2>2, <2>3
  <2> HIDE DEF id
  <2>5. models'[m][f] = req[r][f]
    BY <2>4
  <2> QED BY <1>2, <2>1, <2>3, <2>5 DEF Served, id
<1> QED BY <1>3, <1>4

(* A row changes only to what a request asks for in that step.             *)
THEOREM EditsAreRequested == Spec => EditsAreAskedFor
<1>1. IInv /\ [Next]_vars => [EditStep]_vars
  <2> SUFFICES ASSUME IInv, Next PROVE EditStep
    OBVIOUS
  <2>1. CASE plans' = SeedPlans /\ models' = SeedModels
    <3>1. \A p \in Plans : plans[p] # NoPlan => plans'[p] = plans[p]
      BY <2>1 DEF SeedPlans
    <3>2. \A m \in Models : \/ models'[m] = models[m]
                            \/ models[m] = NoModel /\ models'[m] = SeedModel /\ m \in SeededModels
      BY <2>1 DEF SeedModels
    <3> QED BY <3>1, <3>2 DEF EditStep
  <2>2. ASSUME NEW r \in Requests, UpdatePlan(r) PROVE EditStep
    <3>1. models' = models
      BY <2>2 DEF UpdatePlan
    <3> QED BY <2>2, <3>1, PlanEdit DEF EditStep
  <2>3. ASSUME NEW r \in Requests, UpdateModel(r) \/ InsertModel(r) PROVE EditStep
    <3>1. plans' = plans
      BY <2>3 DEF UpdateModel, InsertModel
    <3> QED BY <2>3, <3>1, ModelEdit DEF EditStep
  <2>4. ASSUME NEW s \in Seeders, WriteBack(s) PROVE EditStep
    <3>1. models' = models /\ plans' = [plans EXCEPT ![seeder[s].made[1]].price = seeder[s].made[2]]
      BY <2>4 DEF WriteBack
    <3>2. plans \in [Plans -> PlanRow \cup {NoPlan}]
      BY DEF IInv, TypeInv
    <3>3. \A p \in Plans : plans[p] # NoPlan =>
             /\ plans'[p].cents = plans[p].cents
             /\ plans'[p].credits = plans[p].credits
             /\ plans'[p].enabled = plans[p].enabled
      <4> SUFFICES ASSUME NEW p \in Plans, plans[p] # NoPlan
                   PROVE  /\ plans'[p].cents = plans[p].cents
                          /\ plans'[p].credits = plans[p].credits
                          /\ plans'[p].enabled = plans[p].enabled
        OBVIOUS
      <4>1. plans[p] \in PlanRow
        BY <3>2
      <4> QED BY <3>1, <3>2, <4>1 DEF PlanRow
    <3> QED BY <3>1, <3>3 DEF EditStep
  <2>5. CASE plans' = plans /\ models' = models
    BY <2>5 DEF EditStep
  <2>6. ASSUME NEW r \in Requests, AdminStep(r) PROVE EditStep
    BY <2>2, <2>3, <2>5, <2>6
       DEF AdminStep, PatchPlan, CreateModel, PatchModel, Ask, RequestFails
  <2>7. ASSUME NEW s \in Seeders, SeederStep(s) PROVE EditStep
    BY <2>1, <2>4, <2>5, <2>7 DEF SeederStep, StartSeeder, ExitSeeder, MakePrice
  <2> QED BY <2>1, <2>5, <2>6, <2>7 DEF Next, StartServer, Subscribe
<1> QED BY CatalogInvariant, <1>1, PTL DEF Spec, EditsAreAskedFor

=============================================================================
