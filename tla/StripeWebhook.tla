--------------------------- MODULE StripeWebhook ---------------------------
(***************************************************************************)
(* Stripe's events and what the webhook makes of them:                     *)
(* StripeWebhookHandler.Handle and dispatch                                *)
(* (src/internal/handler/stripe_webhook.go) and the five handlers of       *)
(* src/internal/billing/events.go.                                         *)
(*                                                                         *)
(* Stripe is external: it changes subscriptions, emits events that carry a *)
(* snapshot, and delivers each event until it is acknowledged, in any      *)
(* order and more than once. A delivery is one transaction in two steps:   *)
(* Receive makes its reads (and, for invoice.paid, the call that fetches   *)
(* the subscription's current state), Complete its writes and the commit.  *)
(* Periods, prices in cents and the cancel-at-period-end flag are left     *)
(* out: they are copied alongside the plan and the status.                 *)
(***************************************************************************)
EXTENDS Integers, Sequences, FiniteSets

CONSTANTS Users, Gens, Costs, GrantAmounts, MaxRows, NULL,
    Dialects,      \* databases considered: "postgres" in production, "sqlite" in development
    Subs,          \* Stripe subscription ids
    Customers,     \* Stripe customer ids
    Prices,        \* Stripe price ids
    PlanCredits,   \* plans.stripe_price_id -> plans.monthly_credits; its domain is a subset of Prices
    MaxEvents,     \* bound: events Stripe emits
    OpsReplays     \* TRUE: an operator may delete a stripe_events row and have it redelivered

Listed == DOMAIN PlanCredits
Statuses == {"active", "past_due", "canceled"}

(* A row of table subscriptions; the plan is known by its price.           *)
SubscriptionRow == [sub : Subs, price : Listed \cup {NULL}, status : Statuses]

ASSUME PlansAssumption == Listed \subseteq Prices /\ \A p \in Listed : PlanCredits[p] \in Nat
ASSUME NullAssumption == NULL \notin Users \cup Subs \cup Customers \cup Nat \cup SubscriptionRow
ASSUME LedgerAssumption ==
    /\ Costs \subseteq Nat \ {0} /\ GrantAmounts \subseteq Nat /\ MaxRows \in Nat
    /\ NULL \notin Gens /\ \A e \in 1 .. MaxEvents : NULL # <<"event", e>>
ASSUME DialectsAssumption == Dialects \subseteq {"postgres", "sqlite"}
ASSUME EventsAssumption == MaxEvents \in Nat /\ OpsReplays \in BOOLEAN

VARIABLES
    accounts, monthly, addon, txs,   \* the ledger, as in CreditLedger
    stripe,       \* [Subs -> Stripe's own record of the subscription]
    evs,          \* the events emitted so far; an event's id is its position
    processed,    \* table stripe_events: ids of the events processed
    custOf,       \* users.stripe_customer_id
    subs,         \* table subscriptions: [Users -> row, or NoSub]
    tx,           \* [event ids -> what its open transaction will write, or Closed]
    inOrder,      \* every delivery so far came after those of all older events
    dialect       \* the database, fixed from the start

ledgerVars == <<accounts, monthly, addon, txs>>
stripeVars == <<stripe, evs>>
vars == <<ledgerVars, stripeVars, processed, custOf, subs, tx, inOrder, dialect>>

EventIds == 1 .. MaxEvents
EventKey(e) == <<"event", e>>    \* the id as credit_transactions.external_id

Ledger == INSTANCE CreditLedger WITH
    Events <- {EventKey(e) : e \in EventIds},
    PlanAmounts <- {PlanCredits[p] : p \in DOMAIN PlanCredits} \cup {0}

NoStripeSub == [status |-> "none", price |-> NULL, owner |-> NULL, meta |-> FALSE, cus |-> NULL]
NoSub == [sub |-> NULL, price |-> NULL, status |-> "none"]
Closed == [open |-> FALSE]
(* A transaction that will only record its event as processed.             *)
Nothing == [open |-> TRUE, user |-> NULL, row |-> NULL, ends |-> FALSE,
            credits |-> NULL, cus |-> NULL]

Init ==
    /\ Ledger!Init
    /\ stripe = [s \in Subs |-> NoStripeSub]
    /\ evs = <<>>
    /\ processed = {}
    /\ custOf = [u \in Users |-> NULL]
    /\ subs = [u \in Users |-> NoSub]
    /\ tx = [e \in EventIds |-> Closed]
    /\ inOrder = TRUE
    /\ dialect \in Dialects

-----------------------------------------------------------------------------
(* Stripe.                                                                 *)

Event(type, s, sub) ==
    [type |-> type, sub |-> s, price |-> sub.price, status |-> sub.status,
     user |-> sub.owner, cus |-> sub.cus]

Emit(s, sub, types) ==
    /\ Len(evs) + Len(types) <= MaxEvents
    /\ stripe' = [stripe EXCEPT ![s] = sub]
    /\ evs' = evs \o [i \in 1 .. Len(types) |-> Event(types[i], s, sub)]
    /\ UNCHANGED <<ledgerVars, processed, custOf, subs, tx, inOrder, dialect>>

FreshCustomer(c) ==
    /\ \A s \in Subs : stripe[s].cus # c
    /\ \A u \in Users : custOf[u] # c

(* A user completes a Checkout session of CreateCheckoutSession: it reuses *)
(* the customer the user is bound to, else Stripe makes one, and it puts   *)
(* the user's id in the metadata. Nothing asks for an earlier subscription. *)
Subscribe(u, s, price, c) ==
    /\ stripe[s].status = "none"
    /\ price \in Listed
    /\ IF custOf[u] # NULL THEN c = custOf[u] ELSE FreshCustomer(c)
    /\ Emit(s, [status |-> "active", price |-> price, owner |-> u, meta |-> TRUE, cus |-> c],
            <<"checkout.session.completed", "invoice.paid">>)

(* Someone makes a subscription in Stripe's Dashboard for the customer of  *)
(* an earlier one: no metadata, perhaps a price no plan knows.             *)
DashboardSubscribe(s, price, s0) ==
    /\ stripe[s].status = "none" /\ stripe[s0].status # "none"
    /\ Emit(s, [status |-> "active", price |-> price, owner |-> stripe[s0].owner,
                meta |-> FALSE, cus |-> stripe[s0].cus],
            <<"invoice.paid">>)

Renew(s) ==
    /\ stripe[s].status = "active"
    /\ Emit(s, stripe[s], <<"invoice.paid">>)

(* In the Billing Portal (listed prices) or the Dashboard (any price).     *)
ChangePrice(s, price) ==
    /\ stripe[s].status = "active" /\ price # stripe[s].price
    /\ Emit(s, [stripe[s] EXCEPT !.price = price],
            <<"customer.subscription.updated", "invoice.paid">>)

PaymentFails(s) ==
    /\ stripe[s].status = "active"
    /\ Emit(s, [stripe[s] EXCEPT !.status = "past_due"],
            <<"invoice.payment_failed", "customer.subscription.updated">>)

Recover(s) ==
    /\ stripe[s].status = "past_due"
    /\ Emit(s, [stripe[s] EXCEPT !.status = "active"],
            <<"invoice.paid", "customer.subscription.updated">>)

Cancel(s) ==
    /\ stripe[s].status \in {"active", "past_due"}
    /\ Emit(s, [stripe[s] EXCEPT !.status = "canceled"], <<"customer.subscription.deleted">>)

StripeStep ==
    \/ \E u \in Users, s \in Subs, p \in Prices, c \in Customers : Subscribe(u, s, p, c)
    \/ \E s, s0 \in Subs, p \in Prices : DashboardSubscribe(s, p, s0)
    \/ \E s \in Subs : Renew(s) \/ PaymentFails(s) \/ Recover(s) \/ Cancel(s)
    \/ \E s \in Subs, p \in Prices : ChangePrice(s, p)

-----------------------------------------------------------------------------
(* What the handlers read. Each gives the set of transactions the event    *)
(* may become; an empty set is an error, answered with 500.                *)

(* A faulty ResolveUserID guesses when nothing names a user.               *)
ResolveUserIDOrGuess(s) ==
    LET fromMeta == IF stripe[s].meta THEN {stripe[s].owner} ELSE {}
        fromCustomer == {u \in Users : custOf[u] = stripe[s].cus}
    IN  CASE fromMeta # {} -> fromMeta
          [] fromMeta = {} /\ fromCustomer # {} -> fromCustomer
          [] OTHER -> Users

(* resolveUserID: metadata and customer must not name two users.           *)
ResolveUserID(s) ==
    LET fromMeta == IF stripe[s].meta THEN {stripe[s].owner} ELSE {}
        fromCustomer == {u \in Users : custOf[u] = stripe[s].cus}
    IN  IF fromMeta # {} /\ fromCustomer # {} /\ fromMeta # fromCustomer
        THEN {} ELSE fromMeta \cup fromCustomer

SubscriptionByStripeID(s) == {u \in Users : subs[u].sub = s}

(* A faulty InvoicePaid takes the plan that was ordered at Checkout (the   *)
(* metadata's plan_id) for the one that is paid.                           *)
InvoicePaidPlanOrdered(ev) ==
    LET now == stripe[ev.sub]
        first == CHOOSE d \in DOMAIN evs :
                     evs[d].sub = ev.sub /\ \A d0 \in 1 .. (d - 1) : evs[d0].sub # ev.sub
        price == evs[first].price
    IN  IF price \notin Listed THEN {Nothing}
        ELSE {[Nothing EXCEPT !.user = u,
                              !.row = [sub |-> ev.sub, price |-> price, status |-> now.status],
                              !.credits = PlanCredits[price]] : u \in ResolveUserID(ev.sub)}

(* HandleInvoicePaid trusts the fetched subscription, not the event: its   *)
(* current price finds the plan, and an unknown price grants nothing.      *)
InvoicePaid(ev) ==
    LET now == stripe[ev.sub]
    IN  IF now.price \notin Listed THEN {Nothing}
        ELSE {[Nothing EXCEPT !.user = u,
                              !.row = [sub |-> ev.sub, price |-> now.price, status |-> now.status],
                              !.credits = PlanCredits[now.price]] : u \in ResolveUserID(ev.sub)}

(* HandleCheckoutCompleted binds the customer unless somebody has it.      *)
CheckoutCompleted(ev) ==
    LET owner == {u \in Users : custOf[u] = ev.cus}
    IN  IF owner = {} THEN {[Nothing EXCEPT !.user = ev.user, !.cus = ev.cus]}
        ELSE IF owner = {ev.user} THEN {Nothing} ELSE {}

(* A faulty SubscriptionUpdated writes whatever price the event names.     *)
SubscriptionUpdatedAnyPrice(ev) ==
    {[Nothing EXCEPT !.user = u, !.row = [sub |-> ev.sub, price |-> ev.price,
                                          status |-> ev.status]]
        : u \in SubscriptionByStripeID(ev.sub)}

(* HandleSubscriptionUpdated writes the event's snapshot; the local row    *)
(* says whose it is and keeps its plan when the price is unknown.          *)
SubscriptionUpdated(ev) ==
    LET found == SubscriptionByStripeID(ev.sub)
        Row(price) == [sub |-> ev.sub, price |-> price, status |-> ev.status]
        Upsert(users) == {[Nothing EXCEPT !.user = u, !.row = Row(ev.price)] : u \in users}
    IN  CASE found # {} /\ ev.price \in Listed -> Upsert(found)
          [] found # {} /\ ev.price \notin Listed ->
                {[Nothing EXCEPT !.user = u, !.row = Row(subs[u].price)] : u \in found}
          [] found = {} /\ ev.price \in Listed /\ ResolveUserID(ev.sub) # {} ->
                Upsert(ResolveUserID(ev.sub))
          [] OTHER -> {Nothing}

(* A faulty SubscriptionDeleted leaves the monthly credits alone.          *)
SubscriptionDeletedKeepsCredits(ev) ==
    {[Nothing EXCEPT !.user = u, !.ends = TRUE] : u \in SubscriptionByStripeID(ev.sub)}

(* HandleSubscriptionDeleted ends the local row, if there is one, and      *)
(* zeroes the monthly credits of the user it or resolveUserID names.       *)
SubscriptionDeleted(ev) ==
    LET found == SubscriptionByStripeID(ev.sub)
        users == IF found # {} THEN found ELSE ResolveUserID(ev.sub)
    IN  IF users = {} THEN {Nothing}
        ELSE {[Nothing EXCEPT !.user = u, !.ends = (found # {}), !.credits = 0] : u \in users}

Effects(ev) ==
    CASE ev.type = "checkout.session.completed" -> CheckoutCompleted(ev)
      [] ev.type = "invoice.paid" -> InvoicePaid(ev)
      [] ev.type = "invoice.payment_failed" -> {Nothing}
      [] ev.type = "customer.subscription.updated" -> SubscriptionUpdated(ev)
      [] ev.type = "customer.subscription.deleted" -> SubscriptionDeleted(ev)

-----------------------------------------------------------------------------
(* A delivery. A second delivery of an open event waits for the first on   *)
(* the primary key of stripe_events; one of a processed event answers 200  *)
(* and writes nothing. SQLite has one connection: no two transactions are  *)
(* open at a time.                                                         *)

Deliver(e) ==
    /\ e \in DOMAIN evs
    /\ e \notin processed /\ tx[e] = Closed
    /\ dialect = "sqlite" => \A d \in EventIds : tx[d] = Closed
    /\ \E effect \in Effects(evs[e]) : tx' = [tx EXCEPT ![e] = effect]
    /\ inOrder' = (inOrder /\ processed = 1 .. (e - 1) /\ \A d \in EventIds : tx[d] = Closed)

(* A faulty Receive commits the record of the event on its own.            *)
ReceiveAndRecord(e) ==
    /\ Deliver(e)
    /\ processed' = processed \cup {e}
    /\ UNCHANGED <<ledgerVars, stripeVars, custOf, subs, dialect>>

Receive(e) ==
    /\ Deliver(e)
    /\ UNCHANGED <<ledgerVars, stripeVars, processed, custOf, subs, dialect>>

(* The status updates name the subscription, not the user.                 *)
SetStatus(s, status) ==
    subs' = [u \in Users |-> IF subs[u].sub = s THEN [subs[u] EXCEPT !.status = status]
                             ELSE subs[u]]

(* upsertSubscription: one row per user, and Stripe's id is unique.        *)
WriteSubscription(e) ==
    LET t == tx[e]
    IN  CASE t.row # NULL -> /\ \A v \in Users \ {t.user} : subs[v].sub # t.row.sub
                             /\ subs' = [subs EXCEPT ![t.user] = t.row]
          [] t.row = NULL /\ t.ends -> SetStatus(evs[e].sub, "canceled")
          [] t.row = NULL /\ ~t.ends /\ evs[e].type = "invoice.payment_failed" ->
                SetStatus(evs[e].sub, "past_due")
          [] OTHER -> UNCHANGED subs

WriteCustomer(e) ==
    IF tx[e].cus = NULL THEN UNCHANGED custOf
    ELSE /\ \A v \in Users : custOf[v] # tx[e].cus
         /\ custOf' = [custOf EXCEPT ![tx[e].user] = tx[e].cus]

(* ResetMonthly for an event that was granted before: its UPDATE precedes  *)
(* the INSERT that hits the index, and both handlers turn ErrAlreadyGranted *)
(* into success, so the transaction commits. SQLite undoes the failed      *)
(* INSERT only and keeps the new balance; Postgres has aborted the         *)
(* transaction by then and the commit fails.                               *)
GrantedAlready(u, amount, key) ==
    /\ dialect = "sqlite"
    /\ Ledger!ExtTypeTaken(key, "subscription_grant")
    /\ accounts' = accounts \cup {u}
    /\ monthly' = [monthly EXCEPT ![u] = amount]
    /\ UNCHANGED <<addon, txs>>

WriteCredits(e) ==
    LET t == tx[e]
    IN  IF t.credits = NULL THEN UNCHANGED ledgerVars
        ELSE \/ Ledger!ResetMonthly(t.user, t.credits, EventKey(e))
             \/ GrantedAlready(t.user, t.credits, EventKey(e))

Complete(e) ==
    /\ tx[e].open
    /\ WriteSubscription(e)
    /\ WriteCustomer(e)
    /\ WriteCredits(e)
    /\ processed' = processed \cup {e}
    /\ tx' = [tx EXCEPT ![e] = Closed]
    /\ UNCHANGED <<stripeVars, inOrder, dialect>>

(* A failed call or write, or a crash: all of it is rolled back and Stripe *)
(* gets a 5xx or no answer.                                                *)
Abort(e) ==
    /\ tx[e].open
    /\ tx' = [tx EXCEPT ![e] = Closed]
    /\ UNCHANGED <<ledgerVars, stripeVars, processed, custOf, subs, inOrder, dialect>>

(* An operator deletes the stripe_events row so that Stripe's redelivery   *)
(* is processed again (model/credit.go).                                   *)
Replay(e) ==
    /\ OpsReplays /\ e \in processed
    /\ processed' = processed \ {e}
    /\ UNCHANGED <<ledgerVars, stripeVars, custOf, subs, tx, inOrder, dialect>>

Next == StripeStep \/ \E e \in EventIds : Receive(e) \/ Complete(e) \/ Abort(e) \/ Replay(e)

Spec == Init /\ [][Next]_vars

(* Stripe keeps delivering what was not acknowledged, and failures of a    *)
(* transaction that could commit do not repeat forever.                    *)
FairSpec == Spec /\ \A e \in EventIds : WF_vars(Receive(e)) /\ SF_vars(Complete(e))

-----------------------------------------------------------------------------
(* Properties                                                              *)

(* Every variable has its type.                                            *)
TypeOK ==
    /\ Ledger!TypeOK
    /\ \A s \in Subs : /\ stripe[s].status \in Statuses \cup {"none"}
                       /\ stripe[s].price \in Prices \cup {NULL}
                       /\ stripe[s].owner \in Users \cup {NULL}
                       /\ stripe[s].cus \in Customers \cup {NULL}
    /\ Len(evs) <= MaxEvents
    /\ processed \subseteq DOMAIN evs
    /\ custOf \in [Users -> Customers \cup {NULL}]
    /\ subs \in [Users -> SubscriptionRow \cup {NoSub}]
    /\ \A e \in EventIds : tx[e].open => e \in DOMAIN evs

(* What event e may set the monthly balance to. A paid invoice: the plan   *)
(* of a price the subscription has had since the event, never of an older  *)
(* one. A deletion: nothing.                                               *)
PricesSince(e) ==
    {evs[d].price : d \in {d \in DOMAIN evs : e <= d /\ evs[d].sub = evs[e].sub}}

PaidFor(e) ==
    {PlanCredits[p] : p \in {p \in PricesSince(e) \cap Listed : evs[e].type = "invoice.paid"}}
    \cup {n \in {0} : evs[e].type = "customer.subscription.deleted"}

(* The journal, of any user, has a row of event e.                         *)
Recorded(e) == \E v \in Users : \E i \in DOMAIN txs[v] : txs[v][i].externalID = EventKey(e)

(* The first grant of e is the one that leaves a row, the user's next.     *)
FirstGrant(u, e) ==
    /\ ~Recorded(e)
    /\ Len(txs'[u]) = Len(txs[u]) + 1
    /\ \A i \in DOMAIN txs[u] : txs'[u][i] = txs[u][i]
    /\ LET row == txs'[u][Len(txs'[u])]
       IN  /\ row.type = "subscription_grant" /\ row.externalID = EventKey(e)
           /\ row.monthlyDelta = monthly'[u] - monthly[u]
           /\ row.addonDelta = 0 /\ row.monthlyAfter = monthly'[u]

(* What model/credit.go:54-56 says cannot happen and on SQLite does: an    *)
(* event whose stripe_events row an operator deleted sets the balance once *)
(* more, and no row tells.                                                 *)
GrantAgain(u, e) ==
    /\ dialect = "sqlite" /\ OpsReplays
    /\ Recorded(e)
    /\ txs'[u] = txs[u]

(* Whatever changes a user's monthly credits or journal is the one         *)
(* delivery of an event of the user's own subscription that commits, at    *)
(* the amount of the plan it pays for (events.go, invariants 1 and 2), and *)
(* no event is granted twice, but for a replay on SQLite.                  *)
GrantStep ==
    \A u \in Users : monthly'[u] # monthly[u] \/ txs'[u] # txs[u] =>
        \E e \in processed' \ processed :
            /\ stripe[evs[e].sub].owner = u
            /\ monthly'[u] \in PaidFor(e)
            /\ FirstGrant(u, e) \/ GrantAgain(u, e)

EachEventGrantsOnce == [][GrantStep]_vars

AlwaysListed(s) == \A d \in DOMAIN evs : evs[d].sub = s => evs[d].price \in Listed

(* An acknowledged invoice was granted, if its subscription never had a    *)
(* price without a plan: the idempotency record and the grant live and die *)
(* together, so no crash, failure or replay leaves an event marked as      *)
(* processed whose credits never arrived.                                  *)
NoLostGrant ==
    \A e \in processed :
        /\ evs[e].type = "invoice.paid"
        /\ AlwaysListed(evs[e].sub)
        => \E i \in DOMAIN txs[stripe[evs[e].sub].owner] :
               txs[stripe[evs[e].sub].owner][i].externalID = EventKey(e)

(* A local subscription row and a bound customer belong to the user who    *)
(* pays for them at Stripe, and an untouched row never takes over another  *)
(* user's subscription.                                                    *)
NobodyElsesSubscription ==
    /\ \A u \in Users : subs[u].sub # NULL => stripe[subs[u].sub].owner = u
    /\ \A u \in Users : custOf[u] # NULL =>
          \E s \in Subs : stripe[s].cus = custOf[u] /\ stripe[s].owner = u

Settled == processed = DOMAIN evs /\ \A e \in EventIds : tx[e] = Closed

OnlySubscription(u, s) ==
    /\ stripe[s].status # "none" /\ stripe[s].owner = u
    /\ \A s2 \in Subs \ {s} : stripe[s2].owner # u

(* When every event has been processed, the row of a user with a single    *)
(* subscription says what Stripe says (events.go, invariant 3: each        *)
(* handler is correct on its own whatever the order).                      *)
SettledRowMatchesStripe ==
    Settled =>
        \A u \in Users, s \in Subs :
            OnlySubscription(u, s) /\ AlwaysListed(s) =>
                subs[u] = [sub |-> s, price |-> stripe[s].price, status |-> stripe[s].status]

(* And if that subscription is cancelled, the user has no monthly credits. *)
SettledCreditsEnd ==
    Settled =>
        \A u \in Users, s \in Subs :
            OnlySubscription(u, s) /\ AlwaysListed(s) /\ stripe[s].status = "canceled" =>
                monthly[u] = 0

(* Both hold while Stripe delivers in order, one event at a time: retries, *)
(* aborted transactions and state that moved on at Stripe before an event  *)
(* was processed do no harm.                                               *)
InOrderRowMatchesStripe == inOrder => SettledRowMatchesStripe /\ SettledCreditsEnd

(* Every event is processed in the end, again after a replay.              *)
EveryEventSettles == \A e \in EventIds : e \in DOMAIN evs ~> e \in processed
=============================================================================
