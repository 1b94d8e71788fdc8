------------------------ MODULE StripeWebhookProofs ------------------------
(***************************************************************************)
(* Credits and Stripe's events, for any users, subscriptions, customers,   *)
(* prices and number of events, delivered in any order, again after a      *)
(* replay, with transactions open at the same time: proofs about           *)
(* StripeWebhook.                                                          *)
(*                                                                         *)
(* At Stripe a subscription keeps its owner and its customer, and a        *)
(* customer has one owner. An event's transaction works for that owner     *)
(* only, whichever way its handler found the user: this is IInv. Once adds *)
(* that only a processed event has a row in the journal.                   *)
(*                                                                         *)
(* The theorem about deliveries in order has an invariant of its own,      *)
(* OInv: what the events told so far say of a subscription, and what the   *)
(* rows must be once the last of them is handled.                          *)
(***************************************************************************)
EXTENDS StripeWebhook, TLAPS

EventTypes == {"checkout.session.completed", "invoice.paid", "invoice.payment_failed",
               "customer.subscription.updated", "customer.subscription.deleted"}
StripeSub == [status : Statuses, price : Prices, owner : Users, meta : BOOLEAN, cus : Customers]
StripeEvent == [type : EventTypes, sub : Subs, price : Prices, status : Statuses,
                user : Users, cus : Customers]
Tx == [open : {TRUE}, user : Users \cup {NULL}, row : SubscriptionRow \cup {NULL}, ends : BOOLEAN,
       credits : Nat \cup {NULL}, cus : Customers \cup {NULL}]

TypeInv ==
    /\ Ledger!TypeOK
    /\ stripe \in [Subs -> StripeSub \cup {NoStripeSub}]
    /\ evs \in Seq(StripeEvent) /\ Len(evs) <= MaxEvents
    /\ processed \subseteq DOMAIN evs
    /\ custOf \in [Users -> Customers \cup {NULL}]
    /\ subs \in [Users -> SubscriptionRow \cup {NoSub}]
    /\ tx \in [EventIds -> Tx \cup {Closed}]

Known(s) == stripe[s].status # "none"

(* A customer has one owner, over all subscriptions.                       *)
CustomersApart ==
    \A s, s0 \in Subs :
        Known(s) /\ Known(s0) /\ stripe[s].cus = stripe[s0].cus =>
            stripe[s].owner = stripe[s0].owner

(* An event tells the owner and the customer of its subscription.          *)
EventOK(e) ==
    /\ Known(evs[e].sub)
    /\ evs[e].user = stripe[evs[e].sub].owner /\ evs[e].cus = stripe[evs[e].sub].cus

(* The last event of a subscription has told the price it has now.         *)
PriceTold(s) ==
    Known(s) => \E d \in DOMAIN evs :
        /\ evs[d].sub = s /\ evs[d].price = stripe[s].price
        /\ \A c \in DOMAIN evs : evs[c].sub = s => c <= d

(* The row and the customer of a user are his own.                         *)
UserOK(u) ==
    /\ subs[u].sub \in Subs \cup {NULL} /\ subs[u].price \in Listed \cup {NULL}
    /\ subs[u].sub # NULL => Known(subs[u].sub) /\ stripe[subs[u].sub].owner = u
    /\ custOf[u] # NULL =>
          \E s \in Subs : Known(s) /\ stripe[s].cus = custOf[u] /\ stripe[s].owner = u

(* What a transaction is about to write concerns the owner alone.          *)
EffectOK(e, t) ==
    /\ t.user # NULL => t.user = stripe[evs[e].sub].owner
    /\ t.row # NULL => t.user # NULL /\ t.row.sub = evs[e].sub
    /\ t.cus # NULL => t.user # NULL /\ t.cus = stripe[evs[e].sub].cus
    /\ t.credits # NULL => t.user # NULL /\ t.credits \in PaidFor(e)
    /\ evs[e].type = "invoice.paid" /\ AlwaysListed(evs[e].sub) =>
          t.credits # NULL /\ t.row # NULL

TxOK(e) == tx[e] # Closed => e \in DOMAIN evs /\ EffectOK(e, tx[e])

(* A grant to the user names an event of his own subscription.             *)
GrantOK(u, row) ==
    /\ row.type = "subscription_grant"
    /\ \E e \in DOMAIN evs : row.externalID = EventKey(e) /\ stripe[evs[e].sub].owner = u

GrantsOK(u) == \A i \in DOMAIN txs[u] : GrantOK(u, txs[u][i])

Granted(e) ==
    \E i \in DOMAIN txs[stripe[evs[e].sub].owner] :
        txs[stripe[evs[e].sub].owner][i].externalID = EventKey(e)

DoneOK(e) ==
    evs[e].type = "invoice.paid" /\ AlwaysListed(evs[e].sub) => Granted(e)

IInv ==
    /\ TypeInv /\ CustomersApart
    /\ \A e \in DOMAIN evs : EventOK(e)
    /\ \A s \in Subs : PriceTold(s)
    /\ \A u \in Users : UserOK(u) /\ GrantsOK(u)
    /\ \A e \in EventIds : TxOK(e)
    /\ \A e \in processed : DoneOK(e)

-----------------------------------------------------------------------------
(* Steps that keep the history                                             *)

(* Events are never retracted, and a subscription keeps its owner and its  *)
(* customer.                                                               *)
History ==
    /\ DOMAIN evs \subseteq DOMAIN evs' /\ \A d \in DOMAIN evs : evs'[d] = evs[d]
    /\ \A s \in Subs : Known(s) =>
          Known(s)' /\ stripe'[s].owner = stripe[s].owner /\ stripe'[s].cus = stripe[s].cus

(* No row of the ledger changes or goes.                                   *)
RowsStay ==
    \A v \in Users : \A i \in DOMAIN txs[v] : i \in DOMAIN txs'[v] /\ txs'[v][i] = txs[v][i]

(* The subscription of a known event is one of Stripe's.                   *)
LEMMA EventKnown ==
    ASSUME IInv, NEW e \in DOMAIN evs
    PROVE  /\ evs[e] \in StripeEvent /\ evs[e].sub \in Subs /\ Known(evs[e].sub)
           /\ stripe[evs[e].sub] \in StripeSub /\ stripe[evs[e].sub].owner \in Users
           /\ e \in EventIds
<1>1. evs \in Seq(StripeEvent) /\ Len(evs) \in Nat /\ Len(evs) <= MaxEvents /\ MaxEvents \in Nat
  BY EventsAssumption DEF IInv, TypeInv
<1>2. DOMAIN evs = 1 .. Len(evs)
  BY <1>1
<1>3. e \in EventIds
  BY <1>1, <1>2 DEF EventIds
<1>4. evs[e] \in StripeEvent
  BY <1>1, <1>2
<1>5. evs[e].sub \in Subs /\ Known(evs[e].sub)
  BY <1>4 DEF StripeEvent, IInv, EventOK
<1>6. stripe[evs[e].sub] \in StripeSub
  BY <1>5 DEF IInv, TypeInv, Known, NoStripeSub
<1> QED BY <1>3, <1>4, <1>5, <1>6 DEF StripeSub

(* What was always listed later was always listed before.                  *)
LEMMA ListedBefore ==
    ASSUME History, NEW e \in DOMAIN evs, AlwaysListed(evs[e].sub)'
    PROVE  AlwaysListed(evs[e].sub)
BY DEF History, AlwaysListed

(* A user whose row and customer the step left alone.                      *)
LEMMA UserKept ==
    ASSUME IInv, History, NEW u \in Users, subs'[u] = subs[u], custOf'[u] = custOf[u]
    PROVE  UserOK(u)'
<1>1. UserOK(u)
  BY DEF IInv
<1>2. subs[u].sub # NULL =>
        subs[u].sub \in Subs /\ Known(subs[u].sub)' /\ stripe'[subs[u].sub].owner = u
  BY <1>1 DEF UserOK, History
<1>3. custOf[u] # NULL =>
        \E s \in Subs : Known(s)' /\ stripe'[s].cus = custOf[u] /\ stripe'[s].owner = u
  BY <1>1 DEF UserOK, History
<1>4. subs[u].sub \in Subs \cup {NULL} /\ subs[u].price \in Listed \cup {NULL}
  BY <1>1 DEF UserOK
<1> QED BY <1>2, <1>3, <1>4 DEF UserOK, Known

(* What an event may grant, it may still grant later.                      *)
LEMMA PaidForGrows ==
    ASSUME History, NEW e \in DOMAIN evs
    PROVE  PaidFor(e) \subseteq PaidFor(e)'
<1>1. PricesSince(e) \subseteq PricesSince(e)' /\ (evs[e].type)' = evs[e].type
  BY DEF History, PricesSince
<1> QED BY <1>1 DEF PaidFor

(* It is a number of credits: a plan's for an invoice, none for a deletion. *)
LEMMA PaidForAmounts ==
    ASSUME NEW e \in DOMAIN evs, NEW n \in PaidFor(e)
    PROVE  n \in Nat /\ (n = 0 \/ \E p \in Listed : n = PlanCredits[p])
BY PlansAssumption DEF PaidFor

(* A transaction that the step left alone.                                 *)
LEMMA TxKept ==
    ASSUME IInv, History, NEW e \in EventIds, tx'[e] = tx[e]
    PROVE  TxOK(e)'
<1> SUFFICES ASSUME tx[e] # Closed PROVE e \in DOMAIN evs' /\ EffectOK(e, tx[e])'
  BY DEF TxOK
<1>1. e \in DOMAIN evs /\ EffectOK(e, tx[e])
  BY DEF IInv, TxOK
<1>2. e \in DOMAIN evs' /\ evs'[e] = evs[e]
  BY <1>1 DEF History
<1>3. /\ stripe'[evs[e].sub].owner = stripe[evs[e].sub].owner
      /\ stripe'[evs[e].sub].cus = stripe[evs[e].sub].cus
  BY <1>1, EventKnown DEF History
<1>4. AlwaysListed(evs[e].sub)' => AlwaysListed(evs[e].sub)
  BY <1>1, ListedBefore
<1>5. PaidFor(e) \subseteq PaidFor(e)'
  BY <1>1, PaidForGrows
<1>6. EffectOK(e, tx[e])'
  BY <1>1, <1>2, <1>3, <1>4, <1>5 DEF EffectOK
<1> QED BY <1>2, <1>6

(* A row of the ledger.                                                    *)
LEMMA GrantKept ==
    ASSUME IInv, History, NEW u \in Users, NEW i \in DOMAIN txs[u], txs'[u][i] = txs[u][i]
    PROVE  GrantOK(u, txs[u][i])'
<1>1. txs[u][i].type = "subscription_grant"
  BY DEF IInv, GrantsOK, GrantOK
<1>2. PICK e \in DOMAIN evs :
        txs[u][i].externalID = EventKey(e) /\ stripe[evs[e].sub].owner = u
  BY DEF IInv, GrantsOK, GrantOK
<1>3. e \in DOMAIN evs' /\ evs'[e] = evs[e]
  BY DEF History
<1>4. stripe'[evs[e].sub].owner = u
  BY <1>2, EventKnown DEF History
<1> QED BY <1>1, <1>2, <1>3, <1>4 DEF GrantOK

(* An acknowledged event.                                                  *)
LEMMA DoneKept ==
    ASSUME IInv, History, RowsStay, NEW e \in DOMAIN evs, DoneOK(e)
    PROVE  DoneOK(e)'
<1>1. evs'[e] = evs[e] /\ stripe'[evs[e].sub].owner = stripe[evs[e].sub].owner
  BY EventKnown DEF History
<1>2. AlwaysListed(evs[e].sub)' => AlwaysListed(evs[e].sub)
  BY ListedBefore
<1>3. stripe[evs[e].sub].owner \in Users
  BY EventKnown
<1>4. Granted(e) => Granted(e)'
  BY <1>1, <1>3 DEF Granted, RowsStay
<1> SUFFICES ASSUME (evs[e].type)' = "invoice.paid", AlwaysListed(evs[e].sub)'
             PROVE  Granted(e)'
  BY DEF DoneOK
<1>5. AlwaysListed(evs[e].sub)
  BY <1>1, <1>2
<1> QED BY <1>1, <1>4, <1>5 DEF DoneOK

-----------------------------------------------------------------------------
(* Stripe                                                                  *)

(* The new events follow the old ones, in the order of their types.        *)
LEMMA EmitNews ==
    ASSUME IInv, NEW s \in Subs, NEW sub \in StripeSub, NEW types \in Seq(EventTypes),
           Emit(s, sub, types)
    PROVE  /\ \A d \in DOMAIN evs : d \in Nat /\ d <= Len(evs) /\ d \in DOMAIN evs' /\ evs'[d] = evs[d]
           /\ \A i \in DOMAIN types :
                 /\ i \in Nat /\ i > 0
                 /\ Len(evs) + i \in DOMAIN evs' /\ Len(evs) + i \notin DOMAIN evs
                 /\ evs'[Len(evs) + i] = Event(types[i], s, sub)
           /\ \A d \in DOMAIN evs' \ DOMAIN evs :
                 /\ d - Len(evs) \in DOMAIN types /\ d = Len(evs) + (d - Len(evs))
                 /\ evs'[d] = Event(types[d - Len(evs)], s, sub)
           /\ Len(evs) \in Nat /\ DOMAIN types = 1 .. Len(types) /\ Len(types) \in Nat
           /\ evs' \in Seq(StripeEvent) /\ Len(evs') <= MaxEvents
<1> DEFINE told == [i \in 1 .. Len(types) |-> Event(types[i], s, sub)]
<1>1. /\ evs \in Seq(StripeEvent) /\ Len(evs) \in Nat /\ Len(types) \in Nat
      /\ evs' = evs \o told /\ DOMAIN types = 1 .. Len(types)
      /\ Len(evs) + Len(types) <= MaxEvents
  BY DEF IInv, TypeInv, Emit
<1>2. told \in Seq(StripeEvent) /\ Len(told) = Len(types)
  <2>1. \A i \in 1 .. Len(types) : types[i] \in EventTypes
    OBVIOUS
  <2>2. \A type \in EventTypes : Event(type, s, sub) \in StripeEvent
    BY DEF Event, StripeEvent, StripeSub
  <2>3. \A i \in 1 .. Len(types) : told[i] \in StripeEvent
    BY <2>1, <2>2
  <2> QED BY <1>1, <2>3
<1>3. \A i \in DOMAIN types : told[i] = Event(types[i], s, sub)
  BY <1>1
<1> HIDE DEF told
<1>4. /\ DOMAIN evs = 1 .. Len(evs) /\ DOMAIN told = 1 .. Len(types)
      /\ evs' \in Seq(StripeEvent) /\ DOMAIN evs' = 1 .. (Len(evs) + Len(types))
      /\ Len(evs') <= MaxEvents
  <2>1. evs' \in Seq(StripeEvent) /\ Len(evs') = Len(evs) + Len(types)
    BY <1>1, <1>2
  <2> QED BY <1>1, <1>2, <2>1
<1>5. \A d \in DOMAIN evs : evs'[d] = evs[d]
  BY <1>1, <1>2, <1>4
<1>6. ASSUME NEW i \in DOMAIN types
      PROVE  /\ i \in Nat /\ i > 0
             /\ Len(evs) + i \in DOMAIN evs' /\ Len(evs) + i \notin DOMAIN evs
             /\ evs'[Len(evs) + i] = Event(types[i], s, sub)
  <2>1. evs'[Len(evs) + i] = told[i]
    BY <1>1, <1>2, <1>4
  <2> QED BY <1>1, <1>3, <1>4, <2>1
<1>7. ASSUME NEW d \in DOMAIN evs' \ DOMAIN evs
      PROVE  /\ d - Len(evs) \in DOMAIN types /\ d = Len(evs) + (d - Len(evs))
             /\ evs'[d] = Event(types[d - Len(evs)], s, sub)
  <2>1. d - Len(evs) \in DOMAIN types /\ d = Len(evs) + (d - Len(evs))
    BY <1>1, <1>4
  <2> QED BY <1>6, <2>1
<1>8. \A d \in DOMAIN evs : d \in Nat /\ d <= Len(evs) /\ d \in DOMAIN evs'
  BY <1>1, <1>4
<1> QED BY <1>1, <1>4, <1>5, <1>6, <1>7, <1>8

(* What an emission does to the sequence of events.                        *)
LEMMA EmitEvents ==
    ASSUME IInv, NEW s \in Subs, NEW sub \in StripeSub, NEW types \in Seq(EventTypes),
           Emit(s, sub, types)
    PROVE  /\ evs' \in Seq(StripeEvent) /\ Len(evs') <= MaxEvents
           /\ DOMAIN evs \subseteq DOMAIN evs' /\ \A d \in DOMAIN evs : evs'[d] = evs[d]
           /\ \A d \in DOMAIN evs' \ DOMAIN evs :
                 \E type \in EventTypes : evs'[d] = Event(type, s, sub)
           /\ types # <<>> => \E d \in DOMAIN evs' \ DOMAIN evs : \A c \in DOMAIN evs' : c <= d
<1>1. \A i \in DOMAIN types : types[i] \in EventTypes
  OBVIOUS
<1>2. types # <<>> => Len(types) \in DOMAIN types
  OBVIOUS
<1>3. /\ \A d \in DOMAIN evs : d \in Nat /\ d <= Len(evs) /\ d \in DOMAIN evs' /\ evs'[d] = evs[d]
      /\ \A i \in DOMAIN types : Len(evs) + i \in DOMAIN evs' /\ Len(evs) + i \notin DOMAIN evs
      /\ \A d \in DOMAIN evs' \ DOMAIN evs :
            d - Len(evs) \in DOMAIN types /\ evs'[d] = Event(types[d - Len(evs)], s, sub)
      /\ evs' \in Seq(StripeEvent) /\ Len(evs') <= MaxEvents
      /\ DOMAIN types = 1 .. Len(types) /\ Len(types) \in Nat /\ Len(evs) \in Nat
  BY EmitNews
<1>4. ASSUME types # <<>>
      PROVE  \E d \in DOMAIN evs' \ DOMAIN evs : \A c \in DOMAIN evs' : c <= d
  <2> DEFINE last == Len(evs) + Len(types)
  <2>1. last \in DOMAIN evs' \ DOMAIN evs
    BY <1>2, <1>3, <1>4
  <2>2. ASSUME NEW c \in DOMAIN evs' PROVE c <= last
    <3>1. CASE c \in DOMAIN evs
      BY <1>3, <3>1
    <3>2. CASE c \notin DOMAIN evs
      <4>1. c - Len(evs) \in 1 .. Len(types) /\ c \in Nat
        <5>1. DOMAIN evs' = 1 .. Len(evs')
          BY <1>3
        <5>2. c \in Nat
          BY <1>3, <5>1
        <5> QED BY <1>3, <3>2, <5>2
      <4> QED BY <1>3, <4>1
    <3> QED BY <3>1, <3>2
  <2> HIDE DEF last
  <2> QED BY <2>1, <2>2
<1> QED BY <1>1, <1>3, <1>4

(* An emission keeps the invariant if a subscription that Stripe knew      *)
(* keeps its owner and customer and a new one's customer has no other      *)
(* owner.                                                                  *)
LEMMA EmitIInv ==
    ASSUME IInv, NEW s \in Subs, NEW sub \in StripeSub, NEW types \in Seq(EventTypes),
           types # <<>>, Emit(s, sub, types),
           Known(s) => sub.owner = stripe[s].owner /\ sub.cus = stripe[s].cus,
           \A s0 \in Subs : Known(s0) /\ stripe[s0].cus = sub.cus => stripe[s0].owner = sub.owner
    PROVE  IInv'
<1>1. /\ stripe \in [Subs -> StripeSub \cup {NoStripeSub}] /\ stripe' = [stripe EXCEPT ![s] = sub]
      /\ UNCHANGED <<ledgerVars, processed, custOf, subs, tx>>
  BY DEF IInv, TypeInv, Emit
<1>2. stripe'[s] = sub /\ \A r \in Subs \ {s} : stripe'[r] = stripe[r]
  BY <1>1
<1>3. sub.status # "none" /\ sub.status \in Statuses /\ NoStripeSub.status = "none"
  BY DEF StripeSub, Statuses, NoStripeSub
<1>4. Known(s)' /\ \A r \in Subs \ {s} : Known(r)' <=> Known(r)
  BY <1>2, <1>3 DEF Known
<1>5. /\ evs' \in Seq(StripeEvent) /\ Len(evs') <= MaxEvents
      /\ DOMAIN evs \subseteq DOMAIN evs' /\ \A d \in DOMAIN evs : evs'[d] = evs[d]
      /\ \A d \in DOMAIN evs' \ DOMAIN evs :
            \E type \in EventTypes : evs'[d] = Event(type, s, sub)
      /\ \E d \in DOMAIN evs' \ DOMAIN evs : \A c \in DOMAIN evs' : c <= d
  BY EmitEvents
<1>6. History
  <2>1. ASSUME NEW r \in Subs, Known(r)
        PROVE  Known(r)' /\ stripe'[r].owner = stripe[r].owner /\ stripe'[r].cus = stripe[r].cus
    BY <1>2, <1>4, <2>1
  <2> QED BY <1>5, <2>1 DEF History
<1>7. RowsStay
  BY <1>1 DEF ledgerVars, RowsStay
<1>8. TypeInv'
  <2>1. Ledger!TypeOK'
    BY <1>1 DEF IInv, TypeInv, ledgerVars, Ledger!TypeOK
  <2>2. stripe' \in [Subs -> StripeSub \cup {NoStripeSub}]
    BY <1>1
  <2>3. processed' \subseteq DOMAIN evs'
    BY <1>1, <1>5 DEF IInv, TypeInv
  <2>4. /\ custOf' \in [Users -> Customers \cup {NULL}]
        /\ subs' \in [Users -> SubscriptionRow \cup {NoSub}]
        /\ tx' \in [EventIds -> Tx \cup {Closed}]
    BY <1>1 DEF IInv, TypeInv
  <2> QED BY <1>5, <2>1, <2>2, <2>3, <2>4 DEF TypeInv
<1>9. CustomersApart'
  <2> SUFFICES ASSUME NEW r \in Subs, NEW r0 \in Subs, Known(r)', Known(r0)',
                      stripe'[r].cus = stripe'[r0].cus
               PROVE  stripe'[r].owner = stripe'[r0].owner
    BY DEF CustomersApart
  <2>1. CASE r = s \/ r0 = s
    BY <1>2, <1>4, <2>1
  <2>2. CASE r # s /\ r0 # s
    BY <1>2, <1>4, <2>2 DEF IInv, CustomersApart
  <2> QED BY <2>1, <2>2
<1>10. ASSUME NEW e \in DOMAIN evs' PROVE EventOK(e)'
  <2>1. CASE e \in DOMAIN evs
    BY <1>6, <2>1, EventKnown DEF History, Known, IInv, EventOK
  <2>2. CASE e \notin DOMAIN evs
    <3>1. evs'[e].sub = s /\ evs'[e].user = sub.owner /\ evs'[e].cus = sub.cus
      BY <1>5, <2>2 DEF Event
    <3> QED BY <1>2, <1>4, <3>1 DEF EventOK, Known
  <2> QED BY <2>1, <2>2
<1>11. ASSUME NEW r \in Subs PROVE PriceTold(r)'
  <2>1. CASE r = s
    <3>1. PICK d \in DOMAIN evs' \ DOMAIN evs : \A c \in DOMAIN evs' : c <= d
      BY <1>5
    <3>2. evs'[d].sub = s /\ evs'[d].price = sub.price
      BY <1>5 DEF Event
    <3> QED BY <1>2, <2>1, <3>1, <3>2 DEF PriceTold
  <2>2. CASE r # s
    <3> SUFFICES ASSUME Known(r)'
                 PROVE  \E d \in DOMAIN evs' :
                            /\ evs'[d].sub = r /\ evs'[d].price = stripe'[r].price
                            /\ \A c \in DOMAIN evs' : evs'[c].sub = r => c <= d
      BY DEF PriceTold
    <3>1. Known(r) /\ stripe'[r] = stripe[r]
      BY <1>2, <1>4, <2>2
    <3>2. PICK d \in DOMAIN evs :
            /\ evs[d].sub = r /\ evs[d].price = stripe[r].price
            /\ \A c \in DOMAIN evs : evs[c].sub = r => c <= d
      BY <3>1 DEF IInv, PriceTold
    <3>3. ASSUME NEW c \in DOMAIN evs', evs'[c].sub = r PROVE c <= d
      <4>1. c \in DOMAIN evs
        BY <1>5, <2>2, <3>3 DEF Event
      <4> QED BY <1>5, <3>2, <3>3, <4>1
    <3> QED BY <1>5, <3>1, <3>2, <3>3
  <2> QED BY <2>1, <2>2
<1>12. \A u \in Users : UserOK(u)'
  BY <1>1, <1>6, UserKept
<1>13. \A e \in EventIds : TxOK(e)'
  BY <1>1, <1>6, TxKept
<1>14. \A u \in Users : GrantsOK(u)'
  <2>1. txs' = txs
    BY <1>1 DEF ledgerVars
  <2> QED BY <1>6, <2>1, GrantKept DEF GrantsOK
<1>15. \A e \in processed' : DoneOK(e)'
  <2>1. processed' = processed /\ processed \subseteq DOMAIN evs
    BY <1>1 DEF IInv, TypeInv
  <2> QED BY <1>6, <1>7, <2>1, DoneKept DEF IInv
<1> QED BY <1>8, <1>9, <1>10, <1>11, <1>12, <1>13, <1>14, <1>15 DEF IInv

(* What Stripe knows of a subscription it has.                             *)
LEMMA KnownSub ==
    ASSUME IInv, NEW s \in Subs, Known(s)
    PROVE  stripe[s] \in StripeSub
BY DEF IInv, TypeInv, Known, NoStripeSub

(* A listed price is one of Stripe's.                                      *)
LEMMA ListedPrices == Listed \subseteq Prices /\ \A p \in Listed : PlanCredits[p] \in Nat
BY PlansAssumption

(* The customer a user is bound to has no other owner.                     *)
LEMMA BoundCustomer ==
    ASSUME IInv, NEW u \in Users, NEW s \in Subs, Known(s), custOf[u] = stripe[s].cus
    PROVE  stripe[s].owner = u
<1>1. custOf[u] # NULL
  BY KnownSub, NullAssumption DEF StripeSub
<1>2. PICK s0 \in Subs : Known(s0) /\ stripe[s0].cus = custOf[u] /\ stripe[s0].owner = u
  BY <1>1 DEF IInv, UserOK
<1> QED BY <1>2 DEF IInv, CustomersApart

(* Checkout: the customer the handler picks is the user's own or a new     *)
(* one.                                                                    *)
LEMMA SubscribeIInv ==
    ASSUME IInv, NEW u \in Users, NEW s \in Subs, NEW price \in Prices, NEW c \in Customers,
           Subscribe(u, s, price, c)
    PROVE  IInv'
<1> DEFINE sub == [status |-> "active", price |-> price, owner |-> u, meta |-> TRUE, cus |-> c]
           types == <<"checkout.session.completed", "invoice.paid">>
<1>1. Emit(s, sub, types) /\ ~Known(s)
  BY DEF Subscribe, Known
<1>2. sub \in StripeSub /\ sub.owner = u /\ sub.cus = c
  BY DEF StripeSub, Statuses
<1>3. types \in Seq(EventTypes) /\ types # <<>>
  BY DEF EventTypes
<1>4. ASSUME NEW s0 \in Subs, Known(s0), stripe[s0].cus = c
      PROVE  stripe[s0].owner = u
  <2>1. CASE custOf[u] # NULL
    BY <1>4, <2>1, BoundCustomer DEF Subscribe
  <2>2. CASE custOf[u] = NULL
    BY <1>4, <2>2 DEF Subscribe, FreshCustomer
  <2> QED BY <2>1, <2>2
<1> HIDE DEF sub, types
<1> QED BY <1>1, <1>2, <1>3, <1>4, EmitIInv

(* A subscription created in the dashboard goes to a customer that has     *)
(* one, hence to that customer's owner.                                    *)
LEMMA DashboardSubscribeIInv ==
    ASSUME IInv, NEW s \in Subs, NEW price \in Prices, NEW s0 \in Subs,
           DashboardSubscribe(s, price, s0)
    PROVE  IInv'
<1> DEFINE sub == [status |-> "active", price |-> price, owner |-> stripe[s0].owner,
                   meta |-> FALSE, cus |-> stripe[s0].cus]
           types == <<"invoice.paid">>
<1>1. Emit(s, sub, types) /\ ~Known(s) /\ Known(s0)
  BY DEF DashboardSubscribe, Known
<1>2. stripe[s0] \in StripeSub
  BY <1>1, KnownSub
<1>3. sub \in StripeSub /\ sub.owner = stripe[s0].owner /\ sub.cus = stripe[s0].cus
  BY <1>2 DEF StripeSub, Statuses
<1>4. types \in Seq(EventTypes) /\ types # <<>>
  BY DEF EventTypes
<1>5. \A r \in Subs : Known(r) /\ stripe[r].cus = stripe[s0].cus => stripe[r].owner = stripe[s0].owner
  BY <1>1 DEF IInv, CustomersApart
<1> HIDE DEF sub, types
<1> QED BY <1>1, <1>3, <1>4, <1>5, EmitIInv

(* A change of a subscription that keeps its owner and its customer.       *)
LEMMA ChangeIInv ==
    ASSUME IInv, NEW s \in Subs, Known(s), NEW sub \in StripeSub, NEW types \in Seq(EventTypes),
           types # <<>>, Emit(s, sub, types), sub.owner = stripe[s].owner, sub.cus = stripe[s].cus
    PROVE  IInv'
<1>1. \A r \in Subs : Known(r) /\ stripe[r].cus = sub.cus => stripe[r].owner = sub.owner
  BY DEF IInv, CustomersApart
<1> QED BY <1>1, EmitIInv

(* A renewal changes nothing at Stripe and tells one invoice.              *)
LEMMA RenewIInv ==
    ASSUME IInv, NEW s \in Subs, Renew(s)
    PROVE  IInv'
<1> DEFINE types == <<"invoice.paid">>
<1>1. Known(s) /\ Emit(s, stripe[s], types)
  BY DEF Renew, Known
<1>2. types \in Seq(EventTypes) /\ types # <<>>
  BY DEF EventTypes
<1> HIDE DEF types
<1> QED BY <1>1, <1>2, KnownSub, ChangeIInv

(* A change of price is told by two events.                                *)
LEMMA ChangePriceIInv ==
    ASSUME IInv, NEW s \in Subs, NEW price \in Prices, ChangePrice(s, price)
    PROVE  IInv'
<1> DEFINE sub == [stripe[s] EXCEPT !.price = price]
           types == <<"customer.subscription.updated", "invoice.paid">>
<1>1. Known(s) /\ Emit(s, sub, types)
  BY DEF ChangePrice, Known
<1>2. sub \in StripeSub /\ sub.owner = stripe[s].owner /\ sub.cus = stripe[s].cus
  BY <1>1, KnownSub DEF StripeSub
<1>3. types \in Seq(EventTypes) /\ types # <<>>
  BY DEF EventTypes
<1> HIDE DEF sub, types
<1> QED BY <1>1, <1>2, <1>3, ChangeIInv

(* A change of the status.                                                 *)
LEMMA StatusIInv ==
    ASSUME IInv, NEW s \in Subs, Known(s), NEW status \in Statuses,
           NEW types \in Seq(EventTypes), types # <<>>,
           Emit(s, [stripe[s] EXCEPT !.status = status], types)
    PROVE  IInv'
<1> DEFINE sub == [stripe[s] EXCEPT !.status = status]
<1>1. sub \in StripeSub /\ sub.owner = stripe[s].owner /\ sub.cus = stripe[s].cus
  BY KnownSub DEF StripeSub
<1>2. Emit(s, sub, types)
  OBVIOUS
<1> HIDE DEF sub
<1> QED BY <1>1, <1>2, ChangeIInv

(* The steps of Stripe that change the status alone.                       *)
LEMMA PaymentIInv ==
    ASSUME IInv, NEW s \in Subs, PaymentFails(s) \/ Recover(s) \/ Cancel(s)
    PROVE  IInv'
<1>1. CASE PaymentFails(s)
  <2> DEFINE types == <<"invoice.payment_failed", "customer.subscription.updated">>
  <2>1. Known(s) /\ Emit(s, [stripe[s] EXCEPT !.status = "past_due"], types)
    BY <1>1 DEF PaymentFails, Known
  <2>2. types \in Seq(EventTypes) /\ types # <<>> /\ "past_due" \in Statuses
    BY DEF EventTypes, Statuses
  <2> HIDE DEF types
  <2> QED BY <2>1, <2>2, StatusIInv
<1>2. CASE Recover(s)
  <2> DEFINE types == <<"invoice.paid", "customer.subscription.updated">>
  <2>1. Known(s) /\ Emit(s, [stripe[s] EXCEPT !.status = "active"], types)
    BY <1>2 DEF Recover, Known
  <2>2. types \in Seq(EventTypes) /\ types # <<>> /\ "active" \in Statuses
    BY DEF EventTypes, Statuses
  <2> HIDE DEF types
  <2> QED BY <2>1, <2>2, StatusIInv
<1>3. CASE Cancel(s)
  <2> DEFINE types == <<"customer.subscription.deleted">>
  <2>1. Known(s) /\ Emit(s, [stripe[s] EXCEPT !.status = "canceled"], types)
    BY <1>3 DEF Cancel, Known
  <2>2. types \in Seq(EventTypes) /\ types # <<>> /\ "canceled" \in Statuses
    BY DEF EventTypes, Statuses
  <2> HIDE DEF types
  <2> QED BY <2>1, <2>2, StatusIInv
<1> QED BY <1>1, <1>2, <1>3

(* Every step of Stripe.                                                   *)
LEMMA StripeIInv ==
    ASSUME IInv, StripeStep
    PROVE  IInv'
<1>1. ASSUME NEW u \in Users, NEW s \in Subs, NEW p \in Prices, NEW c \in Customers,
             Subscribe(u, s, p, c)
      PROVE  IInv'
  BY <1>1, SubscribeIInv
<1>2. ASSUME NEW s \in Subs, NEW s0 \in Subs, NEW p \in Prices, DashboardSubscribe(s, p, s0)
      PROVE  IInv'
  BY <1>2, DashboardSubscribeIInv
<1>3. ASSUME NEW s \in Subs, Renew(s) \/ PaymentFails(s) \/ Recover(s) \/ Cancel(s)
      PROVE  IInv'
  BY <1>3, RenewIInv, PaymentIInv
<1>4. ASSUME NEW s \in Subs, NEW p \in Prices, ChangePrice(s, p)
      PROVE  IInv'
  BY <1>4, ChangePriceIInv
<1> QED BY <1>1, <1>2, <1>3, <1>4 DEF StripeStep

-----------------------------------------------------------------------------
(* Deliveries: what the handlers are about to write                        *)

(* Whoever resolveUserID finds owns the subscription.                      *)
LEMMA ResolvedIsOwner ==
    ASSUME IInv, NEW s \in Subs, Known(s), NEW u \in ResolveUserID(s)
    PROVE  u = stripe[s].owner /\ u \in Users
<1>1. stripe[s].owner \in Users
  BY KnownSub DEF StripeSub
<1> QED BY <1>1, BoundCustomer DEF ResolveUserID

(* Whoever has its row owns it as well.                                    *)
LEMMA FoundIsOwner ==
    ASSUME IInv, NEW s \in Subs, NEW u \in SubscriptionByStripeID(s)
    PROVE  u = stripe[s].owner /\ u \in Users
BY NullAssumption DEF SubscriptionByStripeID, IInv, UserOK

(* A transaction that sets the subscription row.                           *)
RowTx(u, row, credits) ==
    [open |-> TRUE, user |-> u, row |-> row, ends |-> FALSE, credits |-> credits, cus |-> NULL]

(* A handler that ignores its event is in order unless it owed a grant.    *)
LEMMA NothingOK ==
    ASSUME NEW e, evs[e].type # "invoice.paid" \/ ~AlwaysListed(evs[e].sub)
    PROVE  Nothing \in Tx /\ EffectOK(e, Nothing)
BY DEF Nothing, Tx, EffectOK

(* An invoice grants nothing only when its subscription has had a price    *)
(* that no plan has.                                                       *)
LEMMA InvoicePaidOK ==
    ASSUME IInv, NEW e \in DOMAIN evs, evs[e].type = "invoice.paid",
           NEW t \in InvoicePaid(evs[e])
    PROVE  t \in Tx /\ EffectOK(e, t)
<1> DEFINE s == evs[e].sub
           now == stripe[s]
<1>1. s \in Subs /\ Known(s) /\ now \in StripeSub
  BY EventKnown
<1>2. CASE now.price \notin Listed
  <2>1. t = Nothing
    BY <1>2 DEF InvoicePaid
  <2>2. PICK d \in DOMAIN evs : evs[d].sub = s /\ evs[d].price = now.price
    BY <1>1 DEF IInv, PriceTold
  <2>3. ~AlwaysListed(s)
    BY <1>2, <2>2 DEF AlwaysListed
  <2> QED BY <2>1, <2>3, NothingOK
<1>3. CASE now.price \in Listed
  <2> DEFINE row == [sub |-> s, price |-> now.price, status |-> now.status]
             credits == PlanCredits[now.price]
  <2>1. PICK u \in ResolveUserID(s) : t = [Nothing EXCEPT !.user = u, !.row = row, !.credits = credits]
    BY <1>3 DEF InvoicePaid
  <2>2. u = now.owner /\ u \in Users
    BY <1>1, ResolvedIsOwner
  <2>3. row \in SubscriptionRow /\ row.sub = s /\ row # NULL
    BY <1>1, <1>3, NullAssumption DEF SubscriptionRow, StripeSub
  <2>4. credits \in Nat /\ credits # NULL /\ u # NULL
    BY <1>3, <2>2, ListedPrices, NullAssumption
  <2>5. credits \in PaidFor(e)
    <3>1. PICK d \in DOMAIN evs : /\ evs[d].sub = s /\ evs[d].price = now.price
                                  /\ \A c \in DOMAIN evs : evs[c].sub = s => c <= d
      BY <1>1 DEF IInv, PriceTold
    <3>2. now.price \in PricesSince(e)
      BY <3>1 DEF PricesSince
    <3> QED BY <1>3, <3>2 DEF PaidFor
  <2> HIDE DEF row, credits
  <2>6. t = RowTx(u, row, credits)
    BY <2>1 DEF Nothing, RowTx
  <2>7. t \in Tx
    BY <2>2, <2>3, <2>4, <2>6 DEF RowTx, Tx
  <2>8. EffectOK(e, t)
    BY <2>2, <2>3, <2>4, <2>5, <2>6 DEF RowTx, EffectOK
  <2> QED BY <2>7, <2>8
<1> QED BY <1>2, <1>3

(* A checkout binds its own customer to the user that began it.            *)
LEMMA CheckoutCompletedOK ==
    ASSUME IInv, NEW e \in DOMAIN evs, evs[e].type = "checkout.session.completed",
           NEW t \in CheckoutCompleted(evs[e])
    PROVE  t \in Tx /\ EffectOK(e, t)
<1>1. evs[e] \in StripeEvent /\ EventOK(e)
  BY EventKnown DEF IInv
<1>2. t = Nothing \/ t = [Nothing EXCEPT !.user = evs[e].user, !.cus = evs[e].cus]
  BY DEF CheckoutCompleted
<1>3. ASSUME t = [Nothing EXCEPT !.user = evs[e].user, !.cus = evs[e].cus]
      PROVE  t \in Tx /\ EffectOK(e, t)
  <2>1. t = [open |-> TRUE, user |-> evs[e].user, row |-> NULL, ends |-> FALSE,
             credits |-> NULL, cus |-> evs[e].cus]
    BY <1>3 DEF Nothing
  <2>2. evs[e].user \in Users /\ evs[e].cus \in Customers /\ evs[e].user # NULL
    BY <1>1, NullAssumption DEF StripeEvent
  <2>3. t \in Tx
    BY <2>1, <2>2 DEF Tx
  <2>4. EffectOK(e, t)
    BY <1>1, <2>1, <2>2 DEF EffectOK, EventOK
  <2> QED BY <2>3, <2>4
<1> QED BY <1>2, <1>3, NothingOK

(* A row for the owner, of this subscription.                              *)
LEMMA RowTxOK ==
    ASSUME NEW e, evs[e].type # "invoice.paid",
           NEW u \in Users, u = stripe[evs[e].sub].owner,
           NEW row \in SubscriptionRow, row.sub = evs[e].sub
    PROVE  RowTx(u, row, NULL) \in Tx /\ EffectOK(e, RowTx(u, row, NULL))
BY NullAssumption DEF RowTx, Tx, EffectOK

(* An update writes the row of the owner, however it finds him.            *)
LEMMA SubscriptionUpdatedOK ==
    ASSUME IInv, NEW e \in DOMAIN evs, evs[e].type = "customer.subscription.updated",
           NEW t \in SubscriptionUpdated(evs[e])
    PROVE  t \in Tx /\ EffectOK(e, t)
<1> DEFINE s == evs[e].sub
           found == SubscriptionByStripeID(s)
           Told(price) == [sub |-> s, price |-> price, status |-> evs[e].status]
           Written(u, price) == [Nothing EXCEPT !.user = u, !.row = Told(price)]
<1>1. s \in Subs /\ Known(s) /\ evs[e] \in StripeEvent
  BY EventKnown
<1>2. ASSUME NEW u \in Users, u = stripe[s].owner, NEW price \in Listed \cup {NULL},
             t = Written(u, price)
      PROVE  t \in Tx /\ EffectOK(e, t)
  <2>1. Told(price) \in SubscriptionRow /\ Told(price).sub = s
    BY <1>1 DEF SubscriptionRow, StripeEvent
  <2>2. t = RowTx(u, Told(price), NULL)
    BY <1>2 DEF Nothing, RowTx
  <2> HIDE DEF Told
  <2> QED BY <1>2, <2>1, <2>2, RowTxOK
<1>3. CASE found # {} /\ evs[e].price \in Listed
  <2>1. PICK u \in found : t = Written(u, evs[e].price)
    BY <1>3 DEF SubscriptionUpdated
  <2>2. u = stripe[s].owner /\ u \in Users
    BY <1>1, FoundIsOwner
  <2> QED BY <1>2, <1>3, <2>1, <2>2
<1>4. CASE found # {} /\ evs[e].price \notin Listed
  <2>1. PICK u \in found : t = Written(u, subs[u].price)
    BY <1>4 DEF SubscriptionUpdated
  <2>2. u = stripe[s].owner /\ u \in Users
    BY <1>1, FoundIsOwner
  <2>3. subs[u].price \in Listed \cup {NULL}
    BY <2>2 DEF IInv, UserOK
  <2> QED BY <1>2, <2>1, <2>2, <2>3
<1>5. CASE found = {} /\ evs[e].price \in Listed /\ ResolveUserID(s) # {}
  <2>1. PICK u \in ResolveUserID(s) : t = Written(u, evs[e].price)
    BY <1>5 DEF SubscriptionUpdated
  <2>2. u = stripe[s].owner /\ u \in Users
    BY <1>1, ResolvedIsOwner
  <2> QED BY <1>2, <1>5, <2>1, <2>2
<1>6. CASE found = {} /\ ~(evs[e].price \in Listed /\ ResolveUserID(s) # {})
  <2>1. t = Nothing
    BY <1>6 DEF SubscriptionUpdated
  <2> QED BY <2>1, NothingOK
<1> QED BY <1>3, <1>4, <1>5, <1>6

(* A deletion takes the owner's credits, and ends the row if there is one. *)
LEMMA SubscriptionDeletedOK ==
    ASSUME IInv, NEW e \in DOMAIN evs, evs[e].type = "customer.subscription.deleted",
           NEW t \in SubscriptionDeleted(evs[e])
    PROVE  t \in Tx /\ EffectOK(e, t)
<1> DEFINE s == evs[e].sub
           found == SubscriptionByStripeID(s)
           users == IF found # {} THEN found ELSE ResolveUserID(s)
           ended == found # {}
<1>1. s \in Subs /\ Known(s)
  BY EventKnown
<1>2. CASE users = {}
  <2>1. t = Nothing
    BY <1>2 DEF SubscriptionDeleted
  <2> QED BY <2>1, NothingOK
<1>3. CASE users # {}
  <2>1. PICK u \in users : t = [Nothing EXCEPT !.user = u, !.ends = ended, !.credits = 0]
    BY <1>3 DEF SubscriptionDeleted
  <2>2. u = stripe[s].owner /\ u \in Users
    BY <1>1, FoundIsOwner, ResolvedIsOwner
  <2>3. u # NULL /\ 0 # NULL /\ ended \in BOOLEAN
    BY <2>2, NullAssumption
  <2> HIDE DEF ended
  <2>4. t = [open |-> TRUE, user |-> u, row |-> NULL, ends |-> ended, credits |-> 0, cus |-> NULL]
    BY <2>1 DEF Nothing
  <2>5. t \in Tx
    BY <2>2, <2>3, <2>4 DEF Tx
  <2>6. 0 \in PaidFor(e)
    BY DEF PaidFor
  <2>7. EffectOK(e, t)
    BY <2>2, <2>3, <2>4, <2>6 DEF EffectOK
  <2> QED BY <2>5, <2>7
<1> QED BY <1>2, <1>3

(* Whatever the event, its transaction will write for the owner only.      *)
LEMMA EffectsOK ==
    ASSUME IInv, NEW e \in DOMAIN evs, NEW t \in Effects(evs[e])
    PROVE  t \in Tx /\ EffectOK(e, t)
<1>1. evs[e].type \in EventTypes
  BY EventKnown DEF StripeEvent
<1>2. CASE evs[e].type = "checkout.session.completed"
  BY <1>2, CheckoutCompletedOK DEF Effects
<1>3. CASE evs[e].type = "invoice.paid"
  BY <1>3, InvoicePaidOK DEF Effects
<1>4. CASE evs[e].type = "invoice.payment_failed"
  BY <1>4, NothingOK DEF Effects
<1>5. CASE evs[e].type = "customer.subscription.updated"
  BY <1>5, SubscriptionUpdatedOK DEF Effects
<1>6. CASE evs[e].type = "customer.subscription.deleted"
  BY <1>6, SubscriptionDeletedOK DEF Effects
<1> QED BY <1>1, <1>2, <1>3, <1>4, <1>5, <1>6 DEF EventTypes

-----------------------------------------------------------------------------
(* Deliveries: the transactions                                            *)

(* What Stripe has told stays as it is.                                    *)
LEMMA SameHistory ==
    ASSUME UNCHANGED stripeVars
    PROVE  History
BY DEF stripeVars, History, Known

(* A delivery keeps the invariant if it keeps it for the tables.           *)
LEMMA DeliveryIInv ==
    ASSUME IInv, UNCHANGED stripeVars, TypeInv',
           \A u \in Users : UserOK(u)', \A u \in Users : GrantsOK(u)',
           \A d \in EventIds : TxOK(d)', \A d \in processed' : DoneOK(d)'
    PROVE  IInv'
<1>1. CustomersApart'
  BY DEF IInv, CustomersApart, Known, stripeVars
<1>2. \A e \in DOMAIN evs' : EventOK(e)'
  BY DEF IInv, EventOK, Known, stripeVars
<1>3. \A s \in Subs : PriceTold(s)'
  BY DEF IInv, PriceTold, Known, stripeVars
<1> QED BY <1>1, <1>2, <1>3 DEF IInv

(* A step that writes no credits leaves the ledger as it is.               *)
LEMMA SameLedger ==
    ASSUME IInv, UNCHANGED ledgerVars
    PROVE  Ledger!TypeOK' /\ RowsStay
BY DEF IInv, TypeInv, ledgerVars, Ledger!TypeOK, RowsStay

(* Grants that only Stripe's history could disturb.                        *)
LEMMA SameGrants ==
    ASSUME IInv, UNCHANGED stripeVars, txs' = txs, NEW u \in Users
    PROVE  GrantsOK(u)'
BY SameHistory, GrantKept DEF GrantsOK

(* The reading half of a delivery.                                         *)
LEMMA ReceiveIInv ==
    ASSUME IInv, NEW e \in EventIds, Receive(e)
    PROVE  IInv'
<1>1. UNCHANGED <<ledgerVars, stripeVars, processed, custOf, subs>>
  BY DEF Receive
<1>2. e \in DOMAIN evs
  BY DEF Receive, Deliver
<1>3. PICK effect \in Effects(evs[e]) : tx' = [tx EXCEPT ![e] = effect]
  BY DEF Receive, Deliver
<1>4. effect \in Tx /\ EffectOK(e, effect)
  BY <1>2, EffectsOK
<1>5. tx \in [EventIds -> Tx \cup {Closed}]
  BY DEF IInv, TypeInv
<1>6. History /\ UNCHANGED stripeVars /\ UNCHANGED ledgerVars
  BY <1>1, SameHistory
<1>7. TypeInv'
  <2>1. tx' \in [EventIds -> Tx \cup {Closed}]
    BY <1>3, <1>4, <1>5
  <2> QED BY <1>1, <1>6, <2>1, SameLedger DEF IInv, TypeInv, stripeVars
<1>8. \A u \in Users : UserOK(u)'
  BY <1>1, <1>6, UserKept
<1>9. \A u \in Users : GrantsOK(u)'
  BY <1>6, SameGrants DEF ledgerVars
<1>10. TxOK(e)'
  <2>1. tx'[e] = effect
    BY <1>3, <1>5
  <2>2. EffectOK(e, effect)'
    BY <1>4, <1>6 DEF EffectOK, AlwaysListed, stripeVars, PaidFor, PricesSince
  <2> QED BY <1>2, <1>6, <2>1, <2>2 DEF TxOK, EffectOK, stripeVars
<1>11. \A d \in EventIds \ {e} : TxOK(d)'
  BY <1>3, <1>5, <1>6, TxKept
<1>12. \A d \in processed' : DoneOK(d)'
  BY <1>1, <1>6, SameLedger, DoneKept DEF IInv, TypeInv
<1> QED BY <1>6, <1>7, <1>8, <1>9, <1>10, <1>11, <1>12, DeliveryIInv

(* A transaction that rolls back.                                          *)
LEMMA AbortIInv ==
    ASSUME IInv, NEW e \in EventIds, Abort(e)
    PROVE  IInv'
<1>1. UNCHANGED <<ledgerVars, stripeVars, processed, custOf, subs>> /\ tx' = [tx EXCEPT ![e] = Closed]
  BY DEF Abort
<1>2. tx \in [EventIds -> Tx \cup {Closed}]
  BY DEF IInv, TypeInv
<1>3. History /\ UNCHANGED stripeVars /\ UNCHANGED ledgerVars
  BY <1>1, SameHistory
<1>4. TypeInv'
  <2>1. tx' \in [EventIds -> Tx \cup {Closed}]
    BY <1>1, <1>2
  <2> QED BY <1>1, <1>3, <2>1, SameLedger DEF IInv, TypeInv, stripeVars
<1>5. \A u \in Users : UserOK(u)'
  BY <1>1, <1>3, UserKept
<1>6. \A u \in Users : GrantsOK(u)'
  BY <1>3, SameGrants DEF ledgerVars
<1>7. TxOK(e)'
  BY <1>1, <1>2 DEF TxOK
<1>8. \A d \in EventIds \ {e} : TxOK(d)'
  BY <1>1, <1>2, <1>3, TxKept
<1>9. \A d \in processed' : DoneOK(d)'
  BY <1>1, <1>3, SameLedger, DoneKept DEF IInv, TypeInv
<1> QED BY <1>3, <1>4, <1>5, <1>6, <1>7, <1>8, <1>9, DeliveryIInv

(* An operator deletes the row of a processed event to have it again.      *)
LEMMA ReplayIInv ==
    ASSUME IInv, NEW e \in EventIds, Replay(e)
    PROVE  IInv'
<1>1. UNCHANGED <<ledgerVars, stripeVars, custOf, subs, tx>> /\ processed' = processed \ {e}
  BY DEF Replay
<1>2. History /\ UNCHANGED stripeVars /\ UNCHANGED ledgerVars
  BY <1>1, SameHistory
<1>3. TypeInv'
  BY <1>1, <1>2, SameLedger DEF IInv, TypeInv, stripeVars
<1>4. \A u \in Users : UserOK(u)'
  BY <1>1, <1>2, UserKept
<1>5. \A u \in Users : GrantsOK(u)'
  BY <1>2, SameGrants DEF ledgerVars
<1>6. \A d \in EventIds : TxOK(d)'
  BY <1>1, <1>2, TxKept
<1>7. \A d \in processed' : DoneOK(d)'
  BY <1>1, <1>2, SameLedger, DoneKept DEF IInv, TypeInv
<1> QED BY <1>2, <1>3, <1>4, <1>5, <1>6, <1>7, DeliveryIInv

-----------------------------------------------------------------------------
(* Deliveries: the writes                                                  *)

(* An open transaction belongs to an event that was told.                  *)
LEMMA OpenTx ==
    ASSUME IInv, NEW e \in EventIds, tx[e].open
    PROVE  /\ e \in DOMAIN evs /\ tx[e] \in Tx /\ EffectOK(e, tx[e])
           /\ evs[e].sub \in Subs /\ Known(evs[e].sub) /\ stripe[evs[e].sub].owner \in Users
<1>1. tx[e] # Closed /\ tx[e] \in Tx
  BY DEF IInv, TypeInv, Closed
<1>2. e \in DOMAIN evs /\ EffectOK(e, tx[e])
  BY <1>1 DEF IInv, TxOK
<1> QED BY <1>1, <1>2, EventKnown

(* A status update touches neither the subscription nor the price of a row. *)
LEMMA SetStatusKeeps ==
    ASSUME IInv, NEW s \in Subs, NEW status \in Statuses, SetStatus(s, status)
    PROVE  /\ subs' \in [Users -> SubscriptionRow \cup {NoSub}]
           /\ \A u \in Users : subs'[u].sub = subs[u].sub /\ subs'[u].price = subs[u].price
<1>1. subs \in [Users -> SubscriptionRow \cup {NoSub}]
  BY DEF IInv, TypeInv
<1>2. s # NULL
  BY NullAssumption
<1>3. ASSUME NEW u \in Users
      PROVE  /\ subs'[u] \in SubscriptionRow \cup {NoSub}
             /\ subs'[u].sub = subs[u].sub /\ subs'[u].price = subs[u].price
  <2>1. CASE subs[u].sub = s
    <3>1. subs[u] \in SubscriptionRow
      BY <1>1, <1>2, <2>1 DEF NoSub
    <3>2. subs'[u] = [subs[u] EXCEPT !.status = status]
      BY <2>1 DEF SetStatus
    <3> QED BY <3>1, <3>2 DEF SubscriptionRow
  <2>2. CASE subs[u].sub # s
    <3>1. subs'[u] = subs[u]
      BY <2>2 DEF SetStatus
    <3> QED BY <1>1, <3>1
  <2> QED BY <2>1, <2>2
<1>4. subs' = [u \in Users |-> subs'[u]]
  BY DEF SetStatus
<1> QED BY <1>3, <1>4

(* A row changes hands only to its owner.                                  *)
LEMMA SubsKept ==
    ASSUME IInv, NEW e \in EventIds, tx[e].open, WriteSubscription(e)
    PROVE  /\ subs' \in [Users -> SubscriptionRow \cup {NoSub}]
           /\ \A u \in Users :
                 \/ subs'[u].sub = subs[u].sub /\ subs'[u].price = subs[u].price
                 \/ /\ u = stripe[evs[e].sub].owner
                    /\ subs'[u] \in SubscriptionRow /\ subs'[u].sub = evs[e].sub
<1>1. /\ tx[e] \in Tx /\ EffectOK(e, tx[e]) /\ evs[e].sub \in Subs
      /\ stripe[evs[e].sub].owner \in Users /\ subs \in [Users -> SubscriptionRow \cup {NoSub}]
  BY OpenTx DEF IInv, TypeInv
<1>2. CASE tx[e].row # NULL
  <2>1. subs' = [subs EXCEPT ![tx[e].user] = tx[e].row]
    BY <1>2 DEF WriteSubscription
  <2>2. /\ tx[e].row \in SubscriptionRow /\ tx[e].row.sub = evs[e].sub
        /\ tx[e].user = stripe[evs[e].sub].owner
    BY <1>1, <1>2 DEF Tx, EffectOK
  <2> QED BY <1>1, <2>1, <2>2
<1>3. CASE tx[e].row = NULL /\ tx[e].ends
  <2>1. SetStatus(evs[e].sub, "canceled") /\ "canceled" \in Statuses
    BY <1>3 DEF WriteSubscription, Statuses
  <2> QED BY <1>1, <2>1, SetStatusKeeps
<1>4. CASE tx[e].row = NULL /\ ~tx[e].ends /\ evs[e].type = "invoice.payment_failed"
  <2>1. SetStatus(evs[e].sub, "past_due") /\ "past_due" \in Statuses
    BY <1>4 DEF WriteSubscription, Statuses
  <2> QED BY <1>1, <2>1, SetStatusKeeps
<1>5. CASE tx[e].row = NULL /\ ~tx[e].ends /\ evs[e].type # "invoice.payment_failed"
  <2>1. subs' = subs
    BY <1>5 DEF WriteSubscription
  <2> QED BY <1>1, <2>1
<1> QED BY <1>2, <1>3, <1>4, <1>5

(* A customer is bound only to its owner.                                  *)
LEMMA CustomersKept ==
    ASSUME IInv, NEW e \in EventIds, tx[e].open, WriteCustomer(e)
    PROVE  /\ custOf' \in [Users -> Customers \cup {NULL}]
           /\ \A u \in Users :
                 \/ custOf'[u] = custOf[u]
                 \/ u = stripe[evs[e].sub].owner /\ custOf'[u] = stripe[evs[e].sub].cus
<1>1. tx[e] \in Tx /\ EffectOK(e, tx[e]) /\ custOf \in [Users -> Customers \cup {NULL}]
  BY OpenTx DEF IInv, TypeInv
<1>2. CASE tx[e].cus = NULL
  BY <1>1, <1>2 DEF WriteCustomer
<1>3. CASE tx[e].cus # NULL
  <2>1. custOf' = [custOf EXCEPT ![tx[e].user] = tx[e].cus]
    BY <1>3 DEF WriteCustomer
  <2>2. /\ tx[e].cus \in Customers /\ tx[e].cus = stripe[evs[e].sub].cus
        /\ tx[e].user = stripe[evs[e].sub].owner
    BY <1>1, <1>3 DEF Tx, EffectOK
  <2> QED BY <1>1, <2>1, <2>2
<1> QED BY <1>2, <1>3

(* The row that a grant of n to u for event e writes.                      *)
GrantRow(u, n, e) ==
    [type |-> "subscription_grant", monthlyDelta |-> n - monthly[u], addonDelta |-> 0,
     monthlyAfter |-> monthly[u] + (n - monthly[u]), addonAfter |-> addon[u] + 0,
     generationID |-> NULL, externalID |-> EventKey(e)]

(* A grant adds its row to the journal of its user and changes no other.   *)
LEMMA GrantGrows ==
    ASSUME Ledger!TypeOK, NEW u \in Users, NEW n \in Nat, NEW e \in EventIds,
           Ledger!ResetMonthly(u, n, EventKey(e))
    PROVE  /\ Ledger!TypeOK' /\ RowsStay
           /\ \A v \in Users : \A i \in DOMAIN txs'[v] :
                 \/ i \in DOMAIN txs[v] /\ txs'[v][i] = txs[v][i]
                 \/ v = u /\ txs'[v][i] = GrantRow(u, n, e)
           /\ \E i \in DOMAIN txs'[u] : txs'[u][i] = GrantRow(u, n, e)
<1> DEFINE row == GrantRow(u, n, e)
<1>1. /\ accounts \in SUBSET Users /\ monthly \in [Users -> Int] /\ addon \in [Users -> Int]
      /\ txs \in [Users -> Seq(Ledger!CreditTransaction)]
  BY DEF Ledger!TypeOK
<1>2. /\ accounts' = accounts \cup {u}
      /\ monthly' = [monthly EXCEPT ![u] = @ + (n - monthly[u])]
      /\ addon' = [addon EXCEPT ![u] = @ + 0]
      /\ txs' = [txs EXCEPT ![u] = Append(@, row)]
  BY DEF Ledger!ResetMonthly, Ledger!Post, GrantRow
<1>3. row \in Ledger!CreditTransaction
  <2>1. EventKey(e) \in Ledger!ExternalIDs \cup {NULL} /\ NULL \in Gens \cup {NULL}
    BY DEF Ledger!ExternalIDs
  <2>2. n - monthly[u] \in Int /\ monthly[u] \in Int /\ addon[u] \in Int
    BY <1>1
  <2> QED BY <2>1, <2>2 DEF GrantRow, Ledger!CreditTransaction, Ledger!TxTypes
<1> HIDE DEF row
<1>4. Append(txs[u], row) \in Seq(Ledger!CreditTransaction)
  BY <1>1, <1>3
<1>5. Ledger!TypeOK'
  BY <1>1, <1>2, <1>4 DEF Ledger!TypeOK
<1>6. RowsStay
  BY <1>1, <1>2, <1>3 DEF RowsStay
<1>7. \A v \in Users : \A i \in DOMAIN txs'[v] :
        \/ i \in DOMAIN txs[v] /\ txs'[v][i] = txs[v][i]
        \/ v = u /\ txs'[v][i] = row
  BY <1>1, <1>2, <1>3
<1>8. \E i \in DOMAIN txs'[u] : txs'[u][i] = row
  <2>1. txs'[u] = Append(txs[u], row)
    BY <1>1, <1>2
  <2>2. Len(txs[u]) + 1 \in DOMAIN txs'[u] /\ txs'[u][Len(txs[u]) + 1] = row
    BY <1>1, <1>3, <2>1
  <2> QED BY <2>2
<1> QED BY <1>5, <1>6, <1>7, <1>8 DEF row

(* An event whose key the journal holds has been granted to its owner.     *)
LEMMA TakenIsGranted ==
    ASSUME IInv, NEW e \in DOMAIN evs, Ledger!ExtTypeTaken(EventKey(e), "subscription_grant")
    PROVE  Granted(e)
<1>1. PICK u \in Users : \E i \in DOMAIN txs[u] : txs[u][i].externalID = EventKey(e)
  BY DEF Ledger!ExtTypeTaken
<1>2. PICK i \in DOMAIN txs[u] : txs[u][i].externalID = EventKey(e)
  BY <1>1
<1>3. PICK d \in DOMAIN evs : txs[u][i].externalID = EventKey(d) /\ stripe[evs[d].sub].owner = u
  BY <1>2 DEF IInv, GrantsOK, GrantOK
<1>4. d = e
  BY <1>2, <1>3 DEF EventKey
<1> QED BY <1>2, <1>3, <1>4 DEF Granted

(* What Complete does to the ledger: nothing, the grant of its event, or,  *)
(* for an event granted before, the balance alone.                         *)
LEMMA CreditsKept ==
    ASSUME IInv, NEW e \in EventIds, tx[e].open, WriteCredits(e), UNCHANGED stripeVars
    PROVE  /\ Ledger!TypeOK' /\ RowsStay
           /\ \A u \in Users : GrantsOK(u)'
           /\ tx[e].credits # NULL => Granted(e)'
<1> DEFINE u == tx[e].user
           n == tx[e].credits
<1>1. /\ e \in DOMAIN evs /\ tx[e] \in Tx /\ EffectOK(e, tx[e]) /\ Ledger!TypeOK
      /\ evs' = evs /\ stripe' = stripe /\ stripe[evs[e].sub].owner \in Users /\ History
  BY OpenTx, SameHistory DEF IInv, TypeInv, stripeVars
<1>2. CASE n = NULL
  <2>1. UNCHANGED ledgerVars
    BY <1>2 DEF WriteCredits
  <2> QED BY <1>2, <2>1, SameLedger, SameGrants DEF ledgerVars
<1>3. CASE n # NULL
  <2>1. n \in Nat /\ u = stripe[evs[e].sub].owner
    BY <1>1, <1>3 DEF Tx, EffectOK
  <2>2. CASE Ledger!ResetMonthly(u, n, EventKey(e))
    <3> HIDE DEF u, n
    <3>1. /\ Ledger!TypeOK' /\ RowsStay
          /\ \A v \in Users : \A i \in DOMAIN txs'[v] :
                \/ i \in DOMAIN txs[v] /\ txs'[v][i] = txs[v][i]
                \/ v = u /\ txs'[v][i] = GrantRow(u, n, e)
          /\ \E i \in DOMAIN txs'[u] : txs'[u][i] = GrantRow(u, n, e)
      BY <1>1, <2>1, <2>2, GrantGrows
    <3>2. /\ GrantRow(u, n, e).type = "subscription_grant"
          /\ GrantRow(u, n, e).externalID = EventKey(e)
      BY DEF GrantRow
    <3>3. Granted(e)'
      BY <1>1, <2>1, <3>1, <3>2 DEF Granted
    <3>4. ASSUME NEW v \in Users, NEW i \in DOMAIN txs'[v] PROVE GrantOK(v, txs[v][i])'
      <4>1. CASE i \in DOMAIN txs[v] /\ txs'[v][i] = txs[v][i]
        <5>1. GrantOK(v, txs[v][i])'
          BY <1>1, <4>1, GrantKept
        <5> QED BY <5>1
      <4>2. CASE v = u /\ txs'[v][i] = GrantRow(u, n, e)
        BY <1>1, <2>1, <3>2, <4>2 DEF GrantOK
      <4> QED BY <3>1, <4>1, <4>2
    <3> QED BY <3>1, <3>3, <3>4 DEF GrantsOK
  <2>3. CASE GrantedAlready(u, n, EventKey(e))
    <3>1. /\ Ledger!ExtTypeTaken(EventKey(e), "subscription_grant")
          /\ accounts' = accounts \cup {u} /\ monthly' = [monthly EXCEPT ![u] = n]
          /\ addon' = addon /\ txs' = txs
      BY <2>3 DEF GrantedAlready
    <3>2. Ledger!TypeOK'
      BY <1>1, <2>1, <3>1 DEF Ledger!TypeOK
    <3>3. RowsStay
      BY <3>1 DEF RowsStay
    <3>4. Granted(e)'
      <4>1. Granted(e)
        BY <1>1, <3>1, TakenIsGranted
      <4> QED BY <1>1, <3>1, <4>1 DEF Granted
    <3> QED BY <3>1, <3>2, <3>3, <3>4, SameGrants
  <2> QED BY <1>3, <2>2, <2>3 DEF WriteCredits
<1> QED BY <1>2, <1>3

(* The writing half of a delivery: everything at once, or nothing.         *)
LEMMA CompleteIInv ==
    ASSUME IInv, NEW e \in EventIds, Complete(e)
    PROVE  IInv'
<1>1. /\ tx[e].open /\ WriteSubscription(e) /\ WriteCustomer(e) /\ WriteCredits(e)
      /\ processed' = processed \cup {e} /\ tx' = [tx EXCEPT ![e] = Closed]
      /\ UNCHANGED stripeVars
  BY DEF Complete
<1>2. /\ e \in DOMAIN evs /\ tx[e] \in Tx /\ EffectOK(e, tx[e])
      /\ evs[e].sub \in Subs /\ Known(evs[e].sub) /\ stripe[evs[e].sub].owner \in Users
  BY <1>1, OpenTx
<1>3. evs' = evs /\ stripe' = stripe /\ History
  BY <1>1, SameHistory DEF stripeVars
<1>4. /\ Ledger!TypeOK' /\ RowsStay
      /\ \A u \in Users : GrantsOK(u)'
      /\ tx[e].credits # NULL => Granted(e)'
  BY <1>1, CreditsKept
<1>5. tx \in [EventIds -> Tx \cup {Closed}] /\ processed \subseteq DOMAIN evs
  BY DEF IInv, TypeInv
<1>6. TypeInv'
  <2>1. tx' \in [EventIds -> Tx \cup {Closed}]
    BY <1>1, <1>5
  <2>2. /\ subs' \in [Users -> SubscriptionRow \cup {NoSub}]
        /\ custOf' \in [Users -> Customers \cup {NULL}]
    BY <1>1, SubsKept, CustomersKept
  <2>3. processed' \subseteq DOMAIN evs'
    BY <1>1, <1>2, <1>3, <1>5
  <2> QED BY <1>3, <1>4, <2>1, <2>2, <2>3 DEF IInv, TypeInv
<1>7. ASSUME NEW u \in Users PROVE UserOK(u)'
  <2>1. UserOK(u)
    BY DEF IInv
  <2>2. /\ subs'[u].sub \in Subs \cup {NULL} /\ subs'[u].price \in Listed \cup {NULL}
        /\ subs'[u].sub # NULL => Known(subs[u].sub)' /\ stripe'[subs'[u].sub].owner = u
    <3>1. CASE subs'[u].sub = subs[u].sub /\ subs'[u].price = subs[u].price
      BY <1>3, <2>1, <3>1 DEF UserOK, Known
    <3>2. CASE u = stripe[evs[e].sub].owner /\ subs'[u] \in SubscriptionRow /\ subs'[u].sub = evs[e].sub
      BY <1>2, <1>3, <3>2 DEF SubscriptionRow, Known
    <3> QED BY <1>1, <3>1, <3>2, SubsKept
  <2>3. custOf'[u] # NULL =>
          \E s \in Subs : Known(s)' /\ stripe'[s].cus = custOf'[u] /\ stripe'[s].owner = u
    <3>1. CASE custOf'[u] = custOf[u]
      BY <1>3, <2>1, <3>1 DEF UserOK, Known
    <3>2. CASE u = stripe[evs[e].sub].owner /\ custOf'[u] = stripe[evs[e].sub].cus
      BY <1>2, <1>3, <3>2 DEF Known
    <3> QED BY <1>1, <3>1, <3>2, CustomersKept
  <2> QED BY <2>2, <2>3 DEF UserOK, Known
<1>8. TxOK(e)'
  BY <1>1, <1>5 DEF TxOK
<1>9. \A d \in EventIds \ {e} : TxOK(d)'
  BY <1>1, <1>3, <1>5, TxKept
<1>10. DoneOK(e)'
  <2>1. evs[e].type = "invoice.paid" /\ AlwaysListed(evs[e].sub) => tx[e].credits # NULL
    BY <1>2 DEF EffectOK
  <2>2. AlwaysListed(evs[e].sub)' => AlwaysListed(evs[e].sub)
    BY <1>2, <1>3, ListedBefore
  <2> QED BY <1>3, <1>4, <2>1, <2>2 DEF DoneOK
<1>11. \A d \in processed : DoneOK(d)'
  BY <1>3, <1>4, <1>5, DoneKept DEF IInv
<1>12. \A d \in processed' : DoneOK(d)'
  BY <1>1, <1>10, <1>11
<1>13. \A d \in EventIds : TxOK(d)'
  BY <1>8, <1>9
<1> QED BY <1>1, <1>4, <1>6, <1>7, <1>12, <1>13, DeliveryIInv

-----------------------------------------------------------------------------
(* The invariant                                                           *)

(* Before the first event there is nothing to relate.                      *)
LEMMA InitIInv == Init => IInv
<1> SUFFICES ASSUME Init PROVE IInv
  OBVIOUS
<1>1. /\ stripe = [s \in Subs |-> NoStripeSub] /\ evs = <<>> /\ processed = {}
      /\ custOf = [u \in Users |-> NULL] /\ subs = [u \in Users |-> NoSub]
      /\ tx = [e \in EventIds |-> Closed]
      /\ accounts = {} /\ monthly = [u \in Users |-> 0] /\ addon = [u \in Users |-> 0]
      /\ txs = [u \in Users |-> <<>>]
  BY DEF Init, Ledger!Init
<1>2. TypeInv
  <2>1. Ledger!TypeOK
    BY <1>1 DEF Ledger!TypeOK
  <2>2. evs \in Seq(StripeEvent) /\ Len(evs) <= MaxEvents
    BY <1>1, EventsAssumption
  <2> QED BY <1>1, <2>1, <2>2 DEF TypeInv
<1>3. \A s \in Subs : ~Known(s)
  BY <1>1 DEF Known, NoStripeSub
<1>4. CustomersApart /\ \A s \in Subs : PriceTold(s)
  BY <1>3 DEF CustomersApart, PriceTold
<1>5. \A e \in DOMAIN evs : EventOK(e)
  BY <1>1
<1>6. \A u \in Users : UserOK(u) /\ GrantsOK(u)
  BY <1>1 DEF UserOK, GrantsOK, NoSub
<1>7. \A e \in EventIds : TxOK(e)
  BY <1>1 DEF TxOK
<1> QED BY <1>1, <1>2, <1>4, <1>5, <1>6, <1>7 DEF IInv

(* Nothing happens.                                                        *)
LEMMA StutterIInv ==
    ASSUME IInv, UNCHANGED vars
    PROVE  IInv'
<1>1. UNCHANGED <<ledgerVars, stripeVars, processed, custOf, subs, tx>>
  BY DEF vars
<1>2. History /\ UNCHANGED stripeVars /\ UNCHANGED ledgerVars
  BY <1>1, SameHistory
<1>3. TypeInv'
  BY <1>1, <1>2, SameLedger DEF IInv, TypeInv, stripeVars
<1>4. \A u \in Users : UserOK(u)'
  BY <1>1, <1>2, UserKept
<1>5. \A u \in Users : GrantsOK(u)'
  BY <1>2, SameGrants DEF ledgerVars
<1>6. \A d \in EventIds : TxOK(d)'
  BY <1>1, <1>2, TxKept
<1>7. \A d \in processed' : DoneOK(d)'
  BY <1>1, <1>2, SameLedger, DoneKept DEF IInv, TypeInv
<1> QED BY <1>2, <1>3, <1>4, <1>5, <1>6, <1>7, DeliveryIInv

(* IInv is inductive.                                                      *)
LEMMA NextIInv == IInv /\ [Next]_vars => IInv'
<1> SUFFICES ASSUME IInv, [Next]_vars PROVE IInv'
  OBVIOUS
<1>1. CASE StripeStep
  BY <1>1, StripeIInv
<1>2. ASSUME NEW e \in EventIds, Receive(e) \/ Complete(e) \/ Abort(e) \/ Replay(e)
      PROVE  IInv'
  BY <1>2, ReceiveIInv, CompleteIInv, AbortIInv, ReplayIInv
<1>3. CASE UNCHANGED vars
  BY <1>3, StutterIInv
<1> QED BY <1>1, <1>2, <1>3 DEF Next

(* What a transaction will write concerns the owner of the event's         *)
(* subscription, and the tables hold nothing that an event of that         *)
(* subscription did not tell: resolveUserID and the five handlers.         *)
THEOREM StripeInvariant == Spec => []IInv
<1>1. Init => IInv
  BY InitIInv
<1>2. IInv /\ [Next]_vars => IInv'
  BY NextIInv
<1> QED BY <1>1, <1>2, PTL DEF Spec

-----------------------------------------------------------------------------
(* The properties                                                          *)

(* Every variable keeps its type.                                          *)
THEOREM StripeTyped == Spec => []TypeOK
<1>1. IInv => TypeOK
  <2> SUFFICES ASSUME IInv PROVE TypeOK
    OBVIOUS
  <2>1. ASSUME NEW s \in Subs
        PROVE  /\ stripe[s].status \in Statuses \cup {"none"}
               /\ stripe[s].price \in Prices \cup {NULL}
               /\ stripe[s].owner \in Users \cup {NULL}
               /\ stripe[s].cus \in Customers \cup {NULL}
    <3>1. stripe[s] \in StripeSub \cup {NoStripeSub}
      BY DEF IInv, TypeInv
    <3> QED BY <3>1 DEF StripeSub, Statuses, NoStripeSub
  <2>2. subs \in [Users -> SubscriptionRow \cup {NoSub}]
    BY DEF IInv, TypeInv
  <2>3. \A e \in EventIds : tx[e].open => e \in DOMAIN evs
    BY OpenTx
  <2>4. /\ Ledger!TypeOK /\ Len(evs) <= MaxEvents /\ processed \subseteq DOMAIN evs
        /\ custOf \in [Users -> Customers \cup {NULL}]
    BY DEF IInv, TypeInv
  <2> QED BY <2>1, <2>2, <2>3, <2>4 DEF TypeOK
<1> QED BY <1>1, StripeInvariant, PTL

(* An acknowledged invoice was granted, through crashes, failures,         *)
(* replays and concurrent deliveries (stripe_webhook.go: the record of the *)
(* event and the grant are one transaction).                               *)
THEOREM NoInvoiceIsLost == Spec => []NoLostGrant
<1>1. IInv => NoLostGrant
  BY DEF IInv, NoLostGrant, DoneOK, Granted
<1> QED BY <1>1, StripeInvariant, PTL

(* Nobody gets another user's subscription or customer (resolveUserID and  *)
(* upsertSubscription).                                                    *)
THEOREM SubscriptionsStayApart == Spec => []NobodyElsesSubscription
<1>1. IInv => NobodyElsesSubscription
  <2> SUFFICES ASSUME IInv PROVE NobodyElsesSubscription
    OBVIOUS
  <2>1. \A u \in Users : subs[u].sub # NULL => stripe[subs[u].sub].owner = u
    BY DEF IInv, UserOK
  <2>2. \A u \in Users : custOf[u] # NULL =>
          \E s \in Subs : stripe[s].cus = custOf[u] /\ stripe[s].owner = u
    BY DEF IInv, UserOK
  <2> QED BY <2>1, <2>2 DEF NobodyElsesSubscription
<1> QED BY <1>1, StripeInvariant, PTL

-----------------------------------------------------------------------------
(* In order: what the rows say                                             *)
(*                                                                         *)
(* Stripe's own record is what the last event of a subscription says: its  *)
(* last word on the price comes with an event whose handler writes the     *)
(* row, and the last event of a cancelled subscription is its deletion. So *)
(* a row follows its subscription once the last such event was handled,    *)
(* whatever retries came before.                                           *)

(* The events whose handlers write the row with its price.                 *)
Writers == {"invoice.paid", "customer.subscription.updated"}

Later(e, types) ==
    \E d \in DOMAIN evs : d > e /\ evs[d].sub = evs[e].sub /\ evs[d].type \in types

(* What the events of a subscription tell of its present.                  *)
DeletedLast(e) ==
    evs[e].type = "customer.subscription.deleted" => evs[e].status = "canceled"
PriceLast(e) ==
    evs[e].type \in Writers /\ ~Later(e, Writers) => evs[e].price = stripe[evs[e].sub].price
StatusLast(e) ==
    ~Later(e, EventTypes) =>
        /\ evs[e].status = stripe[evs[e].sub].status
        /\ evs[e].status = "canceled" => evs[e].type = "customer.subscription.deleted"
WriterFollows(e) ==
    evs[e].type \in {"checkout.session.completed", "invoice.payment_failed"} => Later(e, Writers)
InvoiceCame(e) ==
    evs[e].type \notin {"checkout.session.completed", "invoice.paid"} =>
        \E d \in DOMAIN evs : d < e /\ evs[d].sub = evs[e].sub /\ evs[d].type = "invoice.paid"

ToldOK(e) ==
    DeletedLast(e) /\ PriceLast(e) /\ StatusLast(e) /\ WriterFollows(e) /\ InvoiceCame(e)

Invoiced(s) == Known(s) => \E d \in DOMAIN evs : evs[d].sub = s /\ evs[d].type = "invoice.paid"

Single(u, s) == OnlySubscription(u, s) /\ AlwaysListed(s)

(* After its invoice, in whatever order, the row is there.                 *)
RowThere(u, s) ==
    /\ Single(u, s)
    /\ \E d \in processed : evs[d].sub = s /\ evs[d].type = "invoice.paid"
    => subs[u].sub = s

Handled(s, types) ==
    \A d \in DOMAIN evs : evs[d].sub = s /\ evs[d].type \in types => d \in processed

RowTrue(u, s) ==
    Single(u, s) =>
        /\ Handled(s, Writers) => subs[u].sub = s /\ subs[u].price = stripe[s].price
        /\ Handled(s, EventTypes) =>
              /\ subs[u] = [sub |-> s, price |-> stripe[s].price, status |-> stripe[s].status]
              /\ stripe[s].status = "canceled" => monthly[u] = 0

(* One transaction is open at a time, of the newest event so far.          *)
Alone ==
    \A e \in EventIds : tx[e].open =>
        /\ \A d \in EventIds : tx[d].open => d = e
        /\ \A d \in processed : d < e

(* Its writes will leave the row as the events so far tell it.             *)
TxTrue(e) ==
    tx[e].open /\ Single(stripe[evs[e].sub].owner, evs[e].sub) =>
        /\ evs[e].type = "invoice.paid" =>
              /\ ~Later(e, Writers) => tx[e].row.price = stripe[evs[e].sub].price
              /\ ~Later(e, EventTypes) => tx[e].row.status = stripe[evs[e].sub].status
        /\ evs[e].type = "customer.subscription.updated" =>
              tx[e].row = [sub |-> evs[e].sub, price |-> evs[e].price, status |-> evs[e].status]
        /\ evs[e].type = "customer.subscription.deleted" =>
              tx[e].row = NULL /\ tx[e].ends /\ tx[e].credits = 0

Told == (\A e \in DOMAIN evs : ToldOK(e)) /\ \A s \in Subs : Invoiced(s)

InOrder ==
    /\ Alone
    /\ \A e \in EventIds : TxTrue(e)
    /\ \A u \in Users, s \in Subs : RowTrue(u, s)

OInv ==
    /\ Told
    /\ \A u \in Users, s \in Subs : RowThere(u, s)
    /\ inOrder => InOrder

(* What Stripe's operations have in common: a new price comes with an      *)
(* event that writes it, a cancellation with a deletion and nothing else,  *)
(* a failed payment with an update, a first event with an invoice.         *)
Shape(s, sub, types) ==
    /\ ~Known(s) \/ sub.price # stripe[s].price => \E i \in DOMAIN types : types[i] \in Writers
    /\ \A i \in DOMAIN types : types[i] = "customer.subscription.deleted" <=> sub.status = "canceled"
    /\ \A i \in DOMAIN types :
          types[i] \in {"checkout.session.completed", "invoice.payment_failed"} =>
              \E j \in DOMAIN types : i < j /\ types[j] \in Writers
    /\ ~Known(s) =>
          /\ \A i \in DOMAIN types : types[i] \in {"checkout.session.completed", "invoice.paid"}
          /\ \E i \in DOMAIN types : types[i] = "invoice.paid"

(* An emission tells of its subscription what is true of it now.           *)
LEMMA EmitTold ==
    ASSUME IInv, Told, NEW s \in Subs, NEW sub \in StripeSub, NEW types \in Seq(EventTypes),
           types # <<>>, Emit(s, sub, types), Shape(s, sub, types)
    PROVE  Told'
<1> DEFINE n == Len(evs)
<1>1. stripe'[s] = sub /\ \A r \in Subs \ {s} : stripe'[r] = stripe[r]
  BY DEF IInv, TypeInv, Emit
<1>2. /\ n \in Nat /\ DOMAIN types = 1 .. Len(types) /\ Len(types) \in Nat
      /\ \A d \in DOMAIN evs : d \in Nat /\ d <= n /\ d \in DOMAIN evs' /\ evs'[d] = evs[d]
  BY EmitNews
<1>3. \A i \in DOMAIN types :
        /\ i \in Nat /\ i > 0 /\ n + i \in DOMAIN evs' /\ n + i \notin DOMAIN evs
        /\ evs'[n + i].sub = s /\ evs'[n + i].type = types[i] /\ types[i] \in EventTypes
  <2>1. \A i \in DOMAIN types : types[i] \in EventTypes
    OBVIOUS
  <2>2. \A type \in EventTypes : Event(type, s, sub).sub = s /\ Event(type, s, sub).type = type
    BY DEF Event
  <2>3. \A i \in DOMAIN types :
          /\ i \in Nat /\ i > 0 /\ n + i \in DOMAIN evs' /\ n + i \notin DOMAIN evs
          /\ evs'[n + i] = Event(types[i], s, sub)
    BY EmitNews
  <2> QED BY <2>1, <2>2, <2>3
<1>4. \A d \in DOMAIN evs' \ DOMAIN evs :
        /\ d - n \in DOMAIN types /\ d = n + (d - n)
        /\ evs'[d].sub = s /\ evs'[d].type = types[d - n]
        /\ evs'[d].price = sub.price /\ evs'[d].status = sub.status
  BY EmitNews DEF Event
<1>5. 1 \in DOMAIN types
  BY <1>2
<1> HIDE DEF n
<1>6. ASSUME NEW e \in DOMAIN evs, NEW T, Later(e, T) PROVE Later(e, T)'
  BY <1>2, <1>6 DEF Later
<1>7. ASSUME NEW e \in DOMAIN evs, evs[e].sub = s, NEW i \in DOMAIN types, NEW T, types[i] \in T
      PROVE  Later(e, T)'
  <2>1. n + i > e
    BY <1>2, <1>3
  <2> QED BY <1>2, <1>3, <1>7, <2>1 DEF Later
<1>8. ASSUME NEW e \in DOMAIN evs PROVE ToldOK(e)'
  <2>1. evs'[e] = evs[e] /\ ToldOK(e) /\ evs[e].sub \in Subs /\ Known(evs[e].sub)
    BY <1>2, EventKnown DEF Told
  <2>2. DeletedLast(e)'
    BY <2>1 DEF ToldOK, DeletedLast
  <2>3. PriceLast(e)'
    <3> SUFFICES ASSUME evs[e].type \in Writers, ~Later(e, Writers)'
                 PROVE  evs[e].price = stripe'[evs[e].sub].price
      BY <2>1 DEF PriceLast
    <3>1. evs[e].price = stripe[evs[e].sub].price
      BY <1>6, <2>1 DEF ToldOK, PriceLast
    <3>2. evs[e].sub = s => sub.price = stripe[s].price
      BY <1>7, <2>1 DEF Shape
    <3> QED BY <1>1, <2>1, <3>1, <3>2
  <2>4. StatusLast(e)'
    <3> SUFFICES ASSUME ~Later(e, EventTypes)'
                 PROVE  /\ evs[e].status = stripe'[evs[e].sub].status
                        /\ evs[e].status = "canceled" => evs[e].type = "customer.subscription.deleted"
      BY <2>1 DEF StatusLast
    <3>1. evs[e].sub # s
      BY <1>3, <1>5, <1>7
    <3>2. ~Later(e, EventTypes)
      BY <1>6
    <3> QED BY <1>1, <2>1, <3>1, <3>2 DEF ToldOK, StatusLast
  <2>5. WriterFollows(e)'
    BY <1>6, <2>1 DEF ToldOK, WriterFollows
  <2>6. InvoiceCame(e)'
    BY <1>2, <2>1 DEF ToldOK, InvoiceCame
  <2> QED BY <2>2, <2>3, <2>4, <2>5, <2>6 DEF ToldOK
<1>9. ASSUME NEW e \in DOMAIN evs' \ DOMAIN evs PROVE ToldOK(e)'
  <2> DEFINE i == e - n
  <2>1. /\ i \in DOMAIN types /\ e = n + i /\ evs'[e].sub = s /\ evs'[e].type = types[i]
        /\ evs'[e].price = sub.price /\ evs'[e].status = sub.status
    BY <1>4
  <2> HIDE DEF i
  <2>2. DeletedLast(e)'
    BY <2>1 DEF Shape, DeletedLast
  <2>3. PriceLast(e)'
    BY <1>1, <2>1 DEF PriceLast
  <2>4. StatusLast(e)'
    BY <1>1, <2>1 DEF Shape, StatusLast
  <2>5. WriterFollows(e)'
    <3> SUFFICES ASSUME types[i] \in {"checkout.session.completed", "invoice.payment_failed"}
                 PROVE  Later(e, Writers)'
      BY <2>1 DEF WriterFollows
    <3>1. PICK j \in DOMAIN types : i < j /\ types[j] \in Writers
      BY <2>1 DEF Shape
    <3>2. n + j > e
      BY <1>2, <1>3, <2>1, <3>1
    <3> QED BY <1>3, <2>1, <3>1, <3>2 DEF Later
  <2>6. InvoiceCame(e)'
    <3> SUFFICES ASSUME types[i] \notin {"checkout.session.completed", "invoice.paid"}
                 PROVE  \E d \in DOMAIN evs' : d < e /\ evs'[d].sub = s /\ evs'[d].type = "invoice.paid"
      BY <2>1 DEF InvoiceCame
    <3>1. Known(s)
      BY <2>1 DEF Shape
    <3>2. PICK d \in DOMAIN evs : evs[d].sub = s /\ evs[d].type = "invoice.paid"
      BY <3>1 DEF Told, Invoiced
    <3>3. d < e
      BY <1>2, <1>3, <2>1
    <3> QED BY <1>2, <3>2, <3>3
  <2> QED BY <2>2, <2>3, <2>4, <2>5, <2>6 DEF ToldOK
<1>10. ASSUME NEW r \in Subs PROVE Invoiced(r)'
  <2> SUFFICES ASSUME Known(r)'
               PROVE  \E d \in DOMAIN evs' : evs'[d].sub = r /\ evs'[d].type = "invoice.paid"
    BY DEF Invoiced
  <2>1. CASE Known(r)
    <3>1. PICK d \in DOMAIN evs : evs[d].sub = r /\ evs[d].type = "invoice.paid"
      BY <2>1 DEF Told, Invoiced
    <3> QED BY <1>2, <3>1
  <2>2. CASE ~Known(r)
    <3>1. r = s
      BY <1>1, <2>2 DEF Known
    <3>2. PICK i \in DOMAIN types : types[i] = "invoice.paid"
      BY <2>2, <3>1 DEF Shape
    <3> QED BY <1>3, <3>1, <3>2
  <2> QED BY <2>1, <2>2
<1> QED BY <1>8, <1>9, <1>10 DEF Told

(* A subscription that Stripe knew was the user's only one before as well. *)
LEMMA SingleBefore ==
    ASSUME IInv, History, NEW u \in Users, NEW s \in Subs, Known(s), Single(u, s)'
    PROVE  Single(u, s)
<1>1. Known(s)' /\ stripe'[s].owner = stripe[s].owner
  BY DEF History
<1>2. ASSUME NEW r \in Subs \ {s} PROVE stripe[r].owner # u
  <2>1. CASE Known(r)
    BY <2>1 DEF History, Single, OnlySubscription
  <2>2. CASE ~Known(r)
    <3>1. stripe[r] = NoStripeSub
      BY <2>2 DEF IInv, TypeInv, Known, StripeSub, Statuses
    <3> QED BY <3>1, NullAssumption DEF NoStripeSub
  <2> QED BY <2>1, <2>2
<1>3. OnlySubscription(u, s)
  BY <1>1, <1>2 DEF Single, OnlySubscription, Known
<1>4. AlwaysListed(s)
  BY DEF Single, History, AlwaysListed
<1> QED BY <1>3, <1>4 DEF Single

(* An emission leaves the tables true of every subscription: of another    *)
(* one nothing changes, and of its own a new event is waiting.             *)
LEMMA EmitOInv ==
    ASSUME IInv, OInv, IInv', NEW s \in Subs, NEW sub \in StripeSub, NEW types \in Seq(EventTypes),
           types # <<>>, Emit(s, sub, types), Shape(s, sub, types),
           Known(s) => sub.owner = stripe[s].owner /\ sub.cus = stripe[s].cus
    PROVE  OInv'
<1> DEFINE n == Len(evs)
<1>1. /\ stripe'[s] = sub /\ \A r \in Subs \ {s} : stripe'[r] = stripe[r]
      /\ processed' = processed /\ subs' = subs /\ tx' = tx /\ inOrder' = inOrder
      /\ monthly' = monthly /\ processed \subseteq DOMAIN evs
  BY DEF IInv, TypeInv, Emit, ledgerVars
<1>2. \A d \in DOMAIN evs : d \in DOMAIN evs' /\ evs'[d] = evs[d]
  BY EmitNews
<1>3. \A i \in DOMAIN types :
        /\ n + i \in DOMAIN evs' /\ n + i \notin DOMAIN evs
        /\ evs'[n + i].sub = s /\ evs'[n + i].type = types[i]
        /\ \A d \in DOMAIN evs : n + i > d
  <2>1. \A type \in EventTypes : Event(type, s, sub).sub = s /\ Event(type, s, sub).type = type
    BY DEF Event
  <2>2. \A i \in DOMAIN types : types[i] \in EventTypes
    OBVIOUS
  <2>3. \A i \in DOMAIN types :
          /\ n + i \in DOMAIN evs' /\ n + i \notin DOMAIN evs
          /\ evs'[n + i] = Event(types[i], s, sub)
          /\ i \in Nat /\ i > 0 /\ n \in Nat
    BY EmitNews
  <2>4. \A d \in DOMAIN evs : d \in Nat /\ d <= n
    BY EmitNews
  <2> QED BY <2>1, <2>2, <2>3, <2>4
<1>4. 1 \in DOMAIN types /\ types[1] \in EventTypes
  OBVIOUS
<1>5. History
  <2>1. ASSUME NEW r \in Subs, Known(r)
        PROVE  Known(r)' /\ stripe'[r].owner = stripe[r].owner /\ stripe'[r].cus = stripe[r].cus
    BY <1>1, <2>1 DEF Known, StripeSub, Statuses
  <2> QED BY <1>2, <2>1 DEF History
<1> HIDE DEF n
<1>6. Told'
  BY EmitTold DEF OInv
<1>7. ASSUME NEW e \in DOMAIN evs, NEW T, Later(e, T) PROVE Later(e, T)'
  BY <1>2, <1>7 DEF Later
<1>8. ASSUME NEW e \in DOMAIN evs, evs[e].sub = s, NEW i \in DOMAIN types, NEW T, types[i] \in T
      PROVE  Later(e, T)'
  BY <1>2, <1>3, <1>8 DEF Later
<1>9. ASSUME NEW r \in Subs, NEW T, Handled(r, T)'
      PROVE  /\ Handled(r, T)
             /\ r = s => \A i \in DOMAIN types : types[i] \notin T
  BY <1>1, <1>2, <1>3, <1>9 DEF Handled
<1>10. ASSUME NEW u \in Users, NEW r \in Subs PROVE RowThere(u, r)'
  <2> SUFFICES ASSUME Single(u, r)',
                      NEW d \in processed, evs'[d].sub = r, evs'[d].type = "invoice.paid"
               PROVE  subs[u].sub = r
    BY <1>1 DEF RowThere
  <2>1. d \in DOMAIN evs /\ evs[d].sub = r /\ evs[d].type = "invoice.paid" /\ Known(r)
    BY <1>1, <1>2, EventKnown
  <2>2. Single(u, r)
    BY <1>5, <2>1, SingleBefore
  <2> QED BY <2>1, <2>2 DEF OInv, RowThere
<1>11. ASSUME InOrder, NEW e \in EventIds PROVE TxTrue(e)'
  <2> DEFINE r == evs[e].sub
  <2> SUFFICES ASSUME tx[e].open, Single(stripe[evs[e].sub].owner, evs[e].sub)'
               PROVE  TxTrue(e)'
    BY <1>1 DEF TxTrue
  <2>1. e \in DOMAIN evs /\ r \in Subs /\ Known(r) /\ stripe[r].owner \in Users /\ evs'[e] = evs[e]
    BY <1>2, OpenTx
  <2>2. stripe'[r].owner = stripe[r].owner
    BY <1>5, <2>1 DEF History
  <2>3. Single(stripe[r].owner, r)
    <3> DEFINE u == stripe[r].owner
    <3>1. Single(u, r)'
      BY <2>1, <2>2 DEF Single, OnlySubscription, AlwaysListed
    <3> QED BY <2>1, <2>2, <1>5, SingleBefore DEF Single, OnlySubscription, AlwaysListed, History, Known
  <2>4. /\ evs[e].type = "invoice.paid" =>
              /\ ~Later(e, Writers) => tx[e].row.price = stripe[r].price
              /\ ~Later(e, EventTypes) => tx[e].row.status = stripe[r].status
        /\ evs[e].type = "customer.subscription.updated" =>
              tx[e].row = [sub |-> evs[e].sub, price |-> evs[e].price, status |-> evs[e].status]
        /\ evs[e].type = "customer.subscription.deleted" =>
              tx[e].row = NULL /\ tx[e].ends /\ tx[e].credits = 0
    BY <1>11, <2>3 DEF InOrder, TxTrue
  <2>5. ~Later(e, Writers)' => ~Later(e, Writers) /\ stripe'[r].price = stripe[r].price
    <3> SUFFICES ASSUME ~Later(e, Writers)'
                 PROVE  ~Later(e, Writers) /\ stripe'[r].price = stripe[r].price
      OBVIOUS
    <3>1. ~Later(e, Writers)
      BY <1>7, <2>1
    <3>2. r = s => sub.price = stripe[s].price
      BY <1>8, <2>1 DEF Shape
    <3> QED BY <1>1, <2>1, <3>1, <3>2
  <2>6. ~Later(e, EventTypes)' => ~Later(e, EventTypes) /\ stripe'[r].status = stripe[r].status
    <3> SUFFICES ASSUME ~Later(e, EventTypes)'
                 PROVE  ~Later(e, EventTypes) /\ stripe'[r].status = stripe[r].status
      OBVIOUS
    <3>1. ~Later(e, EventTypes)
      BY <1>7, <2>1
    <3>2. r # s
      BY <1>4, <1>8, <2>1
    <3> QED BY <1>1, <2>1, <3>1, <3>2
  <2> QED BY <1>1, <2>1, <2>4, <2>5, <2>6 DEF TxTrue
<1>12. ASSUME InOrder, NEW u \in Users, NEW r \in Subs PROVE RowTrue(u, r)'
  <2> SUFFICES ASSUME Single(u, r)'
               PROVE  RowTrue(u, r)'
    BY DEF RowTrue
  <2>1. CASE ~Known(r)
    <3>1. r = s
      BY <1>1, <2>1 DEF Single, OnlySubscription, Known
    <3>2. ~Handled(r, Writers)'
      BY <1>9, <2>1, <3>1 DEF Shape
    <3>3. ~Handled(r, EventTypes)'
      BY <1>4, <1>9, <3>1
    <3> QED BY <3>2, <3>3 DEF RowTrue
  <2>2. CASE Known(r)
    <3>1. Single(u, r)
      BY <1>5, <2>2, SingleBefore
    <3>2. /\ Handled(r, Writers) => subs[u].sub = r /\ subs[u].price = stripe[r].price
          /\ Handled(r, EventTypes) =>
                /\ subs[u] = [sub |-> r, price |-> stripe[r].price, status |-> stripe[r].status]
                /\ stripe[r].status = "canceled" => monthly[u] = 0
      BY <1>12, <3>1 DEF InOrder, RowTrue
    <3>3. Handled(r, Writers)' => Handled(r, Writers) /\ stripe'[r].price = stripe[r].price
      <4> SUFFICES ASSUME Handled(r, Writers)'
                   PROVE  Handled(r, Writers) /\ stripe'[r].price = stripe[r].price
        OBVIOUS
      <4>1. r = s => sub.price = stripe[s].price
        BY <1>9 DEF Shape
      <4> QED BY <1>1, <1>9, <4>1
    <3>4. Handled(r, EventTypes)' => Handled(r, EventTypes) /\ stripe'[r] = stripe[r]
      <4> SUFFICES ASSUME Handled(r, EventTypes)'
                   PROVE  Handled(r, EventTypes) /\ stripe'[r] = stripe[r]
        OBVIOUS
      <4>1. r # s
        BY <1>4, <1>9
      <4> QED BY <1>1, <1>9, <4>1
    <3> QED BY <1>1, <3>2, <3>3, <3>4 DEF RowTrue
  <2> QED BY <2>1, <2>2
<1>13. InOrder => InOrder'
  <2> SUFFICES ASSUME InOrder PROVE InOrder'
    OBVIOUS
  <2>1. Alone'
    BY <1>1 DEF InOrder, Alone
  <2> QED BY <1>11, <1>12, <2>1 DEF InOrder
<1> QED BY <1>1, <1>6, <1>10, <1>13 DEF OInv

(* Stripe's operations have that shape.                                    *)
LEMMA StripeOInv ==
    ASSUME IInv, OInv, IInv', StripeStep
    PROVE  OInv'
<1>1. ASSUME NEW u \in Users, NEW s \in Subs, NEW p \in Prices, NEW c \in Customers,
             Subscribe(u, s, p, c)
      PROVE  OInv'
  <2> DEFINE sub == [status |-> "active", price |-> p, owner |-> u, meta |-> TRUE, cus |-> c]
             types == <<"checkout.session.completed", "invoice.paid">>
  <2>1. Emit(s, sub, types) /\ ~Known(s)
    BY <1>1 DEF Subscribe, Known
  <2>2. sub \in StripeSub
    BY DEF StripeSub, Statuses
  <2>3. types \in Seq(EventTypes) /\ types # <<>>
    BY DEF EventTypes
  <2>4. Shape(s, sub, types)
    BY <2>1 DEF Shape, Writers
  <2> HIDE DEF sub, types
  <2> QED BY <2>1, <2>2, <2>3, <2>4, EmitOInv
<1>2. ASSUME NEW s \in Subs, NEW s0 \in Subs, NEW p \in Prices, DashboardSubscribe(s, p, s0)
      PROVE  OInv'
  <2> DEFINE sub == [status |-> "active", price |-> p, owner |-> stripe[s0].owner,
                     meta |-> FALSE, cus |-> stripe[s0].cus]
             types == <<"invoice.paid">>
  <2>1. Emit(s, sub, types) /\ ~Known(s) /\ Known(s0)
    BY <1>2 DEF DashboardSubscribe, Known
  <2>2. sub \in StripeSub
    BY <2>1, KnownSub DEF StripeSub, Statuses
  <2>3. types \in Seq(EventTypes) /\ types # <<>>
    BY DEF EventTypes
  <2>4. Shape(s, sub, types)
    BY <2>1 DEF Shape, Writers
  <2> HIDE DEF sub, types
  <2> QED BY <2>1, <2>2, <2>3, <2>4, EmitOInv
<1>3. ASSUME NEW s \in Subs, Renew(s) PROVE OInv'
  <2> DEFINE types == <<"invoice.paid">>
  <2>1. Emit(s, stripe[s], types) /\ Known(s) /\ stripe[s].status = "active" /\ stripe[s] \in StripeSub
    BY <1>3, KnownSub DEF Renew, Known
  <2>2. types \in Seq(EventTypes) /\ types # <<>>
    BY DEF EventTypes
  <2>3. Shape(s, stripe[s], types)
    BY <2>1 DEF Shape, Writers
  <2> HIDE DEF types
  <2> QED BY <2>1, <2>2, <2>3, EmitOInv
<1>4. ASSUME NEW s \in Subs, NEW p \in Prices, ChangePrice(s, p) PROVE OInv'
  <2> DEFINE sub == [stripe[s] EXCEPT !.price = p]
             types == <<"customer.subscription.updated", "invoice.paid">>
  <2>1. Emit(s, sub, types) /\ Known(s) /\ stripe[s].status = "active"
    BY <1>4 DEF ChangePrice, Known
  <2>2. /\ sub \in StripeSub /\ sub.owner = stripe[s].owner /\ sub.cus = stripe[s].cus
        /\ sub.status = "active"
    BY <2>1, KnownSub DEF StripeSub
  <2>3. types \in Seq(EventTypes) /\ types # <<>>
    BY DEF EventTypes
  <2> HIDE DEF sub
  <2>4. Shape(s, sub, types)
    BY <2>1, <2>2 DEF Shape, Writers
  <2> HIDE DEF types
  <2> QED BY <2>1, <2>2, <2>3, <2>4, EmitOInv
<1>5. ASSUME NEW s \in Subs, Known(s), NEW status \in Statuses,
             NEW types \in Seq(EventTypes), types # <<>>,
             Emit(s, [stripe[s] EXCEPT !.status = status], types),
             \A i \in DOMAIN types : types[i] = "customer.subscription.deleted" <=> status = "canceled",
             \A i \in DOMAIN types :
                types[i] \in {"checkout.session.completed", "invoice.payment_failed"} =>
                    \E j \in DOMAIN types : i < j /\ types[j] \in Writers
      PROVE  OInv'
  <2> DEFINE sub == [stripe[s] EXCEPT !.status = status]
  <2>1. /\ sub \in StripeSub /\ sub.owner = stripe[s].owner /\ sub.cus = stripe[s].cus
        /\ sub.status = status /\ sub.price = stripe[s].price /\ Emit(s, sub, types)
    BY <1>5, KnownSub DEF StripeSub
  <2> HIDE DEF sub
  <2>2. Shape(s, sub, types)
    BY <1>5, <2>1 DEF Shape
  <2> QED BY <1>5, <2>1, <2>2, EmitOInv
<1>6. ASSUME NEW s \in Subs, PaymentFails(s) PROVE OInv'
  <2> DEFINE types == <<"invoice.payment_failed", "customer.subscription.updated">>
  <2>1. Known(s) /\ Emit(s, [stripe[s] EXCEPT !.status = "past_due"], types)
    BY <1>6 DEF PaymentFails, Known
  <2>2. /\ types \in Seq(EventTypes) /\ types # <<>> /\ "past_due" \in Statuses
        /\ \A i \in DOMAIN types : types[i] = "customer.subscription.deleted" <=> "past_due" = "canceled"
        /\ \A i \in DOMAIN types :
              types[i] \in {"checkout.session.completed", "invoice.payment_failed"} =>
                  \E j \in DOMAIN types : i < j /\ types[j] \in Writers
    BY DEF EventTypes, Statuses, Writers
  <2> HIDE DEF types
  <2> QED BY <1>5, <2>1, <2>2
<1>7. ASSUME NEW s \in Subs, Recover(s) PROVE OInv'
  <2> DEFINE types == <<"invoice.paid", "customer.subscription.updated">>
  <2>1. Known(s) /\ Emit(s, [stripe[s] EXCEPT !.status = "active"], types)
    BY <1>7 DEF Recover, Known
  <2>2. /\ types \in Seq(EventTypes) /\ types # <<>> /\ "active" \in Statuses
        /\ \A i \in DOMAIN types : types[i] = "customer.subscription.deleted" <=> "active" = "canceled"
        /\ \A i \in DOMAIN types :
              types[i] \in {"checkout.session.completed", "invoice.payment_failed"} =>
                  \E j \in DOMAIN types : i < j /\ types[j] \in Writers
    BY DEF EventTypes, Statuses
  <2> HIDE DEF types
  <2> QED BY <1>5, <2>1, <2>2
<1>8. ASSUME NEW s \in Subs, Cancel(s) PROVE OInv'
  <2> DEFINE types == <<"customer.subscription.deleted">>
  <2>1. Known(s) /\ Emit(s, [stripe[s] EXCEPT !.status = "canceled"], types)
    BY <1>8 DEF Cancel, Known
  <2>2. /\ types \in Seq(EventTypes) /\ types # <<>> /\ "canceled" \in Statuses
        /\ \A i \in DOMAIN types : types[i] = "customer.subscription.deleted" <=> "canceled" = "canceled"
        /\ \A i \in DOMAIN types :
              types[i] \in {"checkout.session.completed", "invoice.payment_failed"} =>
                  \E j \in DOMAIN types : i < j /\ types[j] \in Writers
    BY DEF EventTypes, Statuses
  <2> HIDE DEF types
  <2> QED BY <1>5, <2>1, <2>2
<1> QED BY <1>1, <1>2, <1>3, <1>4, <1>6, <1>7, <1>8 DEF StripeStep

-----------------------------------------------------------------------------
(* In order: deliveries                                                    *)

(* What only Stripe changes.                                               *)
LEMMA SameStripe ==
    ASSUME UNCHANGED stripeVars
    PROVE  /\ Told => Told'
           /\ \A e, T : Later(e, T)' <=> Later(e, T)
           /\ \A u, s : Single(u, s)' <=> Single(u, s)
<1>1. evs' = evs /\ stripe' = stripe
  BY DEF stripeVars
<1>2. \A e, T : Later(e, T)' <=> Later(e, T)
  BY <1>1 DEF Later
<1>3. \A u, s : Single(u, s)' <=> Single(u, s)
  BY <1>1 DEF Single, OnlySubscription, AlwaysListed
<1>4. Told => Told'
  BY <1>1 DEF Told, ToldOK, DeletedLast, PriceLast, StatusLast, WriterFollows, InvoiceCame,
             Invoiced, Known, Later
<1> QED BY <1>2, <1>3, <1>4

(* Fewer events are processed and no table has changed.                    *)
LEMMA ShrunkRows ==
    ASSUME OInv, UNCHANGED stripeVars, processed' \subseteq processed, subs' = subs,
           monthly' = monthly, NEW u \in Users, NEW s \in Subs
    PROVE  RowThere(u, s)' /\ (InOrder => RowTrue(u, s)')
<1>1. evs' = evs /\ stripe' = stripe /\ (Single(u, s)' <=> Single(u, s))
  BY SameStripe DEF stripeVars
<1>2. RowThere(u, s)'
  BY <1>1 DEF OInv, RowThere
<1>3. \A T : Handled(s, T)' => Handled(s, T)
  BY <1>1 DEF Handled
<1>4. InOrder => RowTrue(u, s)'
  BY <1>1, <1>3 DEF InOrder, RowTrue
<1> QED BY <1>2, <1>4

(* A transaction that the step left alone.                                 *)
LEMMA SameTxTrue ==
    ASSUME UNCHANGED stripeVars, NEW e, tx'[e] = tx[e], TxTrue(e)
    PROVE  TxTrue(e)'
<1>1. evs' = evs /\ stripe' = stripe
  BY DEF stripeVars
<1> QED BY <1>1 DEF TxTrue, Later, Single, OnlySubscription, AlwaysListed

(* What the handlers make of the newest event of a user's only             *)
(* subscription, when everything before it has been processed.             *)
LEMMA NewestTx ==
    ASSUME IInv, OInv, NEW e \in DOMAIN evs, NEW t \in Effects(evs[e]),
           Single(stripe[evs[e].sub].owner, evs[e].sub), processed = 1 .. (e - 1)
    PROVE  /\ evs[e].type = "invoice.paid" =>
                 /\ t.row.price = stripe[evs[e].sub].price
                 /\ t.row.status = stripe[evs[e].sub].status
           /\ evs[e].type = "customer.subscription.updated" =>
                 t.row = [sub |-> evs[e].sub, price |-> evs[e].price, status |-> evs[e].status]
           /\ evs[e].type = "customer.subscription.deleted" =>
                 t.row = NULL /\ t.ends /\ t.credits = 0
<1> DEFINE s == evs[e].sub
           u == stripe[s].owner
           found == SubscriptionByStripeID(s)
<1>1. s \in Subs /\ Known(s) /\ u \in Users /\ e \in Nat
  BY EventKnown DEF EventIds
<1>2. AlwaysListed(s) /\ evs[e].price \in Listed
  BY DEF Single, AlwaysListed
<1>3. ASSUME evs[e].type \notin {"checkout.session.completed", "invoice.paid"}
      PROVE  found # {}
  <2>1. PICK d \in DOMAIN evs : d < e /\ evs[d].sub = s /\ evs[d].type = "invoice.paid"
    BY <1>3 DEF OInv, Told, ToldOK, InvoiceCame
  <2>2. d \in EventIds
    BY EventKnown
  <2>3. d \in processed
    BY <1>1, <2>1, <2>2 DEF EventIds
  <2>4. subs[u].sub = s
    BY <1>1, <2>1, <2>3 DEF OInv, RowThere
  <2> QED BY <1>1, <2>4 DEF SubscriptionByStripeID
<1>4. ASSUME evs[e].type = "invoice.paid"
      PROVE  t.row.price = stripe[s].price /\ t.row.status = stripe[s].status
  <2>1. t \in InvoicePaid(evs[e])
    BY <1>4 DEF Effects
  <2>2. stripe[s].price \in Listed
    BY <1>1, <1>2 DEF IInv, PriceTold, AlwaysListed
  <2> DEFINE row == [sub |-> s, price |-> stripe[s].price, status |-> stripe[s].status]
             credits == PlanCredits[stripe[s].price]
  <2>3. PICK v \in ResolveUserID(s) : t = [Nothing EXCEPT !.user = v, !.row = row, !.credits = credits]
    BY <2>1, <2>2 DEF InvoicePaid
  <2>4. row.price = stripe[s].price /\ row.status = stripe[s].status
    OBVIOUS
  <2> HIDE DEF row, credits
  <2>5. t.row = row
    BY <2>3 DEF Nothing
  <2> QED BY <2>4, <2>5
<1>5. ASSUME evs[e].type = "customer.subscription.updated"
      PROVE  t.row = [sub |-> s, price |-> evs[e].price, status |-> evs[e].status]
  <2>1. t \in SubscriptionUpdated(evs[e])
    BY <1>5 DEF Effects
  <2> DEFINE row == [sub |-> s, price |-> evs[e].price, status |-> evs[e].status]
  <2>2. PICK v \in found : t = [Nothing EXCEPT !.user = v, !.row = row]
    BY <1>2, <1>3, <1>5, <2>1 DEF SubscriptionUpdated
  <2> HIDE DEF row
  <2>3. t.row = row
    BY <2>2 DEF Nothing
  <2> QED BY <2>3 DEF row
<1>6. ASSUME evs[e].type = "customer.subscription.deleted"
      PROVE  t.row = NULL /\ t.ends /\ t.credits = 0
  <2>1. t \in SubscriptionDeleted(evs[e])
    BY <1>6 DEF Effects
  <2> DEFINE ended == found # {}
  <2>2. PICK v \in found : t = [Nothing EXCEPT !.user = v, !.ends = ended, !.credits = 0]
    BY <1>3, <1>6, <2>1 DEF SubscriptionDeleted
  <2>3. ended
    BY <1>3, <1>6
  <2> HIDE DEF ended
  <2> QED BY <2>2, <2>3 DEF Nothing
<1> QED BY <1>4, <1>5, <1>6

(* A handler in order reads the last word that Stripe has told so far.     *)
LEMMA ReceiveOInv ==
    ASSUME IInv, OInv, NEW e \in EventIds, Receive(e)
    PROVE  OInv'
<1>1. /\ UNCHANGED stripeVars /\ processed' = processed /\ subs' = subs /\ monthly' = monthly
      /\ inOrder' = (inOrder /\ processed = 1 .. (e - 1) /\ \A d \in EventIds : tx[d] = Closed)
  BY DEF Receive, Deliver, ledgerVars
<1>2. e \in DOMAIN evs
  BY DEF Receive, Deliver
<1>3. PICK t \in Effects(evs[e]) : tx' = [tx EXCEPT ![e] = t]
  BY DEF Receive, Deliver
<1>4. evs' = evs /\ stripe' = stripe /\ tx \in [EventIds -> Tx \cup {Closed}]
  BY <1>1 DEF stripeVars, IInv, TypeInv
<1>5. Told'
  BY <1>1, SameStripe DEF OInv
<1>6. \A u \in Users, s \in Subs : RowThere(u, s)' /\ (InOrder => RowTrue(u, s)')
  BY <1>1, ShrunkRows
<1>7. inOrder' => InOrder'
  <2> SUFFICES ASSUME inOrder' PROVE InOrder'
    OBVIOUS
  <2>1. inOrder /\ processed = 1 .. (e - 1) /\ \A d \in EventIds : tx[d] = Closed
    BY <1>1
  <2>2. InOrder
    BY <2>1 DEF OInv
  <2>3. tx'[e] = t /\ \A d \in EventIds \ {e} : ~tx'[d].open
    BY <1>3, <1>4, <2>1 DEF Closed
  <2>4. Alone'
    <3>1. \A d \in processed' : d < e
      BY <1>1, <2>1 DEF EventIds
    <3> QED BY <2>3, <3>1 DEF Alone
  <2>5. TxTrue(e)'
    <3> SUFFICES ASSUME Single(stripe[evs[e].sub].owner, evs[e].sub)'
                 PROVE  TxTrue(e)'
      BY <1>4 DEF TxTrue
    <3>1. Single(stripe[evs[e].sub].owner, evs[e].sub)
      BY <1>4 DEF Single, OnlySubscription, AlwaysListed
    <3>2. /\ evs[e].type = "invoice.paid" =>
                /\ t.row.price = stripe[evs[e].sub].price
                /\ t.row.status = stripe[evs[e].sub].status
          /\ evs[e].type = "customer.subscription.updated" =>
                t.row = [sub |-> evs[e].sub, price |-> evs[e].price, status |-> evs[e].status]
          /\ evs[e].type = "customer.subscription.deleted" =>
                t.row = NULL /\ t.ends /\ t.credits = 0
      BY <1>2, <2>1, <3>1, NewestTx
    <3> QED BY <1>4, <2>3, <3>2 DEF TxTrue
  <2>6. \A d \in EventIds : TxTrue(d)'
    BY <2>3, <2>5 DEF TxTrue
  <2> QED BY <1>6, <2>2, <2>4, <2>6 DEF InOrder
<1> QED BY <1>5, <1>6, <1>7 DEF OInv

(* A rollback leaves the rows as they were.                                *)
LEMMA AbortOInv ==
    ASSUME IInv, OInv, NEW e \in EventIds, Abort(e)
    PROVE  OInv'
<1>1. /\ UNCHANGED stripeVars /\ processed' = processed /\ subs' = subs /\ monthly' = monthly
      /\ inOrder' = inOrder /\ tx' = [tx EXCEPT ![e] = Closed]
  BY DEF Abort, ledgerVars
<1>2. ~tx'[e].open /\ \A d \in EventIds \ {e} : tx'[d] = tx[d]
  BY <1>1 DEF IInv, TypeInv, Closed
<1>3. Told'
  BY <1>1, SameStripe DEF OInv
<1>4. \A u \in Users, s \in Subs : RowThere(u, s)' /\ (InOrder => RowTrue(u, s)')
  BY <1>1, ShrunkRows
<1>5. InOrder => InOrder'
  <2> SUFFICES ASSUME InOrder PROVE InOrder'
    OBVIOUS
  <2>1. Alone'
    BY <1>1, <1>2 DEF InOrder, Alone
  <2>2. TxTrue(e)'
    BY <1>2 DEF TxTrue
  <2>3. \A d \in EventIds \ {e} : TxTrue(d)'
    BY <1>1, <1>2, SameTxTrue DEF InOrder
  <2> QED BY <1>4, <2>1, <2>2, <2>3 DEF InOrder
<1> QED BY <1>1, <1>3, <1>4, <1>5 DEF OInv

(* A replay, or nothing at all.                                            *)
LEMMA ShrinkOInv ==
    ASSUME IInv, OInv, UNCHANGED stripeVars, processed' \subseteq processed,
           UNCHANGED <<subs, monthly, inOrder, tx>>
    PROVE  OInv'
<1>1. Told'
  BY SameStripe DEF OInv
<1>2. \A u \in Users, s \in Subs : RowThere(u, s)' /\ (InOrder => RowTrue(u, s)')
  BY ShrunkRows
<1>3. InOrder => InOrder'
  <2> SUFFICES ASSUME InOrder PROVE InOrder'
    OBVIOUS
  <2>1. Alone'
    BY DEF InOrder, Alone
  <2>2. \A d \in EventIds : TxTrue(d)'
    BY SameTxTrue DEF InOrder
  <2> QED BY <1>2, <2>1, <2>2 DEF InOrder
<1> QED BY <1>1, <1>2, <1>3 DEF OInv

(* The balance of a user whom the transaction does not concern.            *)
LEMMA OthersMonthly ==
    ASSUME IInv, NEW e \in EventIds, tx[e].open, WriteCredits(e), NEW u \in Users,
           u # stripe[evs[e].sub].owner
    PROVE  monthly'[u] = monthly[u]
<1>1. tx[e].credits # NULL => tx[e].user # u
  BY OpenTx DEF EffectOK
<1>2. monthly \in [Users -> Int]
  BY DEF IInv, TypeInv, Ledger!TypeOK
<1> QED BY <1>1, <1>2 DEF WriteCredits, ledgerVars, Ledger!ResetMonthly, Ledger!Post, GrantedAlready

(* A deletion leaves its user no monthly credits.                          *)
LEMMA DeletedMonthly ==
    ASSUME IInv, NEW e \in EventIds, tx[e].open, WriteCredits(e), tx[e].credits = 0
    PROVE  monthly'[stripe[evs[e].sub].owner] = 0
<1> DEFINE u == stripe[evs[e].sub].owner
<1>1. u \in Users /\ 0 # NULL
  BY OpenTx, NullAssumption
<1>2. tx[e].user = u
  BY <1>1, OpenTx DEF EffectOK
<1>3. monthly \in [Users -> Int] /\ monthly[u] \in Int
  BY <1>1 DEF IInv, TypeInv, Ledger!TypeOK
<1> HIDE DEF u
<1>4. ASSUME Ledger!ResetMonthly(u, 0, EventKey(e)) PROVE monthly'[u] = 0
  BY <1>1, <1>3, <1>4 DEF Ledger!ResetMonthly, Ledger!Post
<1>5. ASSUME GrantedAlready(u, 0, EventKey(e)) PROVE monthly'[u] = 0
  BY <1>1, <1>3, <1>5 DEF GrantedAlready
<1> QED BY <1>1, <1>2, <1>4, <1>5 DEF WriteCredits, u

(* The row of a user of another subscription.                              *)
LEMMA OthersRow ==
    ASSUME IInv, NEW e \in EventIds, tx[e].open, WriteSubscription(e), NEW u \in Users,
           u # stripe[evs[e].sub].owner
    PROVE  subs'[u] = subs[u]
<1>1. /\ tx[e].row # NULL => tx[e].user # u
      /\ evs[e].sub \in Subs /\ subs \in [Users -> SubscriptionRow \cup {NoSub}]
  BY OpenTx DEF EffectOK, IInv, TypeInv
<1>2. subs[u].sub # evs[e].sub
  BY <1>1, NullAssumption DEF IInv, UserOK
<1>3. CASE tx[e].row # NULL
  BY <1>1, <1>3 DEF WriteSubscription
<1>4. CASE tx[e].row = NULL /\ tx[e].ends
  BY <1>2, <1>4 DEF WriteSubscription, SetStatus
<1>5. CASE tx[e].row = NULL /\ ~tx[e].ends /\ evs[e].type = "invoice.payment_failed"
  BY <1>2, <1>5 DEF WriteSubscription, SetStatus
<1>6. CASE tx[e].row = NULL /\ ~tx[e].ends /\ evs[e].type # "invoice.payment_failed"
  BY <1>6 DEF WriteSubscription
<1> QED BY <1>3, <1>4, <1>5, <1>6

(* The row of a user after the newest event of his only subscription.      *)
LEMMA CompleteRow ==
    ASSUME IInv, OInv, InOrder, NEW e \in EventIds, Complete(e),
           Single(stripe[evs[e].sub].owner, evs[e].sub)
    PROVE  RowTrue(stripe[evs[e].sub].owner, evs[e].sub)'
<1> DEFINE s == evs[e].sub
           u == stripe[s].owner
           t == tx[e]
<1>1. /\ t.open /\ WriteSubscription(e) /\ WriteCredits(e) /\ processed' = processed \cup {e}
      /\ evs' = evs /\ stripe' = stripe /\ UNCHANGED stripeVars
  BY DEF Complete, stripeVars
<1>2. /\ e \in DOMAIN evs /\ t \in Tx /\ EffectOK(e, t) /\ s \in Subs /\ Known(s) /\ u \in Users
      /\ evs[e].type \in EventTypes /\ evs[e].status \in Statuses
  BY <1>1, OpenTx, EventKnown DEF StripeEvent
<1>3. \A d \in DOMAIN evs : d \in Nat
  BY EventKnown DEF EventIds
<1>4. ASSUME NEW T, Handled(s, T)' PROVE ~Later(e, T)
  <2>1. \A d \in processed : d < e
    BY <1>1 DEF InOrder, Alone
  <2> QED BY <1>1, <1>2, <1>3, <1>4, <2>1 DEF Handled, Later
<1>5. ToldOK(e) /\ TxTrue(e) /\ RowTrue(u, s)
  BY <1>2 DEF OInv, Told, InOrder
<1>6. Handled(s, EventTypes)' => Handled(s, Writers)'
  BY DEF Handled, EventTypes, Writers
<1>7. subs \in [Users -> SubscriptionRow \cup {NoSub}] /\ stripe[s] \in StripeSub
  BY <1>2, KnownSub DEF IInv, TypeInv
<1>8. CASE evs[e].type \in {"checkout.session.completed", "invoice.payment_failed"}
  <2>1. ~Handled(s, Writers)' /\ ~Handled(s, EventTypes)'
    BY <1>4, <1>5, <1>6, <1>8 DEF ToldOK, WriterFollows
  <2> QED BY <1>1, <2>1 DEF RowTrue
<1>9. CASE evs[e].type \in Writers
  <2>1. AlwaysListed(s)
    BY DEF Single
  <2>2. t.row # NULL /\ t.user = u
    <3>1. CASE evs[e].type = "invoice.paid"
      BY <1>2, <2>1, <3>1 DEF EffectOK
    <3>2. CASE evs[e].type = "customer.subscription.updated"
      <4>1. t.row = [sub |-> s, price |-> evs[e].price, status |-> evs[e].status]
        BY <1>1, <1>5, <3>2 DEF TxTrue
      <4>2. t.row \in SubscriptionRow
        BY <1>2, <2>1, <4>1 DEF SubscriptionRow, AlwaysListed
      <4> QED BY <1>2, <4>2, NullAssumption DEF EffectOK
    <3> QED BY <1>9, <3>1, <3>2 DEF Writers
  <2>3. subs'[u] = t.row /\ t.row.sub = s /\ t.row \in SubscriptionRow
    BY <1>1, <1>2, <1>7, <2>2 DEF WriteSubscription, EffectOK, Tx
  <2>4. ~Later(e, Writers) => t.row.price = stripe[s].price
    BY <1>1, <1>5, <1>9 DEF TxTrue, ToldOK, PriceLast, Writers
  <2>5. ~Later(e, EventTypes) => t.row.status = stripe[s].status
    BY <1>1, <1>5, <1>9 DEF TxTrue, ToldOK, StatusLast, Writers
  <2>6. ~Later(e, EventTypes) => stripe[s].status # "canceled"
    BY <1>5, <1>9 DEF ToldOK, StatusLast, Writers
  <2>7. t.row = [sub |-> t.row.sub, price |-> t.row.price, status |-> t.row.status]
    BY <2>3 DEF SubscriptionRow
  <2>8. Handled(s, Writers)' => subs'[u].sub = s /\ subs'[u].price = stripe[s].price
    BY <1>4, <2>3, <2>4
  <2>9. Handled(s, EventTypes)' =>
          /\ subs'[u] = [sub |-> s, price |-> stripe[s].price, status |-> stripe[s].status]
          /\ stripe[s].status # "canceled"
    BY <1>4, <1>6, <2>3, <2>4, <2>5, <2>6, <2>7
  <2> QED BY <1>1, <2>8, <2>9 DEF RowTrue
<1>10. CASE evs[e].type = "customer.subscription.deleted"
  <2>1. t.row = NULL /\ t.ends /\ t.credits = 0
    BY <1>1, <1>5, <1>10 DEF TxTrue
  <2>2. SetStatus(s, "canceled")
    BY <1>1, <2>1 DEF WriteSubscription
  <2>3. monthly'[u] = 0
    BY <1>1, <2>1, DeletedMonthly
  <2>4. ASSUME Handled(s, Writers)'
        PROVE  /\ subs[u].sub = s /\ subs[u].price = stripe[s].price
               /\ subs'[u] = [sub |-> s, price |-> stripe[s].price, status |-> "canceled"]
    <3>1. Handled(s, Writers)
      BY <1>1, <1>10, <2>4 DEF Handled, Writers
    <3>2. subs[u].sub = s /\ subs[u].price = stripe[s].price
      BY <1>5, <3>1 DEF RowTrue
    <3>3. subs[u] \in SubscriptionRow
      BY <1>2, <1>7, <3>2, NullAssumption DEF NoSub
    <3>4. subs'[u] = [subs[u] EXCEPT !.status = "canceled"]
      BY <1>2, <2>2, <3>2 DEF SetStatus
    <3>5. subs'[u] = [sub |-> subs[u].sub, price |-> subs[u].price, status |-> "canceled"]
      BY <3>3, <3>4 DEF SubscriptionRow
    <3> QED BY <3>2, <3>5
  <2>5. ~Later(e, EventTypes) => stripe[s].status = "canceled"
    BY <1>5, <1>10 DEF ToldOK, DeletedLast, StatusLast
  <2>6. Handled(s, Writers)' => subs'[u].sub = s /\ subs'[u].price = stripe[s].price
    BY <2>4
  <2>7. Handled(s, EventTypes)' =>
          subs'[u] = [sub |-> s, price |-> stripe[s].price, status |-> stripe[s].status]
    BY <1>4, <1>6, <2>4, <2>5
  <2> QED BY <1>1, <2>3, <2>6, <2>7 DEF RowTrue
<1> QED BY <1>2, <1>8, <1>9, <1>10 DEF EventTypes, Writers

(* A commit in order brings the row to what its event told.                *)
LEMMA CompleteOInv ==
    ASSUME IInv, OInv, NEW e \in EventIds, Complete(e)
    PROVE  OInv'
<1> DEFINE s == evs[e].sub
           o == stripe[s].owner
<1>1. /\ tx[e].open /\ WriteSubscription(e) /\ WriteCredits(e) /\ processed' = processed \cup {e}
      /\ tx' = [tx EXCEPT ![e] = Closed] /\ inOrder' = inOrder
      /\ evs' = evs /\ stripe' = stripe /\ UNCHANGED stripeVars
  BY DEF Complete, stripeVars
<1>2. e \in DOMAIN evs /\ EffectOK(e, tx[e]) /\ s \in Subs /\ o \in Users
  BY <1>1, OpenTx
<1>3. ~tx'[e].open /\ \A d \in EventIds \ {e} : tx'[d] = tx[d]
  BY <1>1 DEF IInv, TypeInv, Closed
<1>4. Told' /\ \A u, r : Single(u, r)' <=> Single(u, r)
  BY <1>1, SameStripe DEF OInv
<1>5. ASSUME NEW u \in Users, NEW r \in Subs PROVE RowThere(u, r)'
  <2> SUFFICES ASSUME Single(u, r),
                      NEW d \in processed', evs[d].sub = r, evs[d].type = "invoice.paid"
               PROVE  subs'[u].sub = r
    BY <1>1, <1>4 DEF RowThere
  <2>1. CASE d \in processed
    <3>1. subs[u].sub = r
      BY <2>1 DEF OInv, RowThere
    <3>2. u = o => r = s
      BY <1>2 DEF Single, OnlySubscription
    <3> QED BY <1>1, <3>1, <3>2, SubsKept
  <2>2. CASE d = e
    <3>1. r = s /\ u = o /\ AlwaysListed(s)
      BY <2>2 DEF Single, OnlySubscription
    <3>2. tx[e].row # NULL /\ tx[e].user = u /\ tx[e].row.sub = s
      BY <1>2, <2>2, <3>1 DEF EffectOK
    <3>3. subs' = [subs EXCEPT ![u] = tx[e].row] /\ subs \in [Users -> SubscriptionRow \cup {NoSub}]
      BY <1>1, <3>2 DEF WriteSubscription, IInv, TypeInv
    <3> QED BY <3>1, <3>2, <3>3
  <2> QED BY <1>1, <2>1, <2>2
<1>6. ASSUME InOrder, NEW u \in Users, NEW r \in Subs PROVE RowTrue(u, r)'
  <2> SUFFICES ASSUME Single(u, r) PROVE RowTrue(u, r)'
    BY <1>4 DEF RowTrue
  <2>1. CASE r = s
    <3>1. u = o
      BY <2>1 DEF Single, OnlySubscription
    <3>2. RowTrue(stripe[evs[e].sub].owner, evs[e].sub)'
      BY <1>6, <2>1, <3>1, CompleteRow
    <3> QED BY <1>1, <2>1, <3>1, <3>2 DEF RowTrue, Single, OnlySubscription, AlwaysListed, Handled
  <2>2. CASE r # s
    <3>1. u # o
      BY <1>2, <2>2 DEF Single, OnlySubscription
    <3>2. subs'[u] = subs[u] /\ monthly'[u] = monthly[u]
      BY <1>1, <3>1, OthersRow, OthersMonthly
    <3>3. \A T : Handled(r, T)' => Handled(r, T)
      BY <1>1, <2>2 DEF Handled
    <3>4. RowTrue(u, r)
      BY <1>6 DEF InOrder
    <3> QED BY <1>1, <1>4, <3>2, <3>3, <3>4 DEF RowTrue
  <2> QED BY <2>1, <2>2
<1>7. ASSUME InOrder PROVE InOrder'
  <2>1. \A d \in EventIds : ~tx'[d].open
    BY <1>1, <1>3, <1>7 DEF InOrder, Alone
  <2>2. Alone' /\ \A d \in EventIds : TxTrue(d)'
    BY <2>1 DEF Alone, TxTrue
  <2> QED BY <1>6, <1>7, <2>2 DEF InOrder
<1> QED BY <1>1, <1>4, <1>5, <1>7 DEF OInv

(* Before the first event there is no row to compare.                      *)
LEMMA InitOInv == Init => OInv
<1> SUFFICES ASSUME Init PROVE OInv
  OBVIOUS
<1>1. /\ stripe = [s \in Subs |-> NoStripeSub] /\ evs = <<>> /\ processed = {}
      /\ tx = [e \in EventIds |-> Closed]
  BY DEF Init
<1>2. \A s \in Subs : ~Known(s) /\ stripe[s].status = "none"
  BY <1>1 DEF Known, NoStripeSub
<1>3. Told /\ \A u \in Users, s \in Subs : RowThere(u, s) /\ RowTrue(u, s)
  BY <1>1, <1>2 DEF Told, Invoiced, RowThere, RowTrue, Single, OnlySubscription
<1>4. Alone /\ \A e \in EventIds : TxTrue(e)
  BY <1>1 DEF Alone, TxTrue, Closed
<1> QED BY <1>3, <1>4 DEF OInv, InOrder

(* OInv is inductive, given IInv.                                          *)
LEMMA NextOInv == IInv /\ IInv' /\ OInv /\ [Next]_vars => OInv'
<1> SUFFICES ASSUME IInv, IInv', OInv, [Next]_vars PROVE OInv'
  OBVIOUS
<1>1. CASE StripeStep
  BY <1>1, StripeOInv
<1>2. ASSUME NEW e \in EventIds, Replay(e) PROVE OInv'
  BY <1>2, ShrinkOInv DEF Replay, ledgerVars
<1>3. ASSUME NEW e \in EventIds, Receive(e) \/ Complete(e) \/ Abort(e)
      PROVE  OInv'
  BY <1>3, ReceiveOInv, CompleteOInv, AbortOInv
<1>4. CASE UNCHANGED vars
  BY <1>4, ShrinkOInv DEF vars, ledgerVars
<1> QED BY <1>1, <1>2, <1>3, <1>4 DEF Next

(* While Stripe delivers in order, a subscription's row follows it through *)
(* every retry, aborted transaction, replay and change at Stripe           *)
(* (events.go, invariant 3): once all events are processed, the row of a   *)
(* user with one subscription says what Stripe says.                       *)
THEOREM RowFollowsStripe == Spec => []InOrderRowMatchesStripe
<1>1. Init => OInv
  BY InitOInv
<1>2. IInv /\ IInv' /\ OInv /\ [Next]_vars => OInv'
  BY NextOInv
<1>3. OInv => InOrderRowMatchesStripe
  <2> SUFFICES ASSUME OInv, inOrder, Settled, NEW u \in Users, NEW s \in Subs,
                      OnlySubscription(u, s), AlwaysListed(s)
               PROVE  /\ subs[u] = [sub |-> s, price |-> stripe[s].price, status |-> stripe[s].status]
                      /\ stripe[s].status = "canceled" => monthly[u] = 0
    BY DEF InOrderRowMatchesStripe, SettledRowMatchesStripe, SettledCreditsEnd
  <2>1. Handled(s, EventTypes)
    BY DEF Settled, Handled
  <2>2. RowTrue(u, s)
    BY DEF OInv, InOrder
  <2> QED BY <2>1, <2>2 DEF RowTrue, Single
<1> QED BY <1>1, <1>2, <1>3, StripeInvariant, PTL DEF Spec

-----------------------------------------------------------------------------
(* Each event grants once                                                  *)

(* Whose transaction is open is not processed, so the one that commits is  *)
(* the only one of its event. A grant in the journal is that of a          *)
(* processed event, unless an operator has deleted the event's record.     *)
Once ==
    \A e \in EventIds :
        /\ tx[e].open => e \notin processed
        /\ Ledger!ExtTypeTaken(EventKey(e), "subscription_grant") => e \in processed \/ OpsReplays

(* What a delivery may add to the journal.                                 *)
LEMMA OnlyThisKey ==
    ASSUME IInv, NEW e \in EventIds, tx[e].open, WriteCredits(e), NEW d \in EventIds, d # e,
           Ledger!ExtTypeTaken(EventKey(d), "subscription_grant")'
    PROVE  Ledger!ExtTypeTaken(EventKey(d), "subscription_grant")
<1> DEFINE u == tx[e].user
           n == tx[e].credits
<1>1. CASE txs' = txs
  BY <1>1 DEF Ledger!ExtTypeTaken
<1>2. CASE n # NULL /\ Ledger!ResetMonthly(u, n, EventKey(e))
  <2>1. u \in Users /\ n \in Nat
    BY <1>2, OpenTx DEF EffectOK, Tx
  <2> HIDE DEF u, n
  <2>2. PICK v \in Users : \E i \in DOMAIN txs'[v] :
          txs'[v][i].type = "subscription_grant" /\ txs'[v][i].externalID = EventKey(d)
    BY DEF Ledger!ExtTypeTaken
  <2>3. PICK i \in DOMAIN txs'[v] :
          txs'[v][i].type = "subscription_grant" /\ txs'[v][i].externalID = EventKey(d)
    BY <2>2
  <2>4. txs'[v][i] # GrantRow(u, n, e)
    BY <2>3 DEF GrantRow, EventKey
  <2>5. i \in DOMAIN txs[v] /\ txs'[v][i] = txs[v][i]
    BY <1>2, <2>1, <2>4, GrantGrows DEF IInv, TypeInv
  <2> QED BY <2>3, <2>5 DEF Ledger!ExtTypeTaken
<1> QED BY <1>1, <1>2 DEF WriteCredits, GrantedAlready, ledgerVars

(* Stripe's own steps.                                                     *)
LEMMA EmitsKeep ==
    ASSUME StripeStep
    PROVE  UNCHANGED <<ledgerVars, processed, tx, dialect>>
BY DEF StripeStep, Subscribe, DashboardSubscribe, Renew, ChangePrice, PaymentFails, Recover,
       Cancel, Emit

(* Once is inductive, given IInv.                                          *)
LEMMA NextOnce ==
    ASSUME IInv, Once, [Next]_vars
    PROVE  Once'
<1>1. CASE UNCHANGED <<txs, processed, tx>>
  BY <1>1 DEF Once, Ledger!ExtTypeTaken
<1>2. tx \in [EventIds -> Tx \cup {Closed}] /\ ~Closed.open
  BY DEF IInv, TypeInv, Closed
<1>3. ASSUME NEW e \in EventIds, Receive(e) PROVE Once'
  <2>1. txs' = txs /\ processed' = processed /\ e \notin processed
    BY <1>3 DEF Receive, Deliver, ledgerVars
  <2>2. \A d \in EventIds \ {e} : tx'[d] = tx[d]
    BY <1>2, <1>3 DEF Receive, Deliver
  <2> QED BY <2>1, <2>2 DEF Once, Ledger!ExtTypeTaken
<1>4. ASSUME NEW e \in EventIds, Abort(e) PROVE Once'
  <2>1. txs' = txs /\ processed' = processed
    BY <1>4 DEF Abort, ledgerVars
  <2>2. ~tx'[e].open /\ \A d \in EventIds \ {e} : tx'[d] = tx[d]
    BY <1>2, <1>4 DEF Abort
  <2> QED BY <2>1, <2>2 DEF Once, Ledger!ExtTypeTaken
<1>5. ASSUME NEW e \in EventIds, Complete(e) PROVE Once'
  <2>1. tx[e].open /\ WriteCredits(e) /\ processed' = processed \cup {e}
    BY <1>5 DEF Complete
  <2>2. ~tx'[e].open /\ \A d \in EventIds \ {e} : tx'[d] = tx[d]
    BY <1>2, <1>5 DEF Complete
  <2>3. \A d \in EventIds : tx'[d].open => d \notin processed'
    BY <2>1, <2>2 DEF Once
  <2>4. ASSUME NEW d \in EventIds, Ledger!ExtTypeTaken(EventKey(d), "subscription_grant")'
        PROVE  d \in processed' \/ OpsReplays
    BY <2>1, <2>4, OnlyThisKey DEF Once
  <2> QED BY <2>3, <2>4 DEF Once
<1>6. ASSUME NEW e \in EventIds, Replay(e) PROVE Once'
  <2>1. txs' = txs /\ tx' = tx /\ processed' = processed \ {e} /\ OpsReplays
    BY <1>6 DEF Replay, ledgerVars
  <2> QED BY <2>1 DEF Once
<1>7. CASE StripeStep \/ UNCHANGED vars
  BY <1>1, <1>7, EmitsKeep DEF ledgerVars, vars
<1> QED BY <1>3, <1>4, <1>5, <1>6, <1>7 DEF Next

(* Initially nothing is open and nothing is granted.                       *)
LEMMA InitOnce == Init => Once
<1> SUFFICES ASSUME Init PROVE Once
  OBVIOUS
<1>1. (\A e \in EventIds : ~tx[e].open) /\ \A u \in Users : txs[u] = <<>>
  BY DEF Init, Closed, Ledger!Init
<1> QED BY <1>1 DEF Once, Ledger!ExtTypeTaken

(* A delivery that writes credits grants what its event pays for, to the   *)
(* owner of its subscription, for the first time or by a replay on SQLite. *)
LEMMA CompleteGrants ==
    ASSUME IInv, Once, NEW e \in EventIds, Complete(e), NEW u \in Users,
           monthly'[u] # monthly[u] \/ txs'[u] # txs[u]
    PROVE  /\ e \in processed' \ processed /\ stripe[evs[e].sub].owner = u
           /\ monthly'[u] \in PaidFor(e)
           /\ FirstGrant(u, e) \/ GrantAgain(u, e)
<1> DEFINE w == tx[e].user
           n == tx[e].credits
           key == EventKey(e)
<1>1. tx[e].open /\ WriteCredits(e) /\ processed' = processed \cup {e}
  BY DEF Complete
<1>2. e \in processed' \ processed
  BY <1>1 DEF Once
<1>3. /\ n # NULL
      /\ Ledger!ResetMonthly(w, n, key) \/ GrantedAlready(w, n, key)
  BY <1>1 DEF WriteCredits, ledgerVars
<1>4. /\ w = stripe[evs[e].sub].owner /\ w \in Users /\ n \in PaidFor(e) /\ n \in Nat
      /\ e \in DOMAIN evs
  BY <1>1, <1>3, OpenTx DEF EffectOK, Tx
<1>5. /\ Ledger!TypeOK /\ monthly \in [Users -> Int]
      /\ txs \in [Users -> Seq(Ledger!CreditTransaction)]
  BY DEF IInv, TypeInv, Ledger!TypeOK
<1>6. Recorded(e) <=> Ledger!ExtTypeTaken(key, "subscription_grant")
  <2>1. \A v \in Users : \A i \in DOMAIN txs[v] : txs[v][i].type = "subscription_grant"
    BY DEF IInv, GrantsOK, GrantOK
  <2> QED BY <2>1 DEF Recorded, Ledger!ExtTypeTaken
<1> HIDE DEF w, n
<1>7. CASE Ledger!ResetMonthly(w, n, key)
  <2> DEFINE row == GrantRow(w, n, e)
  <2>1. /\ ~Recorded(e)
        /\ monthly' = [monthly EXCEPT ![w] = @ + (n - monthly[w])]
        /\ txs' = [txs EXCEPT ![w] = Append(@, row)]
    BY <1>6, <1>7 DEF Ledger!ResetMonthly, Ledger!Post, GrantRow
  <2>2. u = w
    BY <1>5, <2>1
  <2>3. monthly'[u] = n /\ monthly[u] \in Int
    BY <1>4, <1>5, <2>1, <2>2
  <2>4. /\ row.type = "subscription_grant" /\ row.externalID = key /\ row.addonDelta = 0
        /\ row.monthlyDelta = monthly'[u] - monthly[u] /\ row.monthlyAfter = monthly'[u]
    <3>1. row.monthlyDelta = n - monthly[u] /\ row.monthlyAfter = monthly[u] + (n - monthly[u])
      BY <2>2 DEF GrantRow
    <3>2. monthly[u] + (n - monthly[u]) = n
      BY <1>4, <2>3
    <3> QED BY <2>3, <3>1, <3>2 DEF GrantRow
  <2> HIDE DEF row
  <2>5. txs'[u] = Append(txs[u], row) /\ txs[u] \in Seq(Ledger!CreditTransaction)
    BY <1>5, <2>1, <2>2
  <2>6. /\ Len(txs'[u]) = Len(txs[u]) + 1 /\ txs'[u][Len(txs'[u])] = row
        /\ \A i \in DOMAIN txs[u] : txs'[u][i] = txs[u][i]
    BY <2>5
  <2>7. FirstGrant(u, e)
    BY <2>1, <2>4, <2>6 DEF FirstGrant
  <2> QED BY <1>2, <1>4, <2>2, <2>3, <2>7
<1>8. CASE GrantedAlready(w, n, key)
  <2>1. /\ dialect = "sqlite" /\ Recorded(e) /\ txs' = txs
        /\ monthly' = [monthly EXCEPT ![w] = n]
    BY <1>6, <1>8 DEF GrantedAlready
  <2>2. OpsReplays
    BY <1>2, <1>6, <2>1 DEF Once
  <2>3. u = w /\ monthly'[u] = n
    BY <1>4, <1>5, <2>1
  <2> QED BY <1>2, <1>4, <2>1, <2>2, <2>3 DEF GrantAgain
<1> QED BY <1>3, <1>7, <1>8

(* EachEventGrantsOnce: what changes a user's monthly credits or journal   *)
(* is the one committed delivery of a paid invoice of his own subscription *)
(* at a plan's amount, or of its deletion, through any order of events and *)
(* deliveries, overlapping transactions, aborts and replays (events.go,    *)
(* invariants 1 and 2).                                                    *)
THEOREM EventsGrantOnce == Spec => EachEventGrantsOnce
<1>1. ASSUME IInv, Once, [Next]_vars PROVE [GrantStep]_vars
  <2>1. CASE UNCHANGED ledgerVars
    BY <2>1 DEF GrantStep, ledgerVars
  <2>2. ASSUME NEW e \in EventIds, Complete(e) PROVE GrantStep
    BY <1>1, <2>2, CompleteGrants DEF GrantStep
  <2>3. ASSUME NEW e \in EventIds, Receive(e) \/ Abort(e) \/ Replay(e)
        PROVE  UNCHANGED ledgerVars
    BY <2>3 DEF Receive, Abort, Replay
  <2>4. CASE StripeStep \/ UNCHANGED vars
    BY <2>1, <2>4, EmitsKeep DEF vars
  <2> QED BY <1>1, <2>1, <2>2, <2>3, <2>4 DEF Next
<1>2. IInv /\ Once /\ [Next]_vars => Once'
  BY NextOnce
<1> QED BY <1>1, <1>2, InitOnce, StripeInvariant, PTL DEF Spec, EachEventGrantsOnce

-----------------------------------------------------------------------------
(* The books                                                               *)
(*                                                                         *)
(* On Postgres, or while no operator replays an event, a delivery changes  *)
(* the ledger by its own operations only. A replay on SQLite keeps the     *)
(* balance of the UPDATE without a row (GrantedAlready).                   *)
NoReplayOnSQLite == dialect = "postgres" \/ ~OpsReplays

(* What a delivery may do to the ledger.                                   *)
LEMMA CreditsAreGranted ==
    ASSUME IInv, NoReplayOnSQLite, Once,
           NEW e \in EventIds, tx[e].open, WriteCredits(e)
    PROVE  \/ UNCHANGED ledgerVars
           \/ \E u \in Users, p \in Listed : Ledger!ResetMonthly(u, PlanCredits[p], EventKey(e))
           \/ \E u \in Users : Ledger!ResetMonthly(u, 0, EventKey(e))
<1> DEFINE u == tx[e].user
           n == tx[e].credits
<1> SUFFICES ASSUME n # NULL
             PROVE  \/ \E v \in Users, p \in Listed : Ledger!ResetMonthly(v, PlanCredits[p], EventKey(e))
                    \/ \E v \in Users : Ledger!ResetMonthly(v, 0, EventKey(e))
  BY DEF WriteCredits
<1>1. e \in DOMAIN evs /\ EffectOK(e, tx[e]) /\ stripe[evs[e].sub].owner \in Users
  BY OpenTx
<1>2. u \in Users /\ (n = 0 \/ \E p \in Listed : n = PlanCredits[p])
  BY <1>1, PaidForAmounts DEF EffectOK
<1>3. ~GrantedAlready(u, n, EventKey(e))
  BY DEF GrantedAlready, NoReplayOnSQLite, Once
<1>4. Ledger!ResetMonthly(u, n, EventKey(e))
  BY <1>3 DEF WriteCredits
<1> QED BY <1>2, <1>4

(* The database never changes.                                             *)
LEMMA SameDialect == [Next]_vars => dialect' = dialect
BY EmitsKeep DEF Next, vars, Receive, Complete, Abort, Replay

(* A step of the webhook is a step of the ledger or leaves it alone.       *)
LEMMA StepIsLedgerStep ==
    ASSUME IInv, NoReplayOnSQLite, Once, [Next]_vars
    PROVE  [Ledger!Next]_(Ledger!vars)
<1> SUFFICES Ledger!Next \/ UNCHANGED ledgerVars
  BY DEF ledgerVars, Ledger!vars
<1>1. ASSUME NEW e \in EventIds, Complete(e) PROVE Ledger!Next \/ UNCHANGED ledgerVars
  <2>1. tx[e].open /\ WriteCredits(e)
    BY <1>1 DEF Complete
  <2>2. ASSUME NEW u \in Users,
               NEW n \in {PlanCredits[p] : p \in DOMAIN PlanCredits} \cup {0},
               Ledger!ResetMonthly(u, n, EventKey(e))
        PROVE  Ledger!Next
    BY <2>2 DEF Ledger!Next
  <2> QED BY <2>1, <2>2, CreditsAreGranted DEF Listed
<1>2. ASSUME NEW e \in EventIds, Receive(e) \/ Abort(e) \/ Replay(e)
      PROVE  UNCHANGED ledgerVars
  BY <1>2 DEF Receive, Abort, Replay
<1>3. CASE StripeStep \/ UNCHANGED vars
  BY <1>3, EmitsKeep DEF vars
<1> QED BY <1>1, <1>2, <1>3 DEF Next

(* Deliveries in any order, overlapping, aborted and retried, change the   *)
(* ledger by its own operations, one at a time, unless an operator replays *)
(* an event on SQLite.                                                     *)
THEOREM WebhookUsesTheLedger == Spec /\ NoReplayOnSQLite => Ledger!Spec
<1>1. Init => Ledger!Init
  BY DEF Init
<1>2. Init => Once
  BY InitOnce
<1>3. IInv /\ NoReplayOnSQLite /\ Once /\ [Next]_vars =>
        NoReplayOnSQLite' /\ Once' /\ [Ledger!Next]_(Ledger!vars)
  BY NextOnce, SameDialect, StepIsLedgerStep DEF NoReplayOnSQLite
<1> QED BY <1>1, <1>2, <1>3, StripeInvariant, PTL DEF Spec, Ledger!Spec

(* What is proved of the ledger.                                           *)
Books == INSTANCE CreditLedgerProofs WITH
    Events <- {EventKey(e) : e \in EventIds},
    PlanAmounts <- {PlanCredits[p] : p \in DOMAIN PlanCredits} \cup {0}

(* The assumptions of CreditLedger.                                        *)
LEMMA LedgerConstants ==
    /\ Costs \subseteq Nat \ {0} /\ GrantAmounts \subseteq Nat
    /\ {PlanCredits[p] : p \in DOMAIN PlanCredits} \cup {0} \subseteq Nat
    /\ MaxRows \in Nat /\ NULL \notin Gens /\ NULL \notin {EventKey(e) : e \in EventIds}
BY LedgerAssumption, PlansAssumption DEF Listed, EventKey, EventIds

(* Books and Ledger are the same specification under two names.            *)
LEMMA SameLedgerSpec == Ledger!Spec => Books!Spec
BY DEF Ledger!Spec, Books!Spec, Ledger!Init, Books!Init, Ledger!Next, Books!Next,
       Ledger!vars, Books!vars, Ledger!Spend, Books!Spend, Ledger!Refund, Books!Refund,
       Ledger!RefundRow, Books!RefundRow, Ledger!Grant, Books!Grant,
       Ledger!ResetMonthly, Books!ResetMonthly,
       Ledger!GrantSignupBonus, Books!GrantSignupBonus, Ledger!Post, Books!Post,
       Ledger!CanAfford, Books!CanAfford, Ledger!MonthlyShare, Books!MonthlyShare,
       Ledger!GenTypeTaken, Books!GenTypeTaken, Ledger!ExtTypeTaken, Books!ExtTypeTaken,
       Ledger!IsTx, Books!IsTx, Ledger!SignupKey, Books!SignupKey

(* So the books balance, nothing is overdrawn and no event grants twice.   *)
THEOREM WebhookKeepsTheBooks ==
    Spec /\ NoReplayOnSQLite =>
        [](Ledger!Reconciles /\ Ledger!NoOverdraft /\ Ledger!KeysUnique)
<1>1. Books!Spec => [](Books!Reconciles /\ Books!NoOverdraft /\ Books!KeysUnique)
  BY Books!BooksBalance, Books!NeverOverdrawn, Books!EachKeyPostedOnce, LedgerConstants, PTL
<1>2. Books!Reconciles /\ Books!NoOverdraft /\ Books!KeysUnique =>
      Ledger!Reconciles /\ Ledger!NoOverdraft /\ Ledger!KeysUnique
  BY DEF Books!Reconciles, Ledger!Reconciles, Books!SnapshotsChain, Ledger!SnapshotsChain,
         Books!AccountIsLastSnapshot, Ledger!AccountIsLastSnapshot,
         Books!MonthlyBefore, Ledger!MonthlyBefore, Books!AddonBefore, Ledger!AddonBefore,
         Books!NoOverdraft, Ledger!NoOverdraft, Books!KeysUnique, Ledger!KeysUnique
<1> QED BY <1>1, <1>2, SameLedgerSpec, WebhookUsesTheLedger, PTL
=============================================================================
