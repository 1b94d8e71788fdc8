-------------------------- MODULE GenerationProofs --------------------------
(***************************************************************************)
(* What generations cost, for any users, generations, costs, faults and    *)
(* any number of crashes: proofs about GenerationLifecycle.                *)
(*                                                                         *)
(* The argument is about one generation at a time: its row, its handler,   *)
(* its answer, what the sweep wants of it and what the ledger holds of it. *)
(* A step concerns one generation; Untouched deals with all the others.    *)
(***************************************************************************)
EXTENDS GenerationLifecycle, TLAPS

(* The invariant: the types, one named for each table and variable.        *)
RowType == [status : {"none", "processing", "succeeded", "failed"},
            user : Users \cup {NULL}, creditsSpent : Nat]
LocalType == [userID : Users \cup {NULL}, spent : Nat]
ReplyType == {"none", "refused", "failed", "image"}

TypeInv ==
    /\ Ledger!TypeOK
    /\ gens \in [Gens -> RowType]
    /\ handler \in [Gens -> HandlerStates]
    /\ local \in [Gens -> LocalType]
    /\ reply \in [Gens -> ReplyType]
    /\ server \in {"down", "starting", "sweeping", "up"}
    /\ sweep \in [todo : SUBSET Gens, refunded : Gens \cup {NULL}]

(* No handler outlives its process, and the sweep is over before the       *)
(* server listens.                                                         *)
Startup ==
    /\ server # "up" => \A g \in Gens : handler[g] \notin Running
    /\ server # "sweeping" => sweep = NoSweep

(* A charge is the work of the handler of its generation, for its user.    *)
CostsOwned ==
    \A u \in Users : \A i \in DOMAIN txs[u] :
        txs[u][i].type = "generation_cost" =>
            LET g == txs[u][i].generationID
            IN  g \in Gens /\ handler[g] \notin {"none", "inserted"} /\ local[g].userID = u

(* The user was charged n for g, from both balances together.              *)
PaidBy(u, g, n) ==
    \E i \in DOMAIN txs[u] :
        /\ txs[u][i].type = "generation_cost" /\ txs[u][i].generationID = g
        /\ n = -(txs[u][i].monthlyDelta + txs[u][i].addonDelta)

(* Spend or Refund may have committed although it answered with an error.  *)
Untrue == faults \cap {"spend_ack_lost", "refund_error"} # {}

(* Its row says what its handler has done.                                 *)
RowOK(g) ==
    /\ handler[g] = "none" <=> gens[g].status = "none"
    /\ handler[g] # "none" => gens[g].user = local[g].userID /\ local[g].userID \in Users
    /\ handler[g] \in Running => gens[g].status = "processing"
    /\ handler[g] \in Running \cup {"none", "dead"} => reply[g] = "none"
    /\ gens[g].status = "succeeded" =>
          handler[g] = "over" /\ PaidBy(gens[g].user, g, gens[g].creditsSpent)
    /\ gens[g].status = "failed" =>
          handler[g] \in {"over", "dead"} /\ (~Charged(g) \/ Refunded(g) \/ Untrue)
    /\ reply[g] = "image" =>
          /\ handler[g] = "over" /\ Charged(g)
          /\ "save_error" \notin faults => gens[g].status = "succeeded"

(* What its handler knows of the ledger.                                   *)
HandlerOK(g) ==
    /\ handler[g] \in {"charged", "image", "error"} => PaidBy(local[g].userID, g, local[g].spent)
    /\ handler[g] = "refunded" => Refunded(g) \/ Untrue
    /\ handler[g] = "refused" => ~Charged(g) \/ Untrue
    /\ Refunded(g) =>
          /\ handler[g] \in {"refunded", "over", "dead"} /\ gens[g].status # "succeeded"
          /\ reply[g] = "image" => "save_error" \in faults

(* The sweep is after rows without a handler, and marks what costs nothing. *)
SweepOK(g) ==
    /\ g \in sweep.todo \/ g = sweep.refunded =>
          gens[g].status = "processing" /\ handler[g] \in {"over", "dead"}
    /\ g = sweep.refunded => g \notin sweep.todo /\ (~Charged(g) \/ Refunded(g))

GenOK(g) == RowOK(g) /\ HandlerOK(g) /\ SweepOK(g)

IInv == TypeInv /\ Startup /\ CostsOwned /\ \A g \in Gens : GenOK(g)

-----------------------------------------------------------------------------
(* What the ledger's operations do to its rows                             *)

(* No row of the ledger changes or goes.                                   *)
RowsStay ==
    \A v \in Users : \A i \in DOMAIN txs[v] : i \in DOMAIN txs'[v] /\ txs'[v][i] = txs[v][i]

(* The rows of u grew by row, and no other's changed.                      *)
Grew(u, row) ==
    /\ Ledger!TypeOK' /\ RowsStay
    /\ \A v \in Users : \A i \in DOMAIN txs'[v] :
          \/ i \in DOMAIN txs[v] /\ txs'[v][i] = txs[v][i]
          \/ v = u /\ txs'[v][i] = row
    /\ \E i \in DOMAIN txs'[u] : txs'[u][i] = row

(* The ledger holds the same of g as before.                               *)
Keeps(g) == RowsStay /\ (Charged(g)' <=> Charged(g)) /\ (Refunded(g)' <=> Refunded(g))

(* The row Post writes.                                                    *)
PostedRow(u, type, dm, da, g, e) ==
    [type |-> type, monthlyDelta |-> dm, addonDelta |-> da,
     monthlyAfter |-> monthly[u] + dm, addonAfter |-> addon[u] + da,
     generationID |-> g, externalID |-> e]

(* A Post adds its row to the journal of its user and changes no other.    *)
LEMMA PostGrows ==
    ASSUME Ledger!TypeOK, NEW u \in Users, NEW type \in Ledger!TxTypes, NEW dm \in Int, NEW da \in Int,
           NEW g \in Gens \cup {NULL}, NEW e \in Ledger!ExternalIDs \cup {NULL},
           Ledger!Post(u, type, dm, da, g, e)
    PROVE  Grew(u, PostedRow(u, type, dm, da, g, e))
<1> DEFINE row == PostedRow(u, type, dm, da, g, e)
<1>1. /\ accounts \in SUBSET Users /\ monthly \in [Users -> Int] /\ addon \in [Users -> Int]
      /\ txs \in [Users -> Seq(Ledger!CreditTransaction)]
  BY DEF Ledger!TypeOK
<1>2. /\ accounts' = accounts \cup {u}
      /\ monthly' = [monthly EXCEPT ![u] = @ + dm]
      /\ addon' = [addon EXCEPT ![u] = @ + da]
      /\ txs' = [txs EXCEPT ![u] = Append(@, row)]
  BY DEF Ledger!Post, PostedRow
<1>3. row \in Ledger!CreditTransaction
  BY <1>1 DEF Ledger!CreditTransaction, PostedRow
<1> HIDE DEF row
<1>5. Append(txs[u], row) \in Seq(Ledger!CreditTransaction)
  BY <1>1, <1>3
<1>6. Ledger!TypeOK'
  BY <1>1, <1>2, <1>5 DEF Ledger!TypeOK
<1>7. RowsStay
  BY <1>1, <1>2, <1>3 DEF RowsStay
<1>8. \A v \in Users : \A i \in DOMAIN txs'[v] :
        \/ i \in DOMAIN txs[v] /\ txs'[v][i] = txs[v][i]
        \/ v = u /\ txs'[v][i] = row
  BY <1>1, <1>2, <1>3
<1>9. \E i \in DOMAIN txs'[u] : txs'[u][i] = row
  <2>1. txs'[u] = Append(txs[u], row)
    BY <1>1, <1>2
  <2>2. Len(txs[u]) + 1 \in DOMAIN txs'[u] /\ txs'[u][Len(txs[u]) + 1] = row
    BY <1>1, <1>3, <2>1
  <2> QED BY <2>2
<1> QED BY <1>6, <1>7, <1>8, <1>9 DEF Grew, row

(* A row for another generation, or for none.                              *)
LEMMA GrewKeeps ==
    ASSUME NEW u \in Users, NEW row, Grew(u, row), NEW g,
           row.type \notin {"generation_cost", "generation_refund"} \/ row.generationID # g
    PROVE  Keeps(g)
<1>1. RowsStay
  BY DEF Grew
<1>2. Charged(g)' <=> Charged(g)
  BY DEF Grew, RowsStay, Charged, Ledger!GenTypeTaken
<1>3. Refunded(g)' <=> Refunded(g)
  BY DEF Grew, RowsStay, Refunded, Ledger!GenTypeTaken
<1> QED BY <1>1, <1>2, <1>3 DEF Keeps

(* An untouched ledger holds the same of every generation.                 *)
LEMMA SameKeeps ==
    ASSUME UNCHANGED ledgerVars, NEW g
    PROVE  Keeps(g)
BY DEF ledgerVars, Keeps, RowsStay, Charged, Refunded, Ledger!GenTypeTaken

(* Spend charges its generation and no other.                              *)
LEMMA SpendEffect ==
    ASSUME IInv, NEW u \in Users, NEW cost \in Costs, NEW g \in Gens, Ledger!Spend(u, cost, g)
    PROVE  /\ \E row : Grew(u, row) /\ row.type = "generation_cost" /\ row.generationID = g
           /\ PaidBy(u, g, cost)' /\ Charged(g)' /\ (Refunded(g)' <=> Refunded(g))
           /\ \A h \in Gens \ {g} : Keeps(h)
<1> DEFINE share == Ledger!MonthlyShare(monthly[u], cost)
<1>1. cost \in Int /\ monthly[u] \in Int
  BY AmountsAssumption DEF IInv, TypeInv, Ledger!TypeOK
<1>2. share \in Int
  BY <1>1 DEF Ledger!MonthlyShare
<1>3. Ledger!Post(u, "generation_cost", -share, share - cost, g, NULL)
  BY DEF Ledger!Spend
<1> HIDE DEF share
<1>4. -share \in Int /\ share - cost \in Int /\ cost = -((-share) + (share - cost))
  BY <1>1, <1>2
<1>5. /\ "generation_cost" \in Ledger!TxTypes /\ Ledger!TypeOK
      /\ g \in Gens \cup {NULL} /\ NULL \in Ledger!ExternalIDs \cup {NULL}
  BY DEF Ledger!TxTypes, IInv, TypeInv
<1> DEFINE posted == PostedRow(u, "generation_cost", -share, share - cost, g, NULL)
<1>6. PICK row : /\ Grew(u, row)
                 /\ row.type = "generation_cost" /\ row.generationID = g
                 /\ row.monthlyDelta = -share /\ row.addonDelta = share - cost
  <2>1. Grew(u, posted)
    BY <1>3, <1>4, <1>5, PostGrows
  <2> QED BY <2>1 DEF PostedRow
<1>7. PaidBy(u, g, cost)'
  BY <1>4, <1>6 DEF Grew, PaidBy
<1>8. Charged(g)'
  BY <1>6 DEF Grew, Charged, Ledger!GenTypeTaken
<1>9. Refunded(g)' <=> Refunded(g)
  BY <1>6 DEF Grew, RowsStay, Refunded, Ledger!GenTypeTaken
<1> QED BY <1>6, <1>7, <1>8, <1>9, GrewKeeps

(* Refund offsets its generation and charges nobody.                       *)
LEMMA RefundEffect ==
    ASSUME IInv, NEW g \in Gens, Ledger!Refund(g)
    PROVE  /\ \E u \in Users : \E row : Grew(u, row) /\ row.type = "generation_refund"
           /\ Refunded(g)' /\ RowsStay /\ (Charged(g)' <=> Charged(g))
           /\ \A h \in Gens \ {g} : Keeps(h)
<1>1. PICK u \in Users : \E i \in DOMAIN txs[u] : Ledger!RefundRow(u, i, g)
  BY DEF Ledger!Refund
<1>2. PICK i \in DOMAIN txs[u] : Ledger!RefundRow(u, i, g)
  BY <1>1
<1>3. txs[u][i].monthlyDelta \in Int /\ txs[u][i].addonDelta \in Int
  <2>1. txs[u] \in Seq(Ledger!CreditTransaction)
    BY DEF IInv, TypeInv, Ledger!TypeOK
  <2>2. txs[u][i] \in Ledger!CreditTransaction
    BY <2>1
  <2> QED BY <2>2 DEF Ledger!CreditTransaction
<1>4. /\ Ledger!Post(u, "generation_refund", -txs[u][i].monthlyDelta, -txs[u][i].addonDelta, g, NULL)
      /\ -txs[u][i].monthlyDelta \in Int /\ -txs[u][i].addonDelta \in Int
      /\ "generation_refund" \in Ledger!TxTypes /\ Ledger!TypeOK
      /\ g \in Gens \cup {NULL} /\ NULL \in Ledger!ExternalIDs \cup {NULL}
  BY <1>2, <1>3 DEF Ledger!RefundRow, Ledger!TxTypes, IInv, TypeInv
<1> DEFINE posted == PostedRow(u, "generation_refund", -txs[u][i].monthlyDelta,
                               -txs[u][i].addonDelta, g, NULL)
<1>5. PICK row : Grew(u, row) /\ row.type = "generation_refund" /\ row.generationID = g
  <2>1. Grew(u, posted)
    BY <1>4, PostGrows
  <2> QED BY <2>1 DEF PostedRow
<1>6. Refunded(g)'
  BY <1>5 DEF Grew, Refunded, Ledger!GenTypeTaken
<1>7. Charged(g)' <=> Charged(g)
  BY <1>5 DEF Grew, RowsStay, Charged, Ledger!GenTypeTaken
<1>8. RowsStay
  BY <1>5 DEF Grew
<1> QED BY <1>5, <1>6, <1>7, <1>8, GrewKeeps

(* Grants and renewals concern no generation.                              *)
LEMMA TopUpEffect ==
    ASSUME IInv, TopUp
    PROVE  /\ \E u \in Users : \E row : Grew(u, row) /\ row.type \in {"admin_grant", "subscription_grant"}
           /\ \A g \in Gens : Keeps(g)
<1>1. \E u \in Users : \E row : Grew(u, row) /\ row.type \in {"admin_grant", "subscription_grant"}
  <2>1. ASSUME NEW u \in Users, NEW m \in GrantAmounts, NEW a \in GrantAmounts, Ledger!Grant(u, m, a)
        PROVE  \E row : Grew(u, row) /\ row.type = "admin_grant"
    <3>1. /\ Ledger!Post(u, "admin_grant", m, a, NULL, NULL) /\ m \in Int /\ a \in Int
          /\ "admin_grant" \in Ledger!TxTypes /\ Ledger!TypeOK
          /\ NULL \in Gens \cup {NULL} /\ NULL \in Ledger!ExternalIDs \cup {NULL}
      BY <2>1, AmountsAssumption DEF Ledger!Grant, Ledger!TxTypes, IInv, TypeInv
    <3>2. Grew(u, PostedRow(u, "admin_grant", m, a, NULL, NULL))
      BY <3>1, PostGrows
    <3> QED BY <3>2 DEF PostedRow
  <2>2. ASSUME NEW u \in Users, NEW n \in PlanAmounts, NEW e \in Events, Ledger!ResetMonthly(u, n, e)
        PROVE  \E row : Grew(u, row) /\ row.type = "subscription_grant"
    <3>1. /\ Ledger!Post(u, "subscription_grant", n - monthly[u], 0, NULL, e)
          /\ "subscription_grant" \in Ledger!TxTypes /\ Ledger!TypeOK
          /\ NULL \in Gens \cup {NULL} /\ e \in Ledger!ExternalIDs \cup {NULL}
      BY <2>2 DEF Ledger!ResetMonthly, Ledger!TxTypes, Ledger!ExternalIDs, IInv, TypeInv
    <3>2. n - monthly[u] \in Int /\ 0 \in Int
      BY AmountsAssumption DEF IInv, TypeInv, Ledger!TypeOK
    <3>3. Grew(u, PostedRow(u, "subscription_grant", n - monthly[u], 0, NULL, e))
      BY <3>1, <3>2, PostGrows
    <3> QED BY <3>3 DEF PostedRow
  <2> QED BY <2>1, <2>2 DEF TopUp
<1> QED BY <1>1, GrewKeeps

-----------------------------------------------------------------------------
(* A generation the step is not about                                      *)

(* If the step changed nothing about g, what held of g still holds.        *)
LEMMA Untouched ==
    ASSUME NEW g \in Gens, GenOK(g), Keeps(g), faults' = faults,
           gens'[g] = gens[g], handler'[g] = handler[g], local'[g] = local[g], reply'[g] = reply[g],
           g \in sweep'.todo => g \in sweep.todo,
           g = sweep'.refunded => g = sweep.refunded
    PROVE  GenOK(g)'
<1>1. /\ Charged(g)' <=> Charged(g)
      /\ Refunded(g)' <=> Refunded(g)
      /\ RowsStay
  BY DEF Keeps
<1>2. gens[g].status = "succeeded" => PaidBy(gens[g].user, g, gens[g].creditsSpent)'
  <2>1. gens[g].status = "succeeded" => gens[g].user \in Users /\ PaidBy(gens[g].user, g, gens[g].creditsSpent)
    BY DEF GenOK, RowOK
  <2> QED BY <1>1, <2>1 DEF PaidBy, RowsStay
<1>3. handler[g] \in {"charged", "image", "error"} => PaidBy(local[g].userID, g, local[g].spent)'
  <2>1. handler[g] \in {"charged", "image", "error"} =>
          local[g].userID \in Users /\ PaidBy(local[g].userID, g, local[g].spent)
    BY DEF GenOK, RowOK, HandlerOK
  <2> QED BY <1>1, <2>1 DEF PaidBy, RowsStay
<1>4. RowOK(g)'
  BY <1>1, <1>2 DEF GenOK, RowOK, Untrue
<1>5. HandlerOK(g)'
  BY <1>1, <1>3 DEF GenOK, HandlerOK, Untrue
<1>6. SweepOK(g)'
  BY <1>1 DEF GenOK, SweepOK
<1> QED BY <1>4, <1>5, <1>6 DEF GenOK

(* The step is about g: nothing else changes but the ledger, and that      *)
(* holds the same of the others.                                           *)
About(g) ==
    /\ faults' = faults /\ sweep' = sweep /\ server' = server
    /\ \A h \in Gens \ {g} :
          /\ Keeps(h)
          /\ gens'[h] = gens[h] /\ handler'[h] = handler[h]
          /\ local'[h] = local[h] /\ reply'[h] = reply[h]

(* Handlers keep their user, and a row of charge is new only for g.        *)
LEMMA CostsKept ==
    ASSUME IInv, NEW g,
           \A h \in Gens : handler[h] \notin {"none", "inserted"} =>
               handler'[h] \notin {"none", "inserted"} /\ local'[h].userID = local[h].userID,
           \A v \in Users : \A i \in DOMAIN txs'[v] :
               \/ i \in DOMAIN txs[v] /\ txs'[v][i] = txs[v][i]
               \/ txs'[v][i].type = "generation_cost" =>
                     /\ txs'[v][i].generationID = g /\ g \in Gens
                     /\ handler'[g] \notin {"none", "inserted"} /\ local'[g].userID = v
    PROVE  CostsOwned'
BY DEF IInv, CostsOwned

(* A step of the handler of g keeps the invariant if it keeps it for g.    *)
LEMMA OneHandler ==
    ASSUME IInv, NEW g \in Gens, server = "up", About(g), TypeInv', CostsOwned', GenOK(g)'
    PROVE  IInv'
<1>1. \A h \in Gens \ {g} : GenOK(h)'
  BY Untouched DEF IInv, About
<1>2. Startup'
  BY DEF IInv, Startup, About
<1> QED BY <1>1, <1>2 DEF IInv

(* An uncharged handler has not been charged, whoever it is for.           *)
LEMMA NotYetCharged ==
    ASSUME IInv, NEW g \in Gens, handler[g] \in {"none", "inserted"}
    PROVE  ~Charged(g)
BY DEF IInv, CostsOwned, Charged, Ledger!GenTypeTaken

(* A paid handler has been charged.                                        *)
LEMMA PaidIsCharged ==
    ASSUME NEW u \in Users, NEW g, NEW n, PaidBy(u, g, n)
    PROVE  Charged(g)
BY DEF PaidBy, Charged, Ledger!GenTypeTaken

(* Handlers run while the server is up, and no sweep goes on then.         *)
LEMMA UpWhileRunning ==
    ASSUME IInv, NEW g \in Gens, handler[g] \in Running
    PROVE  server = "up" /\ sweep = NoSweep
BY DEF IInv, Startup

(* Outside a sweep no generation is being swept.                           *)
LEMMA NotSwept ==
    ASSUME sweep = NoSweep, NEW g \in Gens
    PROVE  g \notin sweep.todo /\ g # sweep.refunded
BY KeysAssumption DEF NoSweep

-----------------------------------------------------------------------------
(* The initial states                                                      *)

(* The invariant holds at the first start.                                 *)
LEMMA InitIInv == Init => IInv
<1> SUFFICES ASSUME Init PROVE IInv
  OBVIOUS
<1>1. txs = [u \in Users |-> <<>>]
  BY DEF Init, Ledger!Init
<1>2. \A u \in Users : DOMAIN txs[u] = {}
  BY <1>1
<1>3. Ledger!TypeOK
  BY DEF Init, Ledger!Init, Ledger!TypeOK
<1>4. NULL \in Users \cup {NULL} /\ NULL \in Gens \cup {NULL} /\ 0 \in Nat
  OBVIOUS
<1>5. TypeInv
  BY <1>3, <1>4 DEF Init, TypeInv, RowType, LocalType, ReplyType, NoRow, NoSweep, HandlerStates
<1>6. Startup
  BY DEF Init, Startup, Running
<1>7. CostsOwned
  BY <1>2 DEF CostsOwned
<1>8. ASSUME NEW g \in Gens
      PROVE  GenOK(g)
  <2>1. ~Charged(g) /\ ~Refunded(g)
    BY <1>2 DEF Charged, Refunded, Ledger!GenTypeTaken
  <2>2. g \notin sweep.todo /\ g # sweep.refunded
    BY NotSwept DEF Init
  <2>3. handler[g] = "none" /\ gens[g].status = "none" /\ reply[g] = "none"
    BY DEF Init, NoRow
  <2> QED BY <2>1, <2>2, <2>3 DEF GenOK, RowOK, HandlerOK, SweepOK, Running
<1> QED BY <1>5, <1>6, <1>7, <1>8 DEF IInv

-----------------------------------------------------------------------------
(* The handler's steps                                                     *)

(* A new generation has no charge yet.                                     *)
LEMMA AcceptIInv ==
    ASSUME IInv, NEW g \in Gens, NEW u \in Users, Accept(g, u)
    PROVE  IInv'
<1>1. /\ gens \in [Gens -> RowType]
      /\ handler \in [Gens -> HandlerStates]
      /\ local \in [Gens -> LocalType]
  BY DEF IInv, TypeInv
<1>2. /\ handler[g] = "none" /\ server = "up"
      /\ gens' = [gens EXCEPT ![g] = [status |-> "processing", user |-> u, creditsSpent |-> 0]]
      /\ local' = [local EXCEPT ![g].userID = u]
      /\ handler' = [handler EXCEPT ![g] = "inserted"]
      /\ UNCHANGED <<ledgerVars, reply, process>>
  BY DEF Accept, Goto
<1>3. UNCHANGED ledgerVars /\ reply' = reply /\ server' = server /\ sweep' = sweep /\ faults' = faults
  BY <1>2 DEF process
<1>4. /\ gens'[g] = [status |-> "processing", user |-> u, creditsSpent |-> 0]
      /\ local'[g].userID = u /\ handler'[g] = "inserted"
      /\ \A h \in Gens \ {g} : gens'[h] = gens[h] /\ handler'[h] = handler[h] /\ local'[h] = local[h]
  BY <1>1, <1>2 DEF LocalType
<1>5. About(g)
  BY <1>3, <1>4, SameKeeps DEF About
<1>6. TypeInv'
  <2>1. Ledger!TypeOK'
    BY <1>3 DEF IInv, TypeInv, Ledger!TypeOK, ledgerVars
  <2>2. gens' \in [Gens -> RowType]
    BY <1>1, <1>2 DEF RowType
  <2>3. handler' \in [Gens -> HandlerStates]
    BY <1>1, <1>2 DEF HandlerStates
  <2>4. local' \in [Gens -> LocalType]
    BY <1>1, <1>2 DEF LocalType
  <2> QED BY <1>3, <2>1, <2>2, <2>3, <2>4 DEF IInv, TypeInv
<1>7. CostsOwned'
  <2>1. txs' = txs
    BY <1>3 DEF ledgerVars
  <2>2. \A h \in Gens : handler[h] \notin {"none", "inserted"} =>
          handler'[h] \notin {"none", "inserted"} /\ local'[h].userID = local[h].userID
    BY <1>2, <1>4
  <2> QED BY <2>1, <2>2, CostsKept
<1>8. GenOK(g)'
  <2>1. ~Charged(g) /\ Keeps(g) /\ reply[g] = "none" /\ ~Refunded(g)
    BY <1>2, <1>3, NotYetCharged, SameKeeps DEF IInv, GenOK, RowOK, HandlerOK
  <2>2. (~Charged(g))' /\ (~Refunded(g))'
    BY <2>1 DEF Keeps
  <2>3. g \notin sweep'.todo /\ g # sweep'.refunded
    BY <1>2, <1>3, NotSwept DEF IInv, Startup
  <2> QED BY <1>3, <1>4, <2>1, <2>2, <2>3 DEF GenOK, RowOK, HandlerOK, SweepOK, Running
<1> QED BY <1>2, <1>5, <1>6, <1>7, <1>8, OneHandler

(* What is left to show of a step of a running handler besides GenOK(g)'.  *)
LEMMA MoveIInv ==
    ASSUME IInv, NEW g \in Gens, handler[g] \in Running,
           NEW h \in HandlerStates \ {"none", "inserted"}, Goto(g, h), UNCHANGED process,
           Ledger!TypeOK', \A k \in Gens \ {g} : Keeps(k),
           \A v \in Users : \A i \in DOMAIN txs'[v] :
               \/ i \in DOMAIN txs[v] /\ txs'[v][i] = txs[v][i]
               \/ txs'[v][i].type = "generation_cost" =>
                     txs'[v][i].generationID = g /\ local[g].userID = v,
           local' \in [Gens -> LocalType], local'[g].userID = local[g].userID,
           gens' \in [Gens -> RowType], reply' \in [Gens -> ReplyType],
           \A k \in Gens \ {g} : local'[k] = local[k] /\ gens'[k] = gens[k] /\ reply'[k] = reply[k],
           GenOK(g)'
    PROVE  IInv'
<1>1. handler \in [Gens -> HandlerStates]
  BY DEF IInv, TypeInv
<1>2. /\ handler' \in [Gens -> HandlerStates] /\ handler'[g] = h
      /\ \A k \in Gens \ {g} : handler'[k] = handler[k]
  BY <1>1 DEF Goto
<1>3. server' = server /\ sweep' = sweep /\ faults' = faults
  BY DEF process
<1>4. About(g)
  BY <1>2, <1>3 DEF About
<1>5. TypeInv'
  BY <1>2, <1>3 DEF IInv, TypeInv
<1>6. CostsOwned'
  <2>1. \A k \in Gens : handler[k] \notin {"none", "inserted"} =>
          handler'[k] \notin {"none", "inserted"} /\ local'[k].userID = local[k].userID
    BY <1>2
  <2>2. handler'[g] \notin {"none", "inserted"}
    BY <1>2
  <2>3. \A v \in Users : \A i \in DOMAIN txs'[v] :
          \/ i \in DOMAIN txs[v] /\ txs'[v][i] = txs[v][i]
          \/ txs'[v][i].type = "generation_cost" =>
                /\ txs'[v][i].generationID = g /\ g \in Gens
                /\ handler'[g] \notin {"none", "inserted"} /\ local'[g].userID = v
    BY <2>2
  <2> QED BY <2>1, <2>3, CostsKept
<1>7. server = "up"
  BY UpWhileRunning
<1> QED BY <1>4, <1>5, <1>6, <1>7, OneHandler

(* A running handler, before its step.                                     *)
LEMMA RunningFacts ==
    ASSUME IInv, NEW g \in Gens, handler[g] \in Running
    PROVE  /\ gens[g].status = "processing" /\ reply[g] = "none"
           /\ gens[g].user = local[g].userID /\ local[g].userID \in Users
           /\ local[g].spent \in Nat
           /\ g \notin sweep.todo /\ g # sweep.refunded
           /\ gens \in [Gens -> RowType] /\ local \in [Gens -> LocalType]
           /\ reply \in [Gens -> ReplyType] /\ handler \in [Gens -> HandlerStates]
           /\ HandlerOK(g)
<1>1. RowOK(g) /\ HandlerOK(g)
  BY DEF IInv, GenOK
<1>2. gens[g].status = "processing" /\ reply[g] = "none"
      /\ gens[g].user = local[g].userID /\ local[g].userID \in Users
  BY <1>1 DEF RowOK, Running
<1>3. g \notin sweep.todo /\ g # sweep.refunded
  BY UpWhileRunning, NotSwept
<1>4. /\ gens \in [Gens -> RowType] /\ local \in [Gens -> LocalType]
      /\ reply \in [Gens -> ReplyType] /\ handler \in [Gens -> HandlerStates]
  BY DEF IInv, TypeInv
<1>5. local[g].spent \in Nat
  BY <1>4 DEF LocalType
<1> QED BY <1>1, <1>2, <1>3, <1>4, <1>5

(* A handler that goes on running: its row and its answer are untouched.   *)
LEMMA StillRunning ==
    ASSUME IInv, NEW g \in Gens, handler[g] \in Running,
           handler'[g] \in Running, gens' = gens, reply' = reply, UNCHANGED process,
           local'[g].userID = local[g].userID
    PROVE  RowOK(g)' /\ SweepOK(g)'
<1>1. /\ gens[g].status = "processing" /\ reply[g] = "none"
      /\ gens[g].user = local[g].userID /\ local[g].userID \in Users
      /\ g \notin sweep.todo /\ g # sweep.refunded
  BY RunningFacts
<1>2. sweep' = sweep
  BY DEF process
<1> QED BY <1>1, <1>2 DEF RowOK, SweepOK, Running

(* Spend pays for the handler's own generation.                            *)
LEMMA ChargeIInv ==
    ASSUME IInv, NEW g \in Gens, Charge(g)
    PROVE  IInv'
<1>1. PICK cost \in Costs : Ledger!Spend(local[g].userID, cost, g)
                            /\ local' = [local EXCEPT ![g].spent = cost]
  BY DEF Charge
<1>2. /\ handler[g] = "inserted" /\ handler[g] \in Running
      /\ Goto(g, "charged") /\ gens' = gens /\ reply' = reply /\ UNCHANGED process
  BY DEF Charge, Running
<1>3. cost \in Nat
  BY AmountsAssumption
<1>4. /\ local[g].userID \in Users /\ gens \in [Gens -> RowType] /\ local \in [Gens -> LocalType]
      /\ reply \in [Gens -> ReplyType] /\ handler \in [Gens -> HandlerStates] /\ HandlerOK(g)
  BY <1>2, RunningFacts
<1>5. /\ local' \in [Gens -> LocalType] /\ local'[g].userID = local[g].userID
      /\ local'[g].spent = cost /\ \A k \in Gens \ {g} : local'[k] = local[k]
  BY <1>1, <1>3, <1>4 DEF LocalType
<1>6. handler'[g] = "charged"
  BY <1>2, <1>4 DEF Goto
<1>7. /\ \E row : Grew(local[g].userID, row) /\ row.type = "generation_cost" /\ row.generationID = g
      /\ PaidBy(local[g].userID, g, cost)' /\ Charged(g)' /\ (Refunded(g)' <=> Refunded(g))
      /\ \A k \in Gens \ {g} : Keeps(k)
  BY <1>1, <1>4, SpendEffect
<1>8. /\ Ledger!TypeOK'
      /\ \A v \in Users : \A i \in DOMAIN txs'[v] :
            \/ i \in DOMAIN txs[v] /\ txs'[v][i] = txs[v][i]
            \/ txs'[v][i].type = "generation_cost" =>
                  txs'[v][i].generationID = g /\ local[g].userID = v
  BY <1>7 DEF Grew
<1>9. GenOK(g)'
  <2>1. RowOK(g)' /\ SweepOK(g)'
    BY <1>2, <1>5, <1>6, StillRunning DEF Running
  <2>2. ~Refunded(g)
    BY <1>2, <1>4 DEF HandlerOK
  <2>3. (~Refunded(g))'
    BY <1>7, <2>2
  <2>4. PaidBy(local[g].userID, g, local[g].spent)'
    BY <1>5, <1>7 DEF PaidBy
  <2>5. HandlerOK(g)'
    BY <1>6, <2>3, <2>4 DEF HandlerOK
  <2> QED BY <2>1, <2>5 DEF GenOK
<1>10. "charged" \in HandlerStates \ {"none", "inserted"}
  BY DEF HandlerStates
<1> QED BY <1>2, <1>4, <1>5, <1>7, <1>8, <1>9, <1>10, MoveIInv

(* A running handler that leaves its own variables alone.                  *)
LEMMA QuietMoveIInv ==
    ASSUME IInv, NEW g \in Gens, handler[g] \in Running,
           NEW h \in Running \ {"inserted"}, Goto(g, h), UNCHANGED <<gens, local, reply, process>>,
           Ledger!TypeOK', \A k \in Gens \ {g} : Keeps(k),
           \A v \in Users : \A i \in DOMAIN txs'[v] :
               \/ i \in DOMAIN txs[v] /\ txs'[v][i] = txs[v][i]
               \/ txs'[v][i].type = "generation_cost" =>
                     txs'[v][i].generationID = g /\ local[g].userID = v,
           handler'[g] = h => HandlerOK(g)'
    PROVE  IInv'
<1>1. /\ gens \in [Gens -> RowType] /\ local \in [Gens -> LocalType]
      /\ reply \in [Gens -> ReplyType] /\ handler \in [Gens -> HandlerStates]
  BY RunningFacts
<1>2. /\ gens' = gens /\ local' = local /\ reply' = reply /\ UNCHANGED process
      /\ handler'[g] = h /\ handler'[g] \in Running
  BY <1>1 DEF Goto
<1>3. RowOK(g)' /\ SweepOK(g)'
  BY <1>2, StillRunning
<1>4. GenOK(g)'
  BY <1>2, <1>3 DEF GenOK
<1>5. h \in HandlerStates \ {"none", "inserted"}
  BY DEF HandlerStates, Running
<1>6. /\ local' \in [Gens -> LocalType] /\ local'[g].userID = local[g].userID
      /\ gens' \in [Gens -> RowType] /\ reply' \in [Gens -> ReplyType]
      /\ \A k \in Gens \ {g} : local'[k] = local[k] /\ gens'[k] = gens[k] /\ reply'[k] = reply[k]
  BY <1>1, <1>2
<1> QED BY <1>2, <1>4, <1>5, <1>6, MoveIInv

(* The ledger is untouched.                                                *)
LEMMA SameLedger ==
    ASSUME IInv, UNCHANGED ledgerVars
    PROVE  /\ Ledger!TypeOK' /\ \A g \in Gens : Keeps(g)
           /\ \A v \in Users : \A i \in DOMAIN txs'[v] : i \in DOMAIN txs[v] /\ txs'[v][i] = txs[v][i]
<1>1. Ledger!TypeOK'
  BY DEF IInv, TypeInv, Ledger!TypeOK, ledgerVars
<1>2. \A g \in Gens : Keeps(g)
  BY SameKeeps
<1>3. txs' = txs
  BY DEF ledgerVars
<1> QED BY <1>1, <1>2, <1>3

(* A refused Spend has charged nothing, unless its answer was lost.        *)
LEMMA ChargeRefusedIInv ==
    ASSUME IInv, NEW g \in Gens, ChargeRefused(g)
    PROVE  IInv'
<1>1. /\ handler[g] = "inserted" /\ handler[g] \in Running /\ Goto(g, "refused")
      /\ UNCHANGED <<gens, local, reply, process>>
      /\ "refused" \in Running \ {"inserted"}
  BY DEF ChargeRefused, Running
<1>2. HandlerOK(g) /\ ~Charged(g) /\ local[g].userID \in Users
  BY <1>1, RunningFacts, NotYetCharged
<1>3. ~Refunded(g)
  BY <1>1, <1>2 DEF HandlerOK
<1>4. CASE UNCHANGED ledgerVars
  <2>1. /\ Ledger!TypeOK' /\ \A k \in Gens : Keeps(k)
        /\ \A v \in Users : \A i \in DOMAIN txs'[v] : i \in DOMAIN txs[v] /\ txs'[v][i] = txs[v][i]
    BY <1>4, SameLedger
  <2>2. (~Charged(g))' /\ (~Refunded(g))'
    BY <1>2, <1>3, <2>1 DEF Keeps
  <2>3. handler'[g] = "refused" => HandlerOK(g)'
    BY <2>2 DEF HandlerOK
  <2> QED BY <1>1, <2>1, <2>3, QuietMoveIInv
<1>5. ASSUME "spend_ack_lost" \in faults, NEW cost \in Costs, Ledger!Spend(local[g].userID, cost, g)
      PROVE  IInv'
  <2>1. /\ \E row : Grew(local[g].userID, row) /\ row.type = "generation_cost" /\ row.generationID = g
        /\ Charged(g)' /\ (Refunded(g)' <=> Refunded(g))
        /\ \A k \in Gens \ {g} : Keeps(k)
    BY <1>2, <1>5, SpendEffect
  <2>2. /\ Ledger!TypeOK'
        /\ \A v \in Users : \A i \in DOMAIN txs'[v] :
              \/ i \in DOMAIN txs[v] /\ txs'[v][i] = txs[v][i]
              \/ txs'[v][i].type = "generation_cost" =>
                    txs'[v][i].generationID = g /\ local[g].userID = v
    BY <2>1 DEF Grew
  <2>3. (~Refunded(g))'
    BY <1>3, <2>1
  <2>4. Untrue'
    BY <1>1, <1>5 DEF Untrue, process
  <2>5. handler'[g] = "refused" => HandlerOK(g)'
    BY <2>3, <2>4 DEF HandlerOK
  <2> QED BY <1>1, <2>1, <2>2, <2>5, QuietMoveIInv
<1> QED BY <1>4, <1>5 DEF ChargeRefused

(* The upstream's answer leaves the charge alone.                          *)
LEMMA UpstreamIInv ==
    ASSUME IInv, NEW g \in Gens, Upstream(g)
    PROVE  IInv'
<1>1. PICK h \in {"image", "error"} : Goto(g, h)
  BY DEF Upstream
<1>2. /\ handler[g] = "charged" /\ handler[g] \in Running
      /\ UNCHANGED <<gens, local, reply, process>> /\ UNCHANGED ledgerVars
      /\ h \in Running \ {"inserted"}
  BY DEF Upstream, Running
<1>3. /\ Ledger!TypeOK' /\ \A k \in Gens : Keeps(k)
      /\ \A v \in Users : \A i \in DOMAIN txs'[v] : i \in DOMAIN txs[v] /\ txs'[v][i] = txs[v][i]
  BY <1>2, SameLedger
<1>4. HandlerOK(g) /\ local[g].userID \in Users
  BY <1>2, RunningFacts
<1>5. ~Refunded(g) /\ PaidBy(local[g].userID, g, local[g].spent)
  BY <1>2, <1>4 DEF HandlerOK
<1>6. (~Refunded(g))'
  BY <1>3, <1>5 DEF Keeps
<1>7. PaidBy(local[g].userID, g, local[g].spent)'
  <2>1. txs' = txs /\ local' = local
    BY <1>2 DEF ledgerVars
  <2> QED BY <1>5, <2>1 DEF PaidBy
<1>8. handler'[g] = h => HandlerOK(g)'
  BY <1>6, <1>7 DEF HandlerOK
<1> QED BY <1>1, <1>2, <1>3, <1>8, QuietMoveIInv

(* After an error there is a charge, so Refund posts or fails.             *)
LEMMA RefundFailedIInv ==
    ASSUME IInv, NEW g \in Gens, RefundFailed(g)
    PROVE  IInv'
<1>1. /\ handler[g] = "error" /\ handler[g] \in Running /\ Goto(g, "refunded")
      /\ UNCHANGED <<gens, local, reply, process>>
      /\ "refunded" \in Running \ {"inserted"}
  BY DEF RefundFailed, Running
<1>2. HandlerOK(g) /\ local[g].userID \in Users /\ gens[g].status = "processing" /\ reply[g] = "none"
  BY <1>1, RunningFacts
<1>3. Charged(g)
  <2>1. PaidBy(local[g].userID, g, local[g].spent)
    BY <1>1, <1>2 DEF HandlerOK
  <2> QED BY <1>2, <2>1, PaidIsCharged
<1>4. CASE Ledger!Refund(g)
  <2>1. /\ \E u \in Users : \E row : Grew(u, row) /\ row.type = "generation_refund"
        /\ Refunded(g)' /\ \A k \in Gens \ {g} : Keeps(k)
    BY <1>4, RefundEffect
  <2>2. /\ Ledger!TypeOK'
        /\ \A v \in Users : \A i \in DOMAIN txs'[v] :
              \/ i \in DOMAIN txs[v] /\ txs'[v][i] = txs[v][i]
              \/ txs'[v][i].type # "generation_cost"
    BY <2>1 DEF Grew
  <2>3. handler'[g] = "refunded" => HandlerOK(g)'
    BY <1>1, <1>2, <2>1 DEF HandlerOK
  <2> QED BY <1>1, <2>1, <2>2, <2>3, QuietMoveIInv
<1>5. ASSUME UNCHANGED ledgerVars, Refunded(g) \/ "refund_error" \in faults
      PROVE  IInv'
  <2>1. /\ Ledger!TypeOK' /\ \A k \in Gens : Keeps(k)
        /\ \A v \in Users : \A i \in DOMAIN txs'[v] : i \in DOMAIN txs[v] /\ txs'[v][i] = txs[v][i]
    BY <1>5, SameLedger
  <2>2. Refunded(g)' \/ Untrue'
    BY <1>1, <1>5, <2>1 DEF Keeps, Untrue, process
  <2>3. handler'[g] = "refunded" => HandlerOK(g)'
    BY <1>1, <1>2, <2>2 DEF HandlerOK
  <2> QED BY <1>1, <2>1, <2>3, QuietMoveIInv
<1> QED BY <1>3, <1>4, <1>5 DEF RefundFailed, RefundOk, RefundError

(* The last step of a handler: a failed generation costs nothing as far as *)
(* the handler was told the truth, a succeeded one what it shows.          *)
LEMMA FinishIInv ==
    ASSUME IInv, NEW g \in Gens, handler[g] \in Running,
           NEW status \in {"succeeded", "failed"}, NEW spent \in Nat, NEW told \in ReplyType,
           Finish(g, status, spent, told),
           status = "failed" => told # "image" /\ (~Charged(g) \/ Refunded(g) \/ Untrue),
           status = "succeeded" => PaidBy(local[g].userID, g, spent) /\ ~Refunded(g)
    PROVE  IInv'
<1>1. /\ Goto(g, "over") /\ reply' = [reply EXCEPT ![g] = told]
      /\ UNCHANGED ledgerVars /\ local' = local /\ UNCHANGED process
      /\ Save(g, status, spent)
  BY DEF Finish
<1>2. /\ gens[g].status = "processing" /\ gens[g].user = local[g].userID /\ local[g].userID \in Users
      /\ g \notin sweep.todo /\ g # sweep.refunded
      /\ gens \in [Gens -> RowType] /\ local \in [Gens -> LocalType]
      /\ reply \in [Gens -> ReplyType] /\ handler \in [Gens -> HandlerStates]
  BY RunningFacts
<1>3. /\ handler'[g] = "over" /\ reply'[g] = told /\ reply' \in [Gens -> ReplyType]
      /\ \A k \in Gens \ {g} : reply'[k] = reply[k]
  BY <1>1, <1>2 DEF Goto
<1>4. /\ gens' \in [Gens -> RowType] /\ \A k \in Gens \ {g} : gens'[k] = gens[k]
      /\ gens'[g].user = local[g].userID
      /\ \/ gens'[g].status = status /\ gens'[g].creditsSpent = spent
         \/ gens'[g].status = "processing" /\ "save_error" \in faults
  <2>1. CASE gens' = [gens EXCEPT ![g] = [status |-> status, user |-> local[g].userID,
                                          creditsSpent |-> spent]]
    BY <1>2, <2>1 DEF RowType
  <2>2. CASE "save_error" \in faults /\ UNCHANGED gens
    BY <1>2, <2>2
  <2> QED BY <1>1, <2>1, <2>2 DEF Save
<1>5. /\ Ledger!TypeOK' /\ \A k \in Gens : Keeps(k)
      /\ \A v \in Users : \A i \in DOMAIN txs'[v] : i \in DOMAIN txs[v] /\ txs'[v][i] = txs[v][i]
  BY <1>1, SameLedger
<1>6. /\ (Charged(g)' <=> Charged(g)) /\ (Refunded(g)' <=> Refunded(g))
      /\ (Untrue' <=> Untrue) /\ faults' = faults /\ sweep' = sweep
  BY <1>1, <1>5 DEF Keeps, Untrue, process
<1>7. gens'[g].status = "succeeded" =>
        PaidBy(gens[g].user, g, spent)' /\ gens'[g].user = gens[g].user /\ gens'[g].creditsSpent = spent
  <2>1. txs' = txs
    BY <1>1 DEF ledgerVars
  <2>2. gens'[g].status = "succeeded" => status = "succeeded" /\ gens'[g].creditsSpent = spent
    BY <1>4
  <2> QED BY <1>2, <1>4, <2>1, <2>2 DEF PaidBy
<1>8. told = "image" => Charged(g)
  BY <1>2, PaidIsCharged
<1>9. RowOK(g)'
  <2>1. gens'[g].status = "succeeded" => PaidBy(gens[g].user, g, gens[g].creditsSpent)'
    BY <1>7 DEF PaidBy
  <2>2. gens'[g].status = "failed" => ~Charged(g)' \/ Refunded(g)' \/ Untrue'
    BY <1>4, <1>6
  <2>3. reply'[g] = "image" => Charged(g)' /\ ("save_error" \notin faults' => gens'[g].status = "succeeded")
    BY <1>3, <1>4, <1>6, <1>8
  <2>4. /\ gens'[g].status # "none" /\ local'[g].userID = local[g].userID
    BY <1>1, <1>4
  <2> QED BY <1>2, <1>3, <1>4, <2>1, <2>2, <2>3, <2>4 DEF RowOK, Running
<1>10. HandlerOK(g)'
  <2>1. Refunded(g)' => gens'[g].status # "succeeded"
    BY <1>4, <1>6
  <2>2. Refunded(g)' => (reply'[g] = "image" => "save_error" \in faults')
    BY <1>3, <1>6
  <2> QED BY <1>3, <2>1, <2>2 DEF HandlerOK
<1>11. SweepOK(g)'
  BY <1>2, <1>6 DEF SweepOK
<1>12. "over" \in HandlerStates \ {"none", "inserted"} /\ local'[g].userID = local[g].userID
  BY <1>1 DEF HandlerStates
<1>13. GenOK(g)'
  BY <1>9, <1>10, <1>11 DEF GenOK
<1> QED BY <1>1, <1>2, <1>3, <1>4, <1>5, <1>12, <1>13, MoveIInv

(* The three ends of a handler.                                            *)
LEMMA MarkIInv ==
    ASSUME IInv, NEW g \in Gens, MarkRefused(g) \/ MarkFailed(g) \/ MarkSucceeded(g)
    PROVE  IInv'
<1>1. "refused" \in ReplyType /\ "failed" \in ReplyType /\ "image" \in ReplyType /\ 0 \in Nat
  BY DEF ReplyType
<1>2. CASE MarkRefused(g)
  <2>1. /\ handler[g] = "refused" /\ handler[g] \in Running /\ Finish(g, "failed", 0, "refused")
    BY <1>2 DEF MarkRefused, Running
  <2>2. ~Charged(g) \/ Untrue
    BY <2>1, RunningFacts DEF HandlerOK
  <2> QED BY <1>1, <2>1, <2>2, FinishIInv
<1>3. CASE MarkFailed(g)
  <2>1. /\ handler[g] = "refunded" /\ handler[g] \in Running /\ Finish(g, "failed", 0, "failed")
    BY <1>3 DEF MarkFailed, Running
  <2>2. Refunded(g) \/ Untrue
    BY <2>1, RunningFacts DEF HandlerOK
  <2> QED BY <1>1, <2>1, <2>2, FinishIInv
<1>4. CASE MarkSucceeded(g)
  <2>1. /\ handler[g] = "image" /\ handler[g] \in Running
        /\ Finish(g, "succeeded", local[g].spent, "image")
    BY <1>4 DEF MarkSucceeded, Running
  <2>2. /\ PaidBy(local[g].userID, g, local[g].spent) /\ ~Refunded(g) /\ local[g].spent \in Nat
    BY <2>1, RunningFacts DEF HandlerOK
  <2> QED BY <1>1, <2>1, <2>2, FinishIInv
<1> QED BY <1>2, <1>3, <1>4

-----------------------------------------------------------------------------
(* The process's steps                                                     *)

(* A step without a handler: the ledger posts no charge.                   *)
LEMMA QuietIInv ==
    ASSUME IInv, UNCHANGED <<handler, local, reply, faults>>,
           Ledger!TypeOK', gens' \in [Gens -> RowType],
           server' \in {"down", "starting", "sweeping", "up"},
           sweep' \in [todo : SUBSET Gens, refunded : Gens \cup {NULL}],
           Startup', \A g \in Gens : GenOK(g)',
           \A v \in Users : \A i \in DOMAIN txs'[v] :
               \/ i \in DOMAIN txs[v] /\ txs'[v][i] = txs[v][i]
               \/ txs'[v][i].type # "generation_cost"
    PROVE  IInv'
<1>1. TypeInv'
  BY DEF IInv, TypeInv, RowType
<1>2. CostsOwned'
  BY DEF IInv, CostsOwned
<1> QED BY <1>1, <1>2 DEF IInv

(* A crash kills the handlers and leaves the tables.                       *)
LEMMA CrashIInv ==
    ASSUME IInv, Crash
    PROVE  IInv'
<1>1. /\ server' = "down" /\ sweep' = NoSweep
      /\ handler' = [g \in Gens |-> IF handler[g] \in Running THEN "dead" ELSE handler[g]]
      /\ UNCHANGED ledgerVars /\ gens' = gens /\ local' = local /\ reply' = reply /\ faults' = faults
  BY DEF Crash
<1>2. handler \in [Gens -> HandlerStates]
  BY DEF IInv, TypeInv
<1>3. \A g \in Gens : handler'[g] = IF handler[g] \in Running THEN "dead" ELSE handler[g]
  BY <1>1
<1>4. /\ Ledger!TypeOK' /\ \A g \in Gens : Keeps(g)
      /\ \A v \in Users : \A i \in DOMAIN txs'[v] : i \in DOMAIN txs[v] /\ txs'[v][i] = txs[v][i]
  BY <1>1, SameLedger
<1>5. sweep' = NoSweep /\ NoSweep \in [todo : SUBSET Gens, refunded : Gens \cup {NULL}]
  <2>1. NULL \in Gens \cup {NULL} /\ {} \in SUBSET Gens
    OBVIOUS
  <2> QED BY <1>1, <2>1 DEF NoSweep
<1>6. TypeInv'
  <2>1. handler' \in [Gens -> HandlerStates]
    BY <1>1, <1>2 DEF HandlerStates
  <2> QED BY <1>1, <1>4, <1>5, <2>1 DEF IInv, TypeInv
<1>7. Startup'
  BY <1>1, <1>3 DEF Startup, Running
<1>8. CostsOwned'
  <2>1. \A g \in Gens : handler[g] \notin {"none", "inserted"} =>
          handler'[g] \notin {"none", "inserted"} /\ local'[g].userID = local[g].userID
    BY <1>1, <1>3
  <2> QED BY <1>4, <2>1, CostsKept
<1>9. ASSUME NEW g \in Gens
      PROVE  GenOK(g)'
  <2>1. CASE handler[g] \notin Running
    <3>1. handler'[g] = handler[g]
      BY <1>3, <2>1
    <3>2. g \notin sweep'.todo /\ g # sweep'.refunded
      BY <1>1, KeysAssumption DEF NoSweep
    <3>3. GenOK(g) /\ Keeps(g)
      BY <1>4 DEF IInv
    <3> QED BY <1>1, <3>1, <3>2, <3>3, Untouched
  <2>2. CASE handler[g] \in Running
    <3>1. /\ gens[g].status = "processing" /\ reply[g] = "none"
          /\ gens[g].user = local[g].userID /\ local[g].userID \in Users
      BY <2>2, RunningFacts
    <3>2. handler'[g] = "dead"
      BY <1>3, <2>2
    <3>3. g \notin sweep'.todo /\ g # sweep'.refunded
      BY <1>1, KeysAssumption DEF NoSweep
    <3>4. RowOK(g)'
      BY <1>1, <3>1, <3>2 DEF RowOK, Running
    <3>5. HandlerOK(g)'
      BY <1>1, <3>1, <3>2 DEF HandlerOK
    <3>6. SweepOK(g)'
      BY <3>3 DEF SweepOK
    <3> QED BY <3>4, <3>5, <3>6 DEF GenOK
  <2> QED BY <2>1, <2>2
<1> QED BY <1>6, <1>7, <1>8, <1>9 DEF IInv

(* Start and Listen move the server on, and touch nothing else.            *)
LEMMA ServerIInv ==
    ASSUME IInv, Start \/ Listen
    PROVE  IInv'
<1>1. /\ server' \in {"starting", "up"} /\ (server' = "up" => sweep = NoSweep)
      /\ server # "up" /\ (server' # "up" => sweep = NoSweep)
  BY DEF Start, Listen, IInv, Startup
<1>2. UNCHANGED ledgerVars /\ UNCHANGED <<gens, handler, local, reply, sweep, faults>>
  BY DEF Start, Listen
<1>3. /\ Ledger!TypeOK' /\ \A g \in Gens : Keeps(g)
      /\ \A v \in Users : \A i \in DOMAIN txs'[v] : i \in DOMAIN txs[v] /\ txs'[v][i] = txs[v][i]
  BY <1>2, SameLedger
<1>4. \A g \in Gens : GenOK(g)'
  BY <1>2, <1>3, Untouched DEF IInv
<1>5. Startup'
  BY <1>1, <1>2 DEF IInv, Startup
<1>6. /\ gens' \in [Gens -> RowType]
      /\ sweep' \in [todo : SUBSET Gens, refunded : Gens \cup {NULL}]
      /\ server' \in {"down", "starting", "sweeping", "up"}
  BY <1>1, <1>2 DEF IInv, TypeInv
<1> QED BY <1>2, <1>3, <1>4, <1>5, <1>6, QuietIInv

(* At a scan no handler runs, so the rows it lists have none.              *)
LEMMA ScanIInv ==
    ASSUME IInv, Scan
    PROVE  IInv'
<1> DEFINE found == [todo |-> {g \in Gens : gens[g].status = "processing"}, refunded |-> NULL]
<1>1. /\ server = "starting" /\ server' = "sweeping" /\ (sweep' = found \/ sweep' = sweep)
      /\ UNCHANGED ledgerVars /\ UNCHANGED <<gens, handler, local, reply, faults>>
  BY DEF Scan
<1>2. /\ Ledger!TypeOK' /\ \A g \in Gens : Keeps(g)
      /\ \A v \in Users : \A i \in DOMAIN txs'[v] : i \in DOMAIN txs[v] /\ txs'[v][i] = txs[v][i]
  BY <1>1, SameLedger
<1>3. ASSUME NEW g \in Gens
      PROVE  GenOK(g)'
  <2>1. GenOK(g) /\ Keeps(g) /\ handler[g] \notin Running
    BY <1>1, <1>2 DEF IInv, Startup
  <2>2. CASE sweep' = sweep
    BY <1>1, <2>1, <2>2, Untouched
  <2>3. CASE sweep' = found
    <3>1. g # sweep'.refunded /\ (g \in sweep'.todo => gens[g].status = "processing")
      BY <2>3, KeysAssumption
    <3>2. gens[g].status = "processing" => handler[g] \in {"over", "dead"}
      <4>1. handler[g] \in HandlerStates
        BY DEF IInv, TypeInv
      <4> QED BY <2>1, <4>1 DEF GenOK, RowOK, Running, HandlerStates
    <3>3. SweepOK(g)'
      BY <1>1, <3>1, <3>2 DEF SweepOK
    <3>4. txs' = txs
      BY <1>1 DEF ledgerVars
    <3>5. RowOK(g)' /\ HandlerOK(g)'
      BY <1>1, <2>1, <3>4
         DEF GenOK, RowOK, HandlerOK, Untrue, Charged, Refunded, PaidBy, Ledger!GenTypeTaken
    <3> QED BY <3>3, <3>5 DEF GenOK
  <2> QED BY <1>1, <2>2, <2>3
<1>4. Startup'
  BY <1>1 DEF IInv, Startup
<1>5. sweep' \in [todo : SUBSET Gens, refunded : Gens \cup {NULL}]
  <2>1. /\ {g \in Gens : gens[g].status = "processing"} \in SUBSET Gens
        /\ NULL \in Gens \cup {NULL}
    OBVIOUS
  <2> QED BY <1>1, <2>1 DEF IInv, TypeInv
<1>6. gens' \in [Gens -> RowType] /\ server' \in {"down", "starting", "sweeping", "up"}
  BY <1>1 DEF IInv, TypeInv
<1> QED BY <1>1, <1>2, <1>3, <1>4, <1>5, <1>6, QuietIInv

(* The sweep refunds a row nobody handles.                                 *)
LEMMA SweepRefundIInv ==
    ASSUME IInv, NEW g \in Gens, SweepRefund(g)
    PROVE  IInv'
<1>1. /\ server = "sweeping" /\ server' = server /\ g \in sweep.todo
      /\ UNCHANGED <<gens, handler, local, reply, faults>>
  BY DEF SweepRefund
<1>2. /\ RowOK(g) /\ gens[g].status = "processing" /\ handler[g] \in {"over", "dead"}
      /\ reply[g] = "image" => "save_error" \in faults /\ Charged(g)
  BY <1>1 DEF IInv, GenOK, SweepOK, RowOK
<1>3. /\ sweep'.todo = sweep.todo \ {g} /\ sweep'.refunded \in {NULL, g}
      /\ sweep' \in [todo : SUBSET Gens, refunded : Gens \cup {NULL}]
  BY DEF SweepRefund, IInv, TypeInv
<1>4. /\ Ledger!TypeOK' /\ (Charged(g)' <=> Charged(g))
      /\ sweep'.refunded = g => ~Charged(g)' \/ Refunded(g)'
      /\ \A k \in Gens \ {g} : Keeps(k)
      /\ \A v \in Users : \A i \in DOMAIN txs'[v] :
            \/ i \in DOMAIN txs[v] /\ txs'[v][i] = txs[v][i]
            \/ txs'[v][i].type # "generation_cost"
  <2>1. CASE Ledger!Refund(g)
    <3>1. /\ \E u \in Users : \E row : Grew(u, row) /\ row.type = "generation_refund"
          /\ Refunded(g)' /\ (Charged(g)' <=> Charged(g)) /\ \A k \in Gens \ {g} : Keeps(k)
      BY <2>1, RefundEffect
    <3>2. /\ Ledger!TypeOK'
          /\ \A v \in Users : \A i \in DOMAIN txs'[v] :
                \/ i \in DOMAIN txs[v] /\ txs'[v][i] = txs[v][i]
                \/ txs'[v][i].type # "generation_cost"
      BY <3>1 DEF Grew
    <3> QED BY <3>1, <3>2
  <2>2. ASSUME UNCHANGED ledgerVars, sweep'.refunded = g => ~Charged(g) \/ Refunded(g)
        PROVE  /\ Ledger!TypeOK' /\ (Charged(g)' <=> Charged(g))
               /\ sweep'.refunded = g => ~Charged(g)' \/ Refunded(g)'
               /\ \A k \in Gens \ {g} : Keeps(k)
               /\ \A v \in Users : \A i \in DOMAIN txs'[v] :
                     \/ i \in DOMAIN txs[v] /\ txs'[v][i] = txs[v][i]
                     \/ txs'[v][i].type # "generation_cost"
    <3>1. /\ Ledger!TypeOK' /\ \A k \in Gens : Keeps(k)
          /\ \A v \in Users : \A i \in DOMAIN txs'[v] : i \in DOMAIN txs[v] /\ txs'[v][i] = txs[v][i]
      BY <2>2, SameLedger
    <3>2. (Charged(g)' <=> Charged(g)) /\ (Refunded(g)' <=> Refunded(g))
      BY <3>1 DEF Keeps
    <3> QED BY <2>2, <3>1, <3>2
  <2>3. CASE RefundOk(g)
    BY <2>1, <2>2, <2>3 DEF RefundOk
  <2>4. CASE RefundError(g) /\ sweep' = [sweep EXCEPT !.todo = @ \ {g}]
    <3>1. sweep'.refunded # g
      BY <2>4, KeysAssumption DEF SweepRefund, IInv, TypeInv
    <3> QED BY <2>1, <2>2, <2>4, <3>1 DEF RefundError
  <2> QED BY <2>3, <2>4 DEF SweepRefund
<1>5. ASSUME NEW h \in Gens
      PROVE  GenOK(h)'
  <2>1. CASE h # g
    <3>1. /\ h \in sweep'.todo => h \in sweep.todo
          /\ h = sweep'.refunded => h = sweep.refunded
      BY <1>3, <2>1, KeysAssumption
    <3> QED BY <1>1, <1>4, <2>1, <3>1, Untouched DEF IInv
  <2>2. CASE h = g
    <3>1. RowOK(g)'
      BY <1>1, <1>2, <1>4 DEF RowOK
    <3>2. HandlerOK(g)'
      BY <1>1, <1>2 DEF HandlerOK
    <3>3. SweepOK(g)'
      BY <1>1, <1>2, <1>3, <1>4 DEF SweepOK
    <3> QED BY <2>2, <3>1, <3>2, <3>3 DEF GenOK
  <2> QED BY <2>1, <2>2
<1>6. Startup'
  BY <1>1 DEF IInv, Startup
<1>7. gens' \in [Gens -> RowType] /\ server' \in {"down", "starting", "sweeping", "up"}
  BY <1>1 DEF IInv, TypeInv
<1> QED BY <1>1, <1>3, <1>4, <1>5, <1>6, <1>7, QuietIInv

(* The sweep marks what costs nothing.                                     *)
LEMMA SweepMarkIInv ==
    ASSUME IInv, NEW g \in Gens, SweepMark(g)
    PROVE  IInv'
<1>1. /\ server = "sweeping" /\ server' = server /\ g = sweep.refunded
      /\ UNCHANGED ledgerVars /\ UNCHANGED <<handler, local, reply, faults>>
      /\ gens' = [gens EXCEPT ![g].status = "failed"] \/ gens' = gens
  BY DEF SweepMark
<1>2. /\ gens \in [Gens -> RowType]
      /\ sweep' \in [todo : SUBSET Gens, refunded : Gens \cup {NULL}]
      /\ sweep'.todo = sweep.todo /\ sweep'.refunded = NULL
  <2>1. NULL \in Gens \cup {NULL}
    OBVIOUS
  <2> QED BY <2>1 DEF SweepMark, IInv, TypeInv
<1>3. /\ RowOK(g) /\ HandlerOK(g) /\ gens[g].status = "processing" /\ handler[g] \in {"over", "dead"}
      /\ g \notin sweep.todo /\ (~Charged(g) \/ Refunded(g))
  BY <1>1 DEF IInv, GenOK, SweepOK
<1>4. /\ Ledger!TypeOK' /\ \A h \in Gens : Keeps(h)
      /\ \A v \in Users : \A i \in DOMAIN txs'[v] : i \in DOMAIN txs[v] /\ txs'[v][i] = txs[v][i]
  BY <1>1, SameLedger
<1>5. /\ gens' \in [Gens -> RowType] /\ \A h \in Gens \ {g} : gens'[h] = gens[h]
      /\ gens'[g].status \in {"failed", "processing"} /\ gens'[g].user = gens[g].user
  BY <1>1, <1>2, <1>3 DEF RowType
<1>6. ASSUME NEW h \in Gens
      PROVE  GenOK(h)'
  <2>1. CASE h # g
    BY <1>1, <1>2, <1>4, <1>5, <2>1, KeysAssumption, Untouched DEF IInv
  <2>2. CASE h = g
    <3>1. (Charged(g)' <=> Charged(g)) /\ (Refunded(g)' <=> Refunded(g))
      BY <1>4 DEF Keeps
    <3>2. RowOK(g)'
      BY <1>1, <1>3, <1>5, <3>1 DEF RowOK, Running
    <3>3. HandlerOK(g)'
      BY <1>1, <1>3, <1>5, <3>1 DEF HandlerOK, RowOK
    <3>4. SweepOK(g)'
      <4>1. g # sweep'.refunded /\ g \notin sweep'.todo
        BY <1>2, <1>3, KeysAssumption
      <4> QED BY <4>1 DEF SweepOK
    <3> QED BY <2>2, <3>2, <3>3, <3>4 DEF GenOK
  <2> QED BY <2>1, <2>2
<1>7. Startup'
  BY <1>1 DEF IInv, Startup
<1>8. server' \in {"down", "starting", "sweeping", "up"}
  BY <1>1 DEF IInv, TypeInv
<1> QED BY <1>1, <1>2, <1>4, <1>5, <1>6, <1>7, <1>8, QuietIInv

(* Other users of the ledger leave the generations alone.                  *)
LEMMA TopUpIInv ==
    ASSUME IInv, TopUp
    PROVE  IInv'
<1>1. UNCHANGED <<gens, handler, local, reply, server, sweep, faults>>
  BY DEF TopUp
<1>2. /\ \E u \in Users : \E row : Grew(u, row) /\ row.type \in {"admin_grant", "subscription_grant"}
      /\ \A g \in Gens : Keeps(g)
  BY TopUpEffect
<1>3. /\ Ledger!TypeOK'
      /\ \A v \in Users : \A i \in DOMAIN txs'[v] :
            \/ i \in DOMAIN txs[v] /\ txs'[v][i] = txs[v][i]
            \/ txs'[v][i].type # "generation_cost"
  BY <1>2 DEF Grew
<1>4. \A g \in Gens : GenOK(g)'
  BY <1>1, <1>2, Untouched DEF IInv
<1>5. Startup'
  BY <1>1 DEF IInv, Startup
<1>6. /\ gens' \in [Gens -> RowType] /\ server' \in {"down", "starting", "sweeping", "up"}
      /\ sweep' \in [todo : SUBSET Gens, refunded : Gens \cup {NULL}]
  BY <1>1 DEF IInv, TypeInv
<1> QED BY <1>1, <1>3, <1>4, <1>5, <1>6, QuietIInv

(* A step that changes nothing.                                            *)
LEMMA StutterIInv ==
    ASSUME IInv, UNCHANGED vars
    PROVE  IInv'
<1>1. UNCHANGED ledgerVars /\ UNCHANGED <<gens, handler, local, reply, server, sweep, faults>>
  BY DEF vars, process
<1>2. /\ Ledger!TypeOK' /\ \A g \in Gens : Keeps(g)
      /\ \A v \in Users : \A i \in DOMAIN txs'[v] : i \in DOMAIN txs[v] /\ txs'[v][i] = txs[v][i]
  BY <1>1, SameLedger
<1>3. \A g \in Gens : GenOK(g)'
  BY <1>1, <1>2, Untouched DEF IInv
<1>4. Startup'
  BY <1>1 DEF IInv, Startup
<1>5. /\ gens' \in [Gens -> RowType] /\ server' \in {"down", "starting", "sweeping", "up"}
      /\ sweep' \in [todo : SUBSET Gens, refunded : Gens \cup {NULL}]
  BY <1>1 DEF IInv, TypeInv
<1> QED BY <1>1, <1>2, <1>3, <1>4, <1>5, QuietIInv

(* Every step keeps the invariant.                                         *)
LEMMA NextIInv ==
    ASSUME IInv, [Next]_vars
    PROVE  IInv'
<1>1. ASSUME NEW g \in Gens, HandlerStep(g)
      PROVE  IInv'
  BY <1>1, ChargeIInv, ChargeRefusedIInv, UpstreamIInv, RefundFailedIInv, MarkIInv DEF HandlerStep
<1>2. ASSUME NEW g \in Gens, SweepStep(g)
      PROVE  IInv'
  BY <1>2, SweepRefundIInv, SweepMarkIInv DEF SweepStep
<1>3. ASSUME NEW g \in Gens, NEW u \in Users, Accept(g, u)
      PROVE  IInv'
  BY <1>3, AcceptIInv
<1>4. CASE Crash
  BY <1>4, CrashIInv
<1>5. CASE Start \/ Listen
  BY <1>5, ServerIInv
<1>6. CASE Scan
  BY <1>6, ScanIInv
<1>7. CASE TopUp
  BY <1>7, TopUpIInv
<1>8. CASE UNCHANGED vars
  BY <1>8, StutterIInv
<1> QED BY <1>1, <1>2, <1>3, <1>4, <1>5, <1>6, <1>7, <1>8 DEF Next

-----------------------------------------------------------------------------
(* Theorems                                                                *)

(* In every reachable state the rows, the handlers, the sweep and the      *)
(* ledger agree about every generation.                                    *)
THEOREM GenerationInvariant == Spec => []IInv
<1>1. IInv /\ [Next]_vars => IInv'
  BY NextIInv
<1> QED BY InitIInv, <1>1, PTL DEF Spec

(* Every variable keeps its type: handlers, rows, answers and the sweep.   *)
THEOREM GenerationTyped == Spec => []TypeOK
<1>1. IInv => TypeOK
  <2> SUFFICES ASSUME IInv PROVE TypeOK
    OBVIOUS
  <2>1. \A g \in Gens : gens[g] \in RowType /\ local[g] \in LocalType
    BY DEF IInv, TypeInv
  <2>2. Ledger!TypeOK
    BY DEF IInv, TypeInv
  <2> QED BY <2>1, <2>2 DEF TypeOK, IInv, TypeInv, RowType, LocalType, ReplyType
<1> QED BY GenerationInvariant, <1>1, PTL

(* A generation recorded as succeeded was paid for by its owner with what  *)
(* its row shows, and is never refunded, whatever fails or crashes.        *)
THEOREM SucceededIsPaidFor == Spec => []SucceededIsPaid
<1>1. IInv => SucceededIsPaid
  <2> SUFFICES ASSUME IInv, NEW g \in Gens, gens[g].status = "succeeded"
               PROVE  /\ ~Refunded(g)
                      /\ PaidBy(gens[g].user, g, gens[g].creditsSpent)
    BY DEF SucceededIsPaid, PaidBy
  <2> QED BY DEF IInv, GenOK, RowOK, HandlerOK
<1> QED BY GenerationInvariant, <1>1, PTL

(* The sweep of a start never touches a generation whose handler runs, and *)
(* no handler waits for an image of a refunded generation.                 *)
THEOREM SweepIsSafe == Spec => []SweepSparesRunning
<1>1. IInv => SweepSparesRunning
  BY DEF IInv, GenOK, SweepOK, HandlerOK, SweepSparesRunning, Running
<1> QED BY GenerationInvariant, <1>1, PTL

(* While the database answers truthfully, no crash and no failed statement *)
(* leaves a charge that is neither delivered, nor refunded, nor in sight   *)
(* of the next sweep.                                                      *)
THEOREM CrashesAreHarmless == Spec => []CrashesLeaveNoStrayCharge
<1>1. IInv => CrashesLeaveNoStrayCharge
  <2> SUFFICES ASSUME IInv, ~Untrue, NEW u \in Users, NEW i \in DOMAIN txs[u],
                      txs[u][i].type = "generation_cost"
               PROVE  LET g == txs[u][i].generationID
                      IN  /\ gens[g].user = u
                          /\ gens[g].status \in {"processing", "succeeded"} \/ Refunded(g)
    BY DEF CrashesLeaveNoStrayCharge, ChargesAreTraceable, Untrue
  <2> DEFINE g == txs[u][i].generationID
  <2>1. g \in Gens /\ handler[g] \notin {"none", "inserted"} /\ local[g].userID = u
    BY DEF IInv, CostsOwned
  <2>2. Charged(g)
    BY DEF Charged, Ledger!GenTypeTaken
  <2> HIDE DEF g
  <2>3. RowOK(g) /\ gens[g].status \in {"none", "processing", "succeeded", "failed"}
    <3>1. gens[g] \in RowType
      BY <2>1 DEF IInv, TypeInv, RowType
    <3> QED BY <2>1, <3>1 DEF IInv, GenOK, RowType
  <2>4. gens[g].user = u /\ (gens[g].status \in {"processing", "succeeded"} \/ Refunded(g))
    BY <2>1, <2>2, <2>3 DEF RowOK
  <2> QED BY <2>4 DEF g
<1> QED BY GenerationInvariant, <1>1, PTL

(* Who was shown an image has paid for it and keeps it, if the save of the *)
(* row did not fail.                                                       *)
THEOREM ShownImagesArePaid == Spec => []ImagesArePaid
<1>1. IInv => ImagesArePaid
  BY DEF IInv, GenOK, RowOK, HandlerOK, ImagesArePaid
<1> QED BY GenerationInvariant, <1>1, PTL

-----------------------------------------------------------------------------
(* The books                                                               *)

(* What is proved of the ledger.                                           *)
Books == INSTANCE CreditLedgerProofs

(* Whoever spends is a user.                                               *)
LEMMA SpenderIsUser ==
    ASSUME IInv, NEW g \in Gens, handler[g] = "inserted"
    PROVE  local[g].userID \in Users
BY DEF IInv, GenOK, RowOK

(* Every step is one operation of the ledger or leaves it alone.           *)
LEMMA StepIsLedgerStep ==
    ASSUME IInv, [Next]_vars
    PROVE  [Ledger!Next]_(Ledger!vars)
<1> SUFFICES Ledger!Next \/ UNCHANGED ledgerVars
  BY DEF ledgerVars, Ledger!vars
<1>1. ASSUME NEW g \in Gens, NEW cost \in Costs, handler[g] = "inserted",
             Ledger!Spend(local[g].userID, cost, g)
      PROVE  Ledger!Next
  BY <1>1, SpenderIsUser DEF Ledger!Next
<1>2. ASSUME NEW g \in Gens, RefundOk(g) \/ RefundError(g)
      PROVE  Ledger!Next \/ UNCHANGED ledgerVars
  BY <1>2 DEF RefundOk, RefundError, Ledger!Next
<1>3. ASSUME NEW g \in Gens, NEW u \in Users, Accept(g, u) PROVE UNCHANGED ledgerVars
  BY <1>3 DEF Accept
<1>4. ASSUME NEW g \in Gens, Charge(g) \/ ChargeRefused(g)
      PROVE  Ledger!Next \/ UNCHANGED ledgerVars
  BY <1>1, <1>4 DEF Charge, ChargeRefused
<1>5. ASSUME NEW g \in Gens, RefundFailed(g) \/ SweepRefund(g)
      PROVE  Ledger!Next \/ UNCHANGED ledgerVars
  BY <1>2, <1>5 DEF RefundFailed, SweepRefund
<1>6. ASSUME NEW g \in Gens,
             Upstream(g) \/ MarkRefused(g) \/ MarkFailed(g) \/ MarkSucceeded(g) \/ SweepMark(g)
      PROVE  UNCHANGED ledgerVars
  BY <1>6 DEF Upstream, MarkRefused, MarkFailed, MarkSucceeded, Finish, SweepMark
<1>7. ASSUME Crash \/ Start \/ Scan \/ Listen PROVE UNCHANGED ledgerVars
  BY <1>7 DEF Crash, Start, Scan, Listen
<1>8. ASSUME TopUp PROVE Ledger!Next
  BY <1>8 DEF TopUp, Ledger!Next
<1>9. CASE UNCHANGED vars
  BY <1>9 DEF vars
<1> QED BY <1>3, <1>4, <1>5, <1>6, <1>7, <1>8, <1>9 DEF Next, HandlerStep, SweepStep

(* Over crashes, restarts, faults and sweeps, the ledger is only ever      *)
(* changed by its own operations, one at a time.                           *)
THEOREM GenerationsUseTheLedger == Spec => Ledger!Spec
<1>1. Init => Ledger!Init
  BY DEF Init
<1>2. IInv /\ [Next]_vars => [Ledger!Next]_(Ledger!vars)
  BY StepIsLedgerStep
<1> QED BY <1>1, <1>2, GenerationInvariant, PTL DEF Spec, Ledger!Spec

(* Books and Ledger are the same specification under two names.            *)
LEMMA SameLedgerSpec == Ledger!Spec => Books!Spec
BY DEF Ledger!Spec, Books!Spec, Ledger!Init, Books!Init, Ledger!Next, Books!Next,
       Ledger!vars, Books!vars, Ledger!Spend, Books!Spend, Ledger!Refund, Books!Refund,
       Ledger!RefundRow, Books!RefundRow, Ledger!Grant, Books!Grant,
       Ledger!ResetMonthly, Books!ResetMonthly,
       Ledger!GrantSignupBonus, Books!GrantSignupBonus, Ledger!Post, Books!Post,
       Ledger!CanAfford, Books!CanAfford, Ledger!MonthlyShare, Books!MonthlyShare,
       Ledger!GenTypeTaken, Books!GenTypeTaken, Ledger!ExtTypeTaken, Books!ExtTypeTaken,
       Ledger!IsTx, Books!IsTx, Ledger!SignupKey, Books!SignupKey

(* So the books balance, nothing is overdrawn, no generation is charged or *)
(* refunded twice, and a refund pays back what was charged.                *)
THEOREM GenerationsKeepTheBooks ==
    Spec => [](Ledger!Reconciles /\ Ledger!NoOverdraft /\ Ledger!KeysUnique
               /\ Ledger!RefundsMirrorCosts)
<1>1. Books!Spec => [](Books!Reconciles /\ Books!NoOverdraft /\ Books!KeysUnique
                       /\ Books!RefundsMirrorCosts)
  BY Books!BooksBalance, Books!NeverOverdrawn, Books!EachKeyPostedOnce, Books!RefundsAreExact,
     AmountsAssumption, BoundAssumption, KeysAssumption, PTL
<1>2. Books!Reconciles /\ Books!NoOverdraft /\ Books!KeysUnique /\ Books!RefundsMirrorCosts =>
      Ledger!Reconciles /\ Ledger!NoOverdraft /\ Ledger!KeysUnique /\ Ledger!RefundsMirrorCosts
  BY DEF Books!Reconciles, Ledger!Reconciles, Books!SnapshotsChain, Ledger!SnapshotsChain,
         Books!AccountIsLastSnapshot, Ledger!AccountIsLastSnapshot,
         Books!MonthlyBefore, Ledger!MonthlyBefore, Books!AddonBefore, Ledger!AddonBefore,
         Books!NoOverdraft, Ledger!NoOverdraft, Books!KeysUnique, Ledger!KeysUnique,
         Books!RefundsMirrorCosts, Ledger!RefundsMirrorCosts
<1> QED BY <1>1, <1>2, SameLedgerSpec, GenerationsUseTheLedger, PTL

(* And its rows stay as they are, and add-on credits are spent last.       *)
THEOREM GenerationsKeepTheJournal ==
    Spec => Ledger!JournalOnlyGrows /\ Ledger!AddonSpentLast
<1>1. Books!Spec => Books!JournalOnlyGrows /\ Books!AddonSpentLast
  BY Books!JournalIsAppendOnly, Books!AddonIsSpentLast,
     AmountsAssumption, BoundAssumption, KeysAssumption, PTL
<1>2. Books!JournalOnlyGrows /\ Books!AddonSpentLast =>
      Ledger!JournalOnlyGrows /\ Ledger!AddonSpentLast
  BY DEF Books!JournalOnlyGrows, Ledger!JournalOnlyGrows, Books!JournalStep, Ledger!JournalStep,
         Books!AddonSpentLast, Ledger!AddonSpentLast, Books!AddonStep, Ledger!AddonStep,
         Books!vars, Ledger!vars
<1> QED BY <1>1, <1>2, SameLedgerSpec, GenerationsUseTheLedger, PTL
=============================================================================
