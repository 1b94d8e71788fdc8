------------------------- MODULE CreditLedgerProofs -------------------------
(***************************************************************************)
(* Proofs about CreditLedger, for every set of users, generations, events, *)
(* amounts and every bound on the journal's length.                        *)
(*                                                                         *)
(* Every operation is one Post, so the argument is: what a Post does       *)
(* (PostEffect), what each part of the invariant needs of a Post to        *)
(* survive it, and that each operation grants it.                          *)
(***************************************************************************)
EXTENDS CreditLedger, TLAPS

(* What the properties rest on besides themselves: a charge never adds to  *)
(* a balance, so that undoing it never overdraws one.                      *)
CostsAreDebits ==
    \A u \in Users : \A i \in DOMAIN txs[u] :
        txs[u][i].type = "generation_cost" =>
            /\ txs[u][i].monthlyDelta <= 0
            /\ txs[u][i].addonDelta <= 0

IInv ==
    /\ TypeOK
    /\ NoOverdraft
    /\ KeysUnique
    /\ CostsAreDebits
    /\ RefundsMirrorCosts
    /\ ChargedHaveAccounts

(* A Post, spelled out position by position instead of with Append.        *)
Posted(u, type, dm, da, g, e) ==
    /\ accounts' = accounts \cup {u}
    /\ monthly'[u] = monthly[u] + dm
    /\ addon'[u] = addon[u] + da
    /\ \A v \in Users \ {u} :
          monthly'[v] = monthly[v] /\ addon'[v] = addon[v] /\ txs'[v] = txs[v]
    /\ Len(txs'[u]) = Len(txs[u]) + 1
    /\ \A i \in 1 .. Len(txs[u]) : txs'[u][i] = txs[u][i]
    /\ txs'[u][Len(txs[u]) + 1] =
          [type |-> type, monthlyDelta |-> dm, addonDelta |-> da,
           monthlyAfter |-> monthly[u] + dm, addonAfter |-> addon[u] + da,
           generationID |-> g, externalID |-> e]

(* Appending to a journal keeps its rows and adds one after the last.      *)
LEMMA AppendAddsLast ==
    ASSUME NEW S, NEW s \in Seq(S), NEW r \in S
    PROVE  /\ Append(s, r) \in Seq(S)
           /\ Len(Append(s, r)) = Len(s) + 1
           /\ \A i \in 1 .. Len(s) : Append(s, r)[i] = s[i]
           /\ Append(s, r)[Len(s) + 1] = r
  OBVIOUS

(* A journal's positions are 1 to its length, and each holds a row.        *)
LEMMA JournalShape ==
    ASSUME TypeOK, NEW u \in Users
    PROVE  /\ Len(txs[u]) \in Nat
           /\ DOMAIN txs[u] = 1 .. Len(txs[u])
           /\ \A i \in 1 .. Len(txs[u]) : txs[u][i] \in CreditTransaction
  BY DEF TypeOK

(* A Post keeps the types and has the effect Posted describes.             *)
LEMMA PostEffect ==
    ASSUME TypeOK, NEW u \in Users, NEW type \in TxTypes,
           NEW dm \in Int, NEW da \in Int,
           NEW g \in Gens \cup {NULL}, NEW e \in ExternalIDs \cup {NULL},
           Post(u, type, dm, da, g, e)
    PROVE  TypeOK' /\ Posted(u, type, dm, da, g, e)
<1> DEFINE row == [type |-> type, monthlyDelta |-> dm, addonDelta |-> da,
                   monthlyAfter |-> monthly[u] + dm, addonAfter |-> addon[u] + da,
                   generationID |-> g, externalID |-> e]
<1>1. monthly[u] \in Int /\ addon[u] \in Int
  BY DEF TypeOK
<1>2. row \in CreditTransaction
  BY <1>1 DEF CreditTransaction
<1>3. txs[u] \in Seq(CreditTransaction)
  BY DEF TypeOK
<1> HIDE DEF row
<1>4. /\ accounts' = accounts \cup {u}
      /\ monthly' = [monthly EXCEPT ![u] = @ + dm]
      /\ addon' = [addon EXCEPT ![u] = @ + da]
      /\ txs' = [txs EXCEPT ![u] = Append(@, row)]
  BY DEF Post, row
<1>5. /\ Append(txs[u], row) \in Seq(CreditTransaction)
      /\ Len(Append(txs[u], row)) = Len(txs[u]) + 1
      /\ \A i \in 1 .. Len(txs[u]) : Append(txs[u], row)[i] = txs[u][i]
      /\ Append(txs[u], row)[Len(txs[u]) + 1] = row
  BY <1>2, <1>3, AppendAddsLast
<1>6. txs'[u] = Append(txs[u], row)
  BY <1>4 DEF TypeOK
<1>7. TypeOK'
  BY <1>1, <1>4, <1>5 DEF TypeOK
<1>8. Posted(u, type, dm, da, g, e)
  <2>1. \A v \in Users \ {u} :
          monthly'[v] = monthly[v] /\ addon'[v] = addon[v] /\ txs'[v] = txs[v]
    BY <1>4 DEF TypeOK
  <2>2. monthly'[u] = monthly[u] + dm /\ addon'[u] = addon[u] + da
    BY <1>4 DEF TypeOK
  <2>3. /\ Len(txs'[u]) = Len(txs[u]) + 1
        /\ \A i \in 1 .. Len(txs[u]) : txs'[u][i] = txs[u][i]
        /\ txs'[u][Len(txs[u]) + 1] = row
    BY <1>5, <1>6
  <2> QED
    BY <1>4, <2>1, <2>2, <2>3 DEF Posted, row
<1> QED
  BY <1>7, <1>8

-----------------------------------------------------------------------------
(* What each part of the invariant asks of a Post.                         *)

(* Balances stay non-negative when the new ones are.                       *)
LEMMA PostNoOverdraft ==
    ASSUME TypeOK, TypeOK', NoOverdraft, NEW u \in Users, NEW type, NEW dm, NEW da, NEW g, NEW e,
           Posted(u, type, dm, da, g, e),
           monthly[u] + dm >= 0, addon[u] + da >= 0
    PROVE  NoOverdraft'
<1> SUFFICES ASSUME NEW v \in Users
             PROVE  /\ monthly'[v] >= 0 /\ addon'[v] >= 0
                    /\ \A i \in DOMAIN txs'[v] :
                          txs'[v][i].monthlyAfter >= 0 /\ txs'[v][i].addonAfter >= 0
  BY DEF NoOverdraft
<1>1. CASE v # u
  BY <1>1 DEF Posted, NoOverdraft
<1>2. CASE v = u
  <2>1. monthly'[u] >= 0 /\ addon'[u] >= 0
    BY DEF Posted
  <2>2. DOMAIN txs'[u] = 1 .. (Len(txs[u]) + 1)
    BY JournalShape DEF Posted, TypeOK
  <2>3. \A i \in 1 .. Len(txs[u]) :
            txs'[u][i].monthlyAfter >= 0 /\ txs'[u][i].addonAfter >= 0
    BY JournalShape DEF Posted, NoOverdraft
  <2>4. /\ txs'[u][Len(txs[u]) + 1].monthlyAfter >= 0
        /\ txs'[u][Len(txs[u]) + 1].addonAfter >= 0
    BY DEF Posted
  <2>5. \A i \in DOMAIN txs'[u] : i \in 1 .. Len(txs[u]) \/ i = Len(txs[u]) + 1
    BY <2>2, JournalShape
  <2> QED
    BY <1>2, <2>1, <2>3, <2>4, <2>5
<1> QED
  BY <1>1, <1>2

(* A Post extends the chain of snapshots by one sound link.                *)
LEMMA PostReconciles ==
    ASSUME TypeOK, TypeOK', Reconciles, NEW u \in Users, NEW type,
           NEW dm \in Int, NEW da \in Int, NEW g, NEW e,
           Posted(u, type, dm, da, g, e)
    PROVE  Reconciles'
<1> DEFINE n == Len(txs[u])
<1>1. n \in Nat /\ DOMAIN txs[u] = 1 .. n
  BY JournalShape
<1>2. DOMAIN txs'[u] = 1 .. (n + 1) /\ Len(txs'[u]) = n + 1
  BY <1>1 DEF Posted, TypeOK
<1>3. monthly[u] = MonthlyBefore(u, n + 1) /\ addon[u] = AddonBefore(u, n + 1)
  BY DEF Reconciles, AccountIsLastSnapshot
<1>4. \A i \in 1 .. (n + 1) : /\ MonthlyBefore(u, i)' = MonthlyBefore(u, i)
                              /\ AddonBefore(u, i)' = AddonBefore(u, i)
  BY <1>1 DEF Posted, MonthlyBefore, AddonBefore
<1>5. SnapshotsChain'
  <2> SUFFICES ASSUME NEW v \in Users, NEW i \in DOMAIN txs'[v]
               PROVE  /\ txs'[v][i].monthlyAfter = MonthlyBefore(v, i)' + txs'[v][i].monthlyDelta
                      /\ txs'[v][i].addonAfter = AddonBefore(v, i)' + txs'[v][i].addonDelta
    BY DEF SnapshotsChain
  <2>1. CASE v # u
    BY <2>1 DEF Posted, Reconciles, SnapshotsChain, MonthlyBefore, AddonBefore
  <2>2. CASE v = u /\ i \in 1 .. n
    BY <2>2, <1>1, <1>4 DEF Posted, Reconciles, SnapshotsChain
  <2>3. CASE v = u /\ i = n + 1
    BY <2>3, <1>1, <1>3, <1>4 DEF Posted
  <2> QED
    BY <1>1, <1>2, <2>1, <2>2, <2>3
<1>6. AccountIsLastSnapshot'
  <2> SUFFICES ASSUME NEW v \in Users
               PROVE  /\ monthly'[v] = MonthlyBefore(v, Len(txs[v]) + 1)'
                      /\ addon'[v] = AddonBefore(v, Len(txs[v]) + 1)'
    BY DEF AccountIsLastSnapshot
  <2>1. CASE v # u
    BY <2>1 DEF Posted, Reconciles, AccountIsLastSnapshot, MonthlyBefore, AddonBefore
  <2>2. CASE v = u
    <3>1. /\ MonthlyBefore(u, Len(txs[u]) + 1)' = txs'[u][n + 1].monthlyAfter
          /\ AddonBefore(u, Len(txs[u]) + 1)' = txs'[u][n + 1].addonAfter
      BY <1>1, <1>2 DEF MonthlyBefore, AddonBefore
    <3> QED
      BY <2>2, <3>1 DEF Posted
  <2> QED
    BY <2>1, <2>2
<1> QED
  BY <1>5, <1>6 DEF Reconciles

(* Keys stay unique when the new row's keys are NULL or not taken.         *)
LEMMA PostKeysUnique ==
    ASSUME TypeOK, TypeOK', KeysUnique, NEW u \in Users, NEW type, NEW dm, NEW da, NEW g, NEW e,
           Posted(u, type, dm, da, g, e),
           g = NULL \/ ~GenTypeTaken(g, type),
           e = NULL \/ ~ExtTypeTaken(e, type)
    PROVE  KeysUnique'
<1> DEFINE n == Len(txs[u])
           Clash(r, s) == /\ r.type = s.type
                          /\ \/ r.generationID = s.generationID /\ r.generationID # NULL
                             \/ r.externalID = s.externalID /\ r.externalID # NULL
<1>1. n \in Nat /\ DOMAIN txs[u] = 1 .. n /\ DOMAIN txs'[u] = 1 .. (n + 1)
  BY JournalShape DEF Posted, TypeOK
<1>2. \A v \in Users : \A i \in DOMAIN txs'[v] :
          \/ v = u /\ i = n + 1
          \/ i \in DOMAIN txs[v] /\ txs'[v][i] = txs[v][i]
  BY <1>1 DEF Posted
<1>3. \A v \in Users : \A i \in DOMAIN txs[v] :
          ~Clash(txs[v][i], txs'[u][n + 1]) /\ ~Clash(txs'[u][n + 1], txs[v][i])
  BY DEF Posted, GenTypeTaken, ExtTypeTaken
<1>4. \A v, w \in Users : \A i \in DOMAIN txs[v] : \A j \in DOMAIN txs[w] :
          Clash(txs[v][i], txs[w][j]) => v = w /\ i = j
  BY DEF KeysUnique
<1> HIDE DEF Clash
<1>5. \A v, w \in Users : \A i \in DOMAIN txs'[v] : \A j \in DOMAIN txs'[w] :
          Clash(txs'[v][i], txs'[w][j]) => v = w /\ i = j
  BY <1>2, <1>3, <1>4
<1> QED
  BY <1>5 DEF KeysUnique, Clash

(* Charges stay debits when the new row, if it is one, is.                 *)
LEMMA PostCostsAreDebits ==
    ASSUME TypeOK, TypeOK', CostsAreDebits, NEW u \in Users, NEW type, NEW dm, NEW da, NEW g, NEW e,
           Posted(u, type, dm, da, g, e),
           type = "generation_cost" => dm <= 0 /\ da <= 0
    PROVE  CostsAreDebits'
<1>1. /\ Len(txs[u]) \in Nat /\ DOMAIN txs[u] = 1 .. Len(txs[u])
      /\ DOMAIN txs'[u] = 1 .. (Len(txs[u]) + 1)
  BY JournalShape DEF Posted, TypeOK
<1>2. \A v \in Users : \A i \in DOMAIN txs'[v] :
          \/ v = u /\ i = Len(txs[u]) + 1
          \/ i \in DOMAIN txs[v] /\ txs'[v][i] = txs[v][i]
  BY <1>1 DEF Posted
<1> QED
  BY <1>2 DEF CostsAreDebits, Posted

(* Refunds keep mirroring charges when the new row, if it is a refund,     *)
(* does.                                                                   *)
LEMMA PostRefundsMirrorCosts ==
    ASSUME TypeOK, TypeOK', RefundsMirrorCosts, NEW u \in Users, NEW type,
           NEW dm \in Int, NEW da \in Int, NEW g, NEW e,
           Posted(u, type, dm, da, g, e),
           type = "generation_refund" =>
               \E i \in 1 .. Len(txs[u]) :
                   /\ txs[u][i].type = "generation_cost"
                   /\ txs[u][i].generationID = g
                   /\ txs[u][i].monthlyDelta = -dm
                   /\ txs[u][i].addonDelta = -da
    PROVE  RefundsMirrorCosts'
<1>1. /\ Len(txs[u]) \in Nat /\ DOMAIN txs[u] = 1 .. Len(txs[u])
      /\ DOMAIN txs'[u] = 1 .. (Len(txs[u]) + 1)
  BY JournalShape DEF Posted, TypeOK
<1> SUFFICES ASSUME NEW v \in Users, NEW j \in DOMAIN txs'[v],
                    txs'[v][j].type = "generation_refund"
             PROVE  \E i \in 1 .. (j - 1) :
                       /\ txs'[v][i].type = "generation_cost"
                       /\ txs'[v][i].generationID = txs'[v][j].generationID
                       /\ txs'[v][i].monthlyDelta = -txs'[v][j].monthlyDelta
                       /\ txs'[v][i].addonDelta = -txs'[v][j].addonDelta
  BY DEF RefundsMirrorCosts
<1>2. CASE v # u
  BY <1>2 DEF Posted, RefundsMirrorCosts
<1>3. CASE v = u /\ j \in 1 .. Len(txs[u])
  <2>1. PICK i \in 1 .. (j - 1) :
            /\ txs[u][i].type = "generation_cost"
            /\ txs[u][i].generationID = txs[u][j].generationID
            /\ txs[u][i].monthlyDelta = -txs[u][j].monthlyDelta
            /\ txs[u][i].addonDelta = -txs[u][j].addonDelta
    BY <1>1, <1>3 DEF RefundsMirrorCosts, Posted
  <2>2. i \in 1 .. Len(txs[u])
    BY <1>1, <1>3
  <2> QED
    BY <1>3, <2>1, <2>2 DEF Posted
<1>4. CASE v = u /\ j = Len(txs[u]) + 1
  <2>1. PICK i \in 1 .. Len(txs[u]) :
            /\ txs[u][i].type = "generation_cost"
            /\ txs[u][i].generationID = g
            /\ txs[u][i].monthlyDelta = -dm
            /\ txs[u][i].addonDelta = -da
    BY <1>4 DEF Posted
  <2>2. i \in 1 .. (j - 1)
    BY <1>1, <1>4
  <2>3. /\ txs'[u][i] = txs[u][i]
        /\ txs'[u][j].generationID = g
        /\ txs'[u][j].monthlyDelta = dm
        /\ txs'[u][j].addonDelta = da
    BY <1>4 DEF Posted
  <2> QED
    BY <1>4, <2>1, <2>2, <2>3
<1> QED
  BY <1>1, <1>2, <1>3, <1>4

(* Whoever gets a row has an account.                                      *)
LEMMA PostChargedHaveAccounts ==
    ASSUME ChargedHaveAccounts, NEW u \in Users, NEW type, NEW dm, NEW da, NEW g, NEW e,
           Posted(u, type, dm, da, g, e)
    PROVE  ChargedHaveAccounts'
  BY DEF ChargedHaveAccounts, Posted

-----------------------------------------------------------------------------
(* The invariant.                                                          *)

(* A Post with the right arguments keeps the whole invariant.              *)
LEMMA PostKeepsIInv ==
    ASSUME IInv, NEW u \in Users, NEW type \in TxTypes, NEW dm \in Int, NEW da \in Int,
           NEW g \in Gens \cup {NULL}, NEW e \in ExternalIDs \cup {NULL},
           Post(u, type, dm, da, g, e),
           monthly[u] + dm >= 0, addon[u] + da >= 0,
           g = NULL \/ ~GenTypeTaken(g, type),
           e = NULL \/ ~ExtTypeTaken(e, type),
           type = "generation_cost" => dm <= 0 /\ da <= 0,
           type = "generation_refund" =>
               \E i \in 1 .. Len(txs[u]) :
                   /\ txs[u][i].type = "generation_cost"
                   /\ txs[u][i].generationID = g
                   /\ txs[u][i].monthlyDelta = -dm
                   /\ txs[u][i].addonDelta = -da
    PROVE  IInv'
<1>1. TypeOK' /\ Posted(u, type, dm, da, g, e)
  BY PostEffect DEF IInv
<1>2. NoOverdraft'
  BY <1>1, PostNoOverdraft DEF IInv
<1>3. KeysUnique'
  BY <1>1, PostKeysUnique DEF IInv
<1>4. CostsAreDebits'
  BY <1>1, PostCostsAreDebits DEF IInv
<1>5. RefundsMirrorCosts'
  BY <1>1, PostRefundsMirrorCosts DEF IInv
<1>6. ChargedHaveAccounts'
  BY <1>1, PostChargedHaveAccounts DEF IInv
<1> QED
  BY <1>1, <1>2, <1>3, <1>4, <1>5, <1>6 DEF IInv

(* A user's balances are non-negative integers.                            *)
LEMMA BalancesAreNat ==
    ASSUME IInv, NEW u \in Users
    PROVE  monthly[u] \in Nat /\ addon[u] \in Nat
  BY DEF IInv, TypeOK, NoOverdraft

(* A Spend debits at most what each balance holds.                         *)
LEMMA SpendKeepsIInv ==
    ASSUME IInv, NEW u \in Users, NEW cost \in Costs, NEW g \in Gens, Spend(u, cost, g)
    PROVE  IInv'
<1> DEFINE share == MonthlyShare(monthly[u], cost)
<1>a. cost \in Nat
  BY CostsAssumption
<1>b. monthly[u] \in Nat /\ addon[u] \in Nat
  BY BalancesAreNat
<1>1. cost \in Nat /\ monthly[u] \in Nat /\ addon[u] \in Nat /\ monthly[u] + addon[u] >= cost
  BY <1>a, <1>b DEF Spend, CanAfford
<1> HIDE DEF share
<1>2. /\ share \in Int /\ 0 <= share /\ share <= monthly[u]
      /\ 0 <= cost - share /\ cost - share <= addon[u]
  BY <1>1 DEF share, MonthlyShare
<1>3. Post(u, "generation_cost", -share, share - cost, g, NULL) /\ ~GenTypeTaken(g, "generation_cost")
  BY DEF Spend, share
<1>4. /\ -share \in Int /\ share - cost \in Int
      /\ monthly[u] + (-share) >= 0 /\ addon[u] + (share - cost) >= 0
      /\ -share <= 0 /\ share - cost <= 0
  BY <1>1, <1>2
<1> QED
  BY <1>3, <1>4, PostKeepsIInv DEF TxTypes

(* A Refund undoes a debit, so it only ever credits.                       *)
LEMMA RefundKeepsIInv ==
    ASSUME IInv, NEW g \in Gens, Refund(g)
    PROVE  IInv'
<1>0. PICK u \in Users : \E i \in DOMAIN txs[u] : RefundRow(u, i, g)
  BY DEF Refund
<1>1. PICK i \in DOMAIN txs[u] : RefundRow(u, i, g)
  BY <1>0
<1> DEFINE dm == -txs[u][i].monthlyDelta
           da == -txs[u][i].addonDelta
<1>2. /\ txs[u][i].type = "generation_cost" /\ txs[u][i].generationID = g
      /\ ~GenTypeTaken(g, "generation_refund")
      /\ Post(u, "generation_refund", dm, da, g, NULL)
  BY <1>1 DEF RefundRow, IsTx
<1>3. TypeOK /\ CostsAreDebits
  BY DEF IInv
<1>4. i \in 1 .. Len(txs[u]) /\ txs[u][i] \in CreditTransaction
  BY <1>3, JournalShape
<1>5. txs[u][i].monthlyDelta \in Int /\ txs[u][i].addonDelta \in Int
  BY <1>4 DEF CreditTransaction
<1>6. txs[u][i].monthlyDelta <= 0 /\ txs[u][i].addonDelta <= 0
  BY <1>2, <1>3 DEF CostsAreDebits
<1>7. /\ dm \in Int /\ da \in Int /\ monthly[u] + dm >= 0 /\ addon[u] + da >= 0
      /\ txs[u][i].monthlyDelta = -dm /\ txs[u][i].addonDelta = -da
  BY <1>5, <1>6, BalancesAreNat
<1> HIDE DEF dm, da
<1> QED
  BY <1>2, <1>4, <1>7, PostKeepsIInv DEF TxTypes

(* A Grant only credits, under no key.                                     *)
LEMMA GrantKeepsIInv ==
    ASSUME IInv, NEW u \in Users, NEW m \in GrantAmounts, NEW a \in GrantAmounts, Grant(u, m, a)
    PROVE  IInv'
<1>a. m \in Nat /\ a \in Nat
  BY AmountsAssumption
<1>b. monthly[u] \in Nat /\ addon[u] \in Nat
  BY BalancesAreNat
<1>1. /\ m \in Int /\ a \in Int /\ monthly[u] + m >= 0 /\ addon[u] + a >= 0
  BY <1>a, <1>b
<1>2. Post(u, "admin_grant", m, a, NULL, NULL)
  BY DEF Grant
<1> QED
  BY <1>1, <1>2, PostKeepsIInv DEF TxTypes

(* A ResetMonthly leaves the plan's amount, under the event's key.         *)
LEMMA ResetMonthlyKeepsIInv ==
    ASSUME IInv, NEW u \in Users, NEW amount \in PlanAmounts, NEW e \in Events,
           ResetMonthly(u, amount, e)
    PROVE  IInv'
<1> DEFINE dm == amount - monthly[u]
<1>a. amount \in Nat
  BY AmountsAssumption
<1>b. monthly[u] \in Nat /\ addon[u] \in Nat
  BY BalancesAreNat
<1>1. dm \in Int /\ monthly[u] + dm >= 0 /\ addon[u] + 0 >= 0
  BY <1>a, <1>b
<1>2. Post(u, "subscription_grant", dm, 0, NULL, e) /\ ~ExtTypeTaken(e, "subscription_grant")
  BY DEF ResetMonthly
<1>3. e \in ExternalIDs \cup {NULL} /\ NULL \in Gens \cup {NULL}
  BY DEF ExternalIDs
<1>4. 0 \in Int /\ "subscription_grant" \in TxTypes
  BY DEF TxTypes
<1> HIDE DEF dm
<1> QED
  BY <1>1, <1>2, <1>3, <1>4, PostKeepsIInv, Zenon

(* A signup bonus only credits, under the user's own key.                  *)
LEMMA GrantSignupBonusKeepsIInv ==
    ASSUME IInv, NEW u \in Users, NEW amount \in GrantAmounts, GrantSignupBonus(u, amount)
    PROVE  IInv'
<1>a. amount \in Nat
  BY AmountsAssumption
<1>b. monthly[u] \in Nat /\ addon[u] \in Nat
  BY BalancesAreNat
<1>1. amount \in Int /\ monthly[u] + amount >= 0 /\ addon[u] + 0 >= 0
  BY <1>a, <1>b
<1>2. /\ Post(u, "signup_grant", amount, 0, NULL, SignupKey(u))
      /\ ~ExtTypeTaken(SignupKey(u), "signup_grant")
  BY DEF GrantSignupBonus
<1>3. SignupKey(u) \in ExternalIDs \cup {NULL} /\ NULL \in Gens \cup {NULL}
  BY DEF ExternalIDs
<1>4. 0 \in Int /\ "signup_grant" \in TxTypes
  BY DEF TxTypes
<1> QED
  BY <1>1, <1>2, <1>3, <1>4, PostKeepsIInv, Zenon

(* A journal of length zero has no positions.                              *)
LEMMA EmptyJournal ==
    ASSUME TypeOK, NEW u \in Users, Len(txs[u]) = 0
    PROVE  DOMAIN txs[u] = {}
<1>1. DOMAIN txs[u] = 1 .. 0
  BY JournalShape
<1>2. 1 .. 0 = {}
  OBVIOUS
<1> QED
  BY <1>1, <1>2

(* The invariant holds at first: there are no rows.                        *)
LEMMA InitIInv == Init => IInv
<1> SUFFICES ASSUME Init PROVE IInv
  OBVIOUS
<1>2. \A u \in Users : Len(txs[u]) = 0
  BY DEF Init
<1>3. TypeOK
  BY DEF Init, TypeOK
<1>1. \A u \in Users : DOMAIN txs[u] = {}
  BY <1>2, <1>3, EmptyJournal
<1>4. \A u \in Users : monthly[u] = 0 /\ addon[u] = 0
  BY DEF Init
<1>5. NoOverdraft
  <2>1. ASSUME NEW u \in Users
        PROVE  monthly[u] >= 0 /\ addon[u] >= 0
    BY <1>4
  <2> QED
    BY <1>1, <2>1 DEF NoOverdraft
<1>6. KeysUnique /\ CostsAreDebits /\ RefundsMirrorCosts
  BY <1>1 DEF KeysUnique, CostsAreDebits, RefundsMirrorCosts
<1>7. ChargedHaveAccounts
  BY <1>2 DEF ChargedHaveAccounts
<1> QED
  BY <1>3, <1>5, <1>6, <1>7 DEF IInv

(* Every operation keeps the invariant.                                    *)
LEMMA NextIInv == IInv /\ [Next]_vars => IInv'
<1> SUFFICES ASSUME IInv, [Next]_vars PROVE IInv'
  OBVIOUS
<1>1. ASSUME NEW u \in Users, NEW cost \in Costs, NEW g \in Gens, Spend(u, cost, g) PROVE IInv'
  BY <1>1, SpendKeepsIInv
<1>2. ASSUME NEW g \in Gens, Refund(g) PROVE IInv'
  BY <1>2, RefundKeepsIInv
<1>3. ASSUME NEW u \in Users, NEW m \in GrantAmounts, NEW a \in GrantAmounts, Grant(u, m, a)
      PROVE  IInv'
  BY <1>3, GrantKeepsIInv
<1>4. ASSUME NEW u \in Users, NEW amount \in PlanAmounts, NEW e \in Events,
             ResetMonthly(u, amount, e)
      PROVE  IInv'
  BY <1>4, ResetMonthlyKeepsIInv
<1>6. ASSUME NEW u \in Users, NEW amount \in GrantAmounts, GrantSignupBonus(u, amount)
      PROVE  IInv'
  BY <1>6, GrantSignupBonusKeepsIInv
<1>7. CASE UNCHANGED vars
  <2>1. accounts' = accounts /\ monthly' = monthly /\ addon' = addon /\ txs' = txs
    BY <1>7 DEF vars
  <2>2. TypeOK' /\ NoOverdraft' /\ ChargedHaveAccounts'
    BY <2>1 DEF IInv, TypeOK, NoOverdraft, ChargedHaveAccounts
  <2>3. KeysUnique' /\ CostsAreDebits' /\ RefundsMirrorCosts'
    BY <2>1 DEF IInv, KeysUnique, CostsAreDebits, RefundsMirrorCosts
  <2> QED
    BY <2>2, <2>3 DEF IInv
<1> QED
  BY <1>1, <1>2, <1>3, <1>4, <1>6, <1>7 DEF Next

(* The invariant holds in every reachable state.                           *)
THEOREM InvariantHolds == Spec => []IInv
  BY InitIInv, NextIInv, PTL DEF Spec

-----------------------------------------------------------------------------
(* The results.                                                            *)

(* Every variable keeps its type.                                          *)
THEOREM TypeCorrect == Spec => []TypeOK
<1>1. IInv => TypeOK
  BY DEF IInv
<1> QED
  BY <1>1, InvariantHolds, PTL

(* No sequence of operations overdraws a balance.                          *)
THEOREM NeverOverdrawn == Spec => []NoOverdraft
<1>1. IInv => NoOverdraft
  BY DEF IInv
<1> QED
  BY <1>1, InvariantHolds, PTL

(* A generation is charged at most once and refunded at most once, a       *)
(* Stripe event grants at most once, a signup bonus is given at most once. *)
THEOREM EachKeyPostedOnce == Spec => []KeysUnique
<1>1. IInv => KeysUnique
  BY DEF IInv
<1> QED
  BY <1>1, InvariantHolds, PTL

(* Every refund returns what its own user paid, balance by balance.        *)
THEOREM RefundsAreExact == Spec => []RefundsMirrorCosts
<1>1. IInv => RefundsMirrorCosts
  BY DEF IInv
<1> QED
  BY <1>1, InvariantHolds, PTL

(* Every step of the ledger is a Post or changes nothing.                  *)
LEMMA StepIsPost ==
    ASSUME IInv, [Next]_vars
    PROVE  \/ UNCHANGED vars
           \/ \E u \in Users : \E type \in TxTypes : \E dm, da \in Int :
                 \E g \in Gens \cup {NULL} : \E e \in ExternalIDs \cup {NULL} :
                     Post(u, type, dm, da, g, e)
<1> DEFINE SomePost == \E u \in Users : \E type \in TxTypes : \E dm, da \in Int :
                          \E g \in Gens \cup {NULL} : \E e \in ExternalIDs \cup {NULL} :
                              Post(u, type, dm, da, g, e)
<1>a. /\ TypeOK
      /\ \A u \in Users : monthly[u] \in Int /\ addon[u] \in Int
  BY DEF IInv, TypeOK
<1>b. \A e \in Events, u \in Users : e \in ExternalIDs /\ SignupKey(u) \in ExternalIDs
  BY DEF ExternalIDs
<1>1. ASSUME NEW u \in Users, NEW cost \in Costs, NEW g \in Gens, Spend(u, cost, g) PROVE SomePost
  <2> DEFINE share == MonthlyShare(monthly[u], cost)
  <2>1. share \in Int /\ -share \in Int /\ share - cost \in Int
    BY <1>a, CostsAssumption DEF MonthlyShare
  <2>2. Post(u, "generation_cost", -share, share - cost, g, NULL)
    BY <1>1 DEF Spend
  <2> HIDE DEF share
  <2> QED
    BY <2>1, <2>2 DEF TxTypes
<1>2. ASSUME NEW g \in Gens, Refund(g) PROVE SomePost
  <2>1. PICK u \in Users : \E i \in DOMAIN txs[u] : RefundRow(u, i, g)
    BY <1>2 DEF Refund
  <2>2. PICK i \in DOMAIN txs[u] : RefundRow(u, i, g)
    BY <2>1
  <2> DEFINE dm == -txs[u][i].monthlyDelta
             da == -txs[u][i].addonDelta
  <2>3. txs[u][i] \in CreditTransaction
    BY <1>a, JournalShape
  <2>4. dm \in Int /\ da \in Int
    BY <2>3 DEF CreditTransaction
  <2>5. Post(u, "generation_refund", dm, da, g, NULL)
    BY <2>2 DEF RefundRow
  <2> HIDE DEF dm, da
  <2> QED
    BY <2>4, <2>5 DEF TxTypes
<1>3. ASSUME NEW u \in Users, NEW m \in GrantAmounts, NEW a \in GrantAmounts, Grant(u, m, a)
      PROVE  SomePost
  <2>1. m \in Int /\ a \in Int /\ "admin_grant" \in TxTypes
    BY AmountsAssumption DEF TxTypes
  <2>2. Post(u, "admin_grant", m, a, NULL, NULL)
    BY <1>3 DEF Grant
  <2> QED
    BY <2>1, <2>2
<1>4. ASSUME NEW u \in Users, NEW amount \in PlanAmounts, NEW e \in Events,
             ResetMonthly(u, amount, e)
      PROVE  SomePost
  <2> DEFINE dm == amount - monthly[u]
  <2>1. /\ dm \in Int /\ 0 \in Int /\ "subscription_grant" \in TxTypes
        /\ e \in ExternalIDs \cup {NULL} /\ NULL \in Gens \cup {NULL}
    BY <1>a, <1>b, AmountsAssumption DEF TxTypes
  <2>2. Post(u, "subscription_grant", dm, 0, NULL, e)
    BY <1>4 DEF ResetMonthly
  <2> HIDE DEF dm
  <2> QED
    BY <2>1, <2>2, Zenon
<1>6. ASSUME NEW u \in Users, NEW amount \in GrantAmounts, GrantSignupBonus(u, amount)
      PROVE  SomePost
  <2>a. amount \in Int /\ 0 \in Int
    BY AmountsAssumption
  <2>b. SignupKey(u) \in ExternalIDs \cup {NULL} /\ NULL \in Gens \cup {NULL}
    BY DEF ExternalIDs
  <2>1. /\ amount \in Int /\ 0 \in Int /\ "signup_grant" \in TxTypes
        /\ SignupKey(u) \in ExternalIDs \cup {NULL} /\ NULL \in Gens \cup {NULL}
    BY <2>a, <2>b DEF TxTypes
  <2>2. Post(u, "signup_grant", amount, 0, NULL, SignupKey(u))
    BY <1>6 DEF GrantSignupBonus
  <2> QED
    BY <2>1, <2>2, Zenon
<1> QED
  BY <1>1, <1>2, <1>3, <1>4, <1>6 DEF Next

(* The books always balance: every row's snapshot follows from             *)
(* the row before it, and the account agrees with the last one.            *)
THEOREM BooksBalance == Spec => []Reconciles
<1>1. Init => Reconciles
  <2> SUFFICES ASSUME Init PROVE Reconciles
    OBVIOUS
  <2>1. \A u \in Users : Len(txs[u]) = 0 /\ monthly[u] = 0 /\ addon[u] = 0
    BY DEF Init
  <2>2. \A u \in Users : DOMAIN txs[u] = {}
    BY <2>1, InitIInv, EmptyJournal DEF IInv
  <2> QED
    BY <2>1, <2>2 DEF Reconciles, SnapshotsChain, AccountIsLastSnapshot, MonthlyBefore, AddonBefore
<1>2. IInv /\ Reconciles /\ [Next]_vars => Reconciles'
  <2> SUFFICES ASSUME IInv, Reconciles, [Next]_vars PROVE Reconciles'
    OBVIOUS
  <2>1. CASE UNCHANGED vars
    BY <2>1 DEF vars, Reconciles, SnapshotsChain, AccountIsLastSnapshot, MonthlyBefore, AddonBefore
  <2>2. ASSUME NEW u \in Users, NEW type \in TxTypes, NEW dm \in Int, NEW da \in Int,
               NEW g \in Gens \cup {NULL}, NEW e \in ExternalIDs \cup {NULL},
               Post(u, type, dm, da, g, e)
        PROVE  Reconciles'
    <3>1. TypeOK' /\ Posted(u, type, dm, da, g, e)
      BY <2>2, PostEffect DEF IInv
    <3> QED
      BY <3>1, PostReconciles DEF IInv
  <2> QED
    BY <2>1, <2>2, StepIsPost
<1> QED
  BY <1>1, <1>2, InvariantHolds, PTL DEF Spec

(* The journal is append-only: no step changes or removes a row, and no    *)
(* step writes two.                                                        *)
THEOREM JournalIsAppendOnly == Spec => JournalOnlyGrows
<1>1. IInv /\ [Next]_vars => [JournalStep]_vars
  <2> SUFFICES ASSUME IInv, [Next]_vars, ~UNCHANGED vars PROVE JournalStep
    OBVIOUS
  <2>1. ASSUME NEW v \in Users
        PROVE  Len(txs[v]) \in Nat /\ DOMAIN txs[v] = 1 .. Len(txs[v])
    BY JournalShape DEF IInv
  <2>2. ASSUME NEW u \in Users, NEW type \in TxTypes, NEW dm \in Int, NEW da \in Int,
               NEW g \in Gens \cup {NULL}, NEW e \in ExternalIDs \cup {NULL},
               Post(u, type, dm, da, g, e)
        PROVE  JournalStep
    <3>1. Posted(u, type, dm, da, g, e)
      BY <2>2, PostEffect DEF IInv
    <3> QED
      BY <3>1, <2>1 DEF JournalStep, Posted
  <2> QED
    BY <2>2, StepIsPost
<1> QED
  BY <1>1, InvariantHolds, PTL DEF Spec, JournalOnlyGrows

(* Add-on credits leave an account only through a generation's charge that *)
(* used the monthly balance up.                                            *)
THEOREM AddonIsSpentLast == Spec => AddonSpentLast
<1>1. IInv /\ [Next]_vars => [AddonStep]_vars
  <2> SUFFICES ASSUME IInv, [Next]_vars, ~UNCHANGED vars,
                      NEW v \in Users, addon'[v] < addon[v]
               PROVE  /\ monthly'[v] = 0
                      /\ Len(txs'[v]) > Len(txs[v])
                      /\ txs'[v][Len(txs'[v])].type = "generation_cost"
    BY DEF AddonStep
  <2>1. \A u \in Users : /\ monthly[u] \in Nat /\ addon[u] \in Nat
                         /\ Len(txs[u]) \in Nat /\ DOMAIN txs[u] = 1 .. Len(txs[u])
    BY BalancesAreNat, JournalShape DEF IInv
  <2>2. ASSUME NEW u \in Users, NEW type \in TxTypes, NEW dm \in Int, NEW da \in Int,
               NEW g \in Gens \cup {NULL}, NEW e \in ExternalIDs \cup {NULL},
               Post(u, type, dm, da, g, e)
        PROVE  /\ u = v /\ da < 0
               /\ monthly'[v] = monthly[v] + dm
               /\ Len(txs'[v]) > Len(txs[v])
               /\ txs'[v][Len(txs'[v])].type = type
    <3>1. Posted(u, type, dm, da, g, e)
      BY <2>2, PostEffect DEF IInv
    <3>2. u = v
      BY <3>1, <2>1 DEF Posted
    <3> QED
      BY <3>1, <3>2, <2>1 DEF Posted
  <2>3. ASSUME NEW u \in Users, NEW cost \in Costs, NEW g \in Gens, Spend(u, cost, g)
        PROVE  /\ monthly'[v] = 0
               /\ Len(txs'[v]) > Len(txs[v])
               /\ txs'[v][Len(txs'[v])].type = "generation_cost"
    <3> DEFINE share == MonthlyShare(monthly[u], cost)
    <3>1. /\ share \in Int /\ -share \in Int /\ share - cost \in Int
          /\ share - cost < 0 => share = monthly[u]
      BY <2>1, CostsAssumption DEF MonthlyShare
    <3>2. Post(u, "generation_cost", -share, share - cost, g, NULL)
      BY <2>3 DEF Spend
    <3> HIDE DEF share
    <3>3. /\ u = v /\ share - cost < 0
          /\ monthly'[v] = monthly[v] + (-share)
          /\ Len(txs'[v]) > Len(txs[v])
          /\ txs'[v][Len(txs'[v])].type = "generation_cost"
      BY <3>1, <3>2, <2>2 DEF TxTypes
    <3> QED
      BY <3>1, <3>3, <2>1
  <2>4. ASSUME NEW g \in Gens, Refund(g) PROVE FALSE
    <3>1. PICK u \in Users : \E i \in DOMAIN txs[u] : RefundRow(u, i, g)
      BY <2>4 DEF Refund
    <3>2. PICK i \in DOMAIN txs[u] : RefundRow(u, i, g)
      BY <3>1
    <3> DEFINE dm == -txs[u][i].monthlyDelta
               da == -txs[u][i].addonDelta
    <3>3. txs[u][i] \in CreditTransaction
      BY JournalShape DEF IInv
    <3>4. txs[u][i].addonDelta <= 0
      BY <3>2 DEF RefundRow, IsTx, IInv, CostsAreDebits
    <3>5. dm \in Int /\ da \in Int /\ da >= 0
      BY <3>3, <3>4 DEF CreditTransaction
    <3>6. Post(u, "generation_refund", dm, da, g, NULL)
      BY <3>2 DEF RefundRow
    <3> HIDE DEF dm, da
    <3> QED
      BY <3>5, <3>6, <2>2 DEF TxTypes
  <2>5. ASSUME NEW u \in Users, NEW m \in GrantAmounts, NEW a \in GrantAmounts, Grant(u, m, a)
        PROVE  FALSE
    <3>1. a \in Nat
      BY AmountsAssumption
    <3>2. addon' = [addon EXCEPT ![u] = @ + a]
      BY <2>5 DEF Grant, Post
    <3>3. addon'[v] >= addon[v]
      BY <3>1, <3>2, <2>1 DEF IInv, TypeOK
    <3> QED
      BY <3>1, <3>3, <2>1, <3>2 DEF IInv, TypeOK
  <2>6. ASSUME NEW u \in Users, NEW amount \in PlanAmounts, NEW e \in Events,
               ResetMonthly(u, amount, e)
        PROVE  FALSE
    <3>1. addon' = [addon EXCEPT ![u] = @ + 0]
      BY <2>6 DEF ResetMonthly, Post
    <3> QED
      BY <3>1, <2>1 DEF IInv, TypeOK
  <2>8. ASSUME NEW u \in Users, NEW amount \in GrantAmounts, GrantSignupBonus(u, amount)
        PROVE  FALSE
    <3>1. addon' = [addon EXCEPT ![u] = @ + 0]
      BY <2>8 DEF GrantSignupBonus, Post
    <3> QED
      BY <3>1, <2>1 DEF IInv, TypeOK
  <2> QED
    BY <2>3, <2>4, <2>5, <2>6, <2>8 DEF Next
<1> QED
  BY <1>1, InvariantHolds, PTL DEF Spec, AddonSpentLast
=============================================================================
