------------------------ MODULE GenerationLifecycle ------------------------
(***************************************************************************)
(* POST /api/generations from the processing row to the saved result, over *)
(* crashes and restarts of the server: GenerationsHandler.Create           *)
(* (src/internal/handler/generations.go), SweepStuck                       *)
(* (src/internal/generation/sweep.go) and the order in which main.go runs  *)
(* them. Credits move only through CreditLedger's operations.              *)
(*                                                                         *)
(* Each request makes a fresh generation id, so a handler is named by its  *)
(* generation. Between two database calls of a handler anything else may   *)
(* happen: other handlers, renewals, a crash.                              *)
(***************************************************************************)
EXTENDS Integers, Sequences, FiniteSets

CONSTANTS Users, Gens, Events, Costs, GrantAmounts, PlanAmounts, MaxRows, NULL,
    Environments,  \* the sets of FaultKinds that may occur together
    MaxCrashes,    \* bound: crashes of the server process
    MaxTopUps      \* bound: grants and renewals that happen meanwhile

FaultKinds ==
    {"spend_error",      \* Spend fails and its transaction is rolled back
     "spend_ack_lost",   \* Spend commits but the connection breaks before COMMIT answers
     "refund_error",     \* Refund fails and its transaction is rolled back
     "save_error",       \* the last UPDATE of the generations row fails
     "scan_error"}       \* SweepStuck cannot list the processing rows

ASSUME KeysAssumption == NULL \notin Gens /\ NULL \notin Events
ASSUME AmountsAssumption ==
    Costs \subseteq Nat \ {0} /\ GrantAmounts \subseteq Nat /\ PlanAmounts \subseteq Nat
ASSUME BoundAssumption == MaxRows \in Nat
ASSUME EnvironmentsAssumption == Environments \subseteq SUBSET FaultKinds
ASSUME CrashesAssumption == MaxCrashes \in Nat /\ MaxTopUps \in Nat

VARIABLES
    accounts, monthly, addon, txs,   \* the ledger, as in CreditLedger
    gens,      \* table generations: [Gens -> row, or NoRow]
    handler,   \* [Gens -> where the request's goroutine is]
    local,     \* [Gens -> the goroutine's variables userID and spent]
    reply,     \* [Gens -> what the client was told]
    server,    \* "down", "starting", "sweeping" or "up"
    sweep,     \* SweepStuck: rows still to visit, and the one just refunded
    crashes, topUps,
    faults     \* the faults this run's environment commits, fixed from the start

ledgerVars == <<accounts, monthly, addon, txs>>
process == <<server, sweep, crashes, topUps, faults>>
vars == <<ledgerVars, gens, handler, local, reply, process>>

Ledger == INSTANCE CreditLedger

NoSweep == [todo |-> {}, refunded |-> NULL]
NoRow == [status |-> "none", user |-> NULL, creditsSpent |-> 0]

(* Where a handler can be: its row inserted, charged and waiting for the   *)
(* upstream, with an image or an error in hand, past its refund attempt,   *)
(* refused by Spend, over, or dead with its process.                       *)
HandlerStates == {"none", "inserted", "charged", "image", "error", "refunded",
                  "refused", "over", "dead"}

Running == {"inserted", "charged", "image", "error", "refunded", "refused"}

Init ==
    /\ Ledger!Init
    /\ gens = [g \in Gens |-> NoRow]
    /\ handler = [g \in Gens |-> "none"]
    /\ local = [g \in Gens |-> [userID |-> NULL, spent |-> 0]]
    /\ reply = [g \in Gens |-> "none"]
    /\ server = "down"
    /\ sweep = NoSweep
    /\ crashes = 0 /\ topUps = 0
    /\ faults \in Environments

(* What the ledger holds of a generation.                                  *)
Charged(g) == Ledger!GenTypeTaken(g, "generation_cost")
Refunded(g) == Ledger!GenTypeTaken(g, "generation_refund")

-----------------------------------------------------------------------------
(* The handler.                                                            *)

Goto(g, h) == handler' = [handler EXCEPT ![g] = h]

(* Faulty Accepts: the row is left to the save at the end, which would     *)
(* insert it too; the server listens before its sweep.                     *)
AcceptWithoutRow(g, u) ==
    /\ server = "up"
    /\ handler[g] = "none"
    /\ local' = [local EXCEPT ![g].userID = u]
    /\ Goto(g, "inserted")
    /\ UNCHANGED <<ledgerVars, gens, reply, process>>

AcceptBeforeSweep(g, u) ==
    /\ server # "down"
    /\ handler[g] = "none"
    /\ gens' = [gens EXCEPT ![g] = [status |-> "processing", user |-> u, creditsSpent |-> 0]]
    /\ local' = [local EXCEPT ![g].userID = u]
    /\ Goto(g, "inserted")
    /\ UNCHANGED <<ledgerVars, reply, process>>

(* The request is valid and its processing row is inserted, before any     *)
(* credit moves.                                                           *)
Accept(g, u) ==
    /\ server = "up"
    /\ handler[g] = "none"
    /\ gens' = [gens EXCEPT ![g] = [status |-> "processing", user |-> u, creditsSpent |-> 0]]
    /\ local' = [local EXCEPT ![g].userID = u]
    /\ Goto(g, "inserted")
    /\ UNCHANGED <<ledgerVars, reply, process>>

(* A faulty Charge keeps the row's negative deltas as the amount spent.    *)
ChargeKeepsDelta(g) ==
    /\ handler[g] = "inserted"
    /\ \E cost \in Costs : /\ Ledger!Spend(local[g].userID, cost, g)
                           /\ local' = [local EXCEPT ![g].spent = -cost]
    /\ Goto(g, "charged")
    /\ UNCHANGED <<gens, reply, process>>

(* Spend answers with the split it took; its sum is what the user is told. *)
Charge(g) ==
    /\ handler[g] = "inserted"
    /\ \E cost \in Costs : /\ Ledger!Spend(local[g].userID, cost, g)
                           /\ local' = [local EXCEPT ![g].spent = cost]
    /\ Goto(g, "charged")
    /\ UNCHANGED <<gens, reply, process>>

(* A faulty ChargeRefused goes on to the upstream on errors other than too *)
(* few credits.                                                            *)
ChargeErrorIgnored(g) ==
    /\ handler[g] = "inserted"
    /\ "spend_error" \in faults
    /\ Goto(g, "charged")
    /\ UNCHANGED <<ledgerVars, gens, local, reply, process>>

(* Spend answers with an error: too few credits, a failed transaction, or  *)
(* one that did commit.                                                    *)
ChargeRefused(g) ==
    /\ handler[g] = "inserted"
    /\ \/ /\ \E cost \in Costs : ~Ledger!CanAfford(local[g].userID, cost)
          /\ UNCHANGED ledgerVars
       \/ "spend_error" \in faults /\ UNCHANGED ledgerVars
       \/ /\ "spend_ack_lost" \in faults
          /\ \E cost \in Costs : Ledger!Spend(local[g].userID, cost, g)
    /\ Goto(g, "refused")
    /\ UNCHANGED <<gens, local, reply, process>>

(* The adapter returns within its own five minutes whatever the client     *)
(* does: an image, or any error.                                           *)
Upstream(g) ==
    /\ handler[g] = "charged"
    /\ \E h \in {"image", "error"} : Goto(g, h)
    /\ UNCHANGED <<ledgerVars, gens, local, reply, process>>

(* Refund succeeds when it posts the refund, and when there is nothing to  *)
(* refund or it was refunded before.                                       *)
RefundOk(g) ==
    \/ Ledger!Refund(g)
    \/ (~Charged(g) \/ Refunded(g)) /\ UNCHANGED ledgerVars

(* An error: rolled back, or committed without the caller learning of it.  *)
RefundError(g) == "refund_error" \in faults /\ (Ledger!Refund(g) \/ UNCHANGED ledgerVars)

(* After an upstream error the handler refunds; when that fails it logs    *)
(* the error and goes on.                                                  *)
RefundFailed(g) ==
    /\ handler[g] = "error"
    /\ RefundOk(g) \/ RefundError(g)
    /\ Goto(g, "refunded")
    /\ UNCHANGED <<gens, local, reply, process>>

(* save writes the whole row; it logs its own failure and never changes    *)
(* what the client is told.                                                *)
Save(g, status, spent) ==
    \/ gens' = [gens EXCEPT ![g] = [status |-> status, user |-> local[g].userID,
                                    creditsSpent |-> spent]]
    \/ "save_error" \in faults /\ UNCHANGED gens

Finish(g, status, spent, told) ==
    /\ Save(g, status, spent)
    /\ Goto(g, "over")
    /\ reply' = [reply EXCEPT ![g] = told]
    /\ UNCHANGED <<ledgerVars, local, process>>

MarkRefused(g) == handler[g] = "refused" /\ Finish(g, "failed", 0, "refused")
MarkFailed(g) == handler[g] = "refunded" /\ Finish(g, "failed", 0, "failed")
(* A faulty MarkSucceeded reads the model's price again, which may have    *)
(* changed since the charge.                                               *)
MarkSucceededAtListPrice(g) ==
    handler[g] = "image" /\ \E cost \in Costs : Finish(g, "succeeded", cost, "image")

MarkSucceeded(g) == handler[g] = "image" /\ Finish(g, "succeeded", local[g].spent, "image")

-----------------------------------------------------------------------------
(* The process. main runs SweepStuck to its end before it listens.         *)

Crash ==
    /\ server # "down" /\ crashes < MaxCrashes
    /\ server' = "down"
    /\ crashes' = crashes + 1
    /\ handler' = [g \in Gens |-> IF handler[g] \in Running THEN "dead" ELSE handler[g]]
    /\ sweep' = NoSweep
    /\ UNCHANGED <<ledgerVars, gens, local, reply, topUps, faults>>

Start ==
    /\ server = "down"
    /\ server' = "starting"
    /\ UNCHANGED <<ledgerVars, gens, handler, local, reply, sweep, crashes, topUps, faults>>

(* A faulty Scan joins with the ledger and misses the uncharged rows.      *)
ScanCharged ==
    /\ server = "starting"
    /\ sweep' = [todo |-> {g \in Gens : gens[g].status = "processing" /\ Charged(g)},
                 refunded |-> NULL]
    /\ server' = "sweeping"
    /\ UNCHANGED <<ledgerVars, gens, handler, local, reply, crashes, topUps, faults>>

(* SweepStuck lists the processing rows. When it cannot, main logs that    *)
(* and starts without it.                                                  *)
Scan ==
    /\ server = "starting"
    /\ \/ sweep' = [todo |-> {g \in Gens : gens[g].status = "processing"}, refunded |-> NULL]
       \/ "scan_error" \in faults /\ UNCHANGED sweep
    /\ server' = "sweeping"
    /\ UNCHANGED <<ledgerVars, gens, handler, local, reply, crashes, topUps, faults>>

(* One row of the scan: refund it; if that fails skip it until the next    *)
(* start, else mark it failed.                                             *)
SweepRefund(g) ==
    /\ server = "sweeping" /\ sweep.refunded = NULL /\ g \in sweep.todo
    /\ \/ RefundOk(g) /\ sweep' = [todo |-> sweep.todo \ {g}, refunded |-> g]
       \/ RefundError(g) /\ sweep' = [sweep EXCEPT !.todo = @ \ {g}]
    /\ UNCHANGED <<gens, handler, local, reply, server, crashes, topUps, faults>>

SweepMark(g) ==
    /\ server = "sweeping" /\ sweep.refunded = g
    /\ \/ gens' = [gens EXCEPT ![g].status = "failed"]
       \/ "save_error" \in faults /\ UNCHANGED gens
    /\ sweep' = [sweep EXCEPT !.refunded = NULL]
    /\ UNCHANGED <<ledgerVars, handler, local, reply, server, crashes, topUps, faults>>

Listen ==
    /\ server = "sweeping" /\ sweep = NoSweep
    /\ server' = "up"
    /\ UNCHANGED <<ledgerVars, gens, handler, local, reply, sweep, crashes, topUps, faults>>

(* Meanwhile administrators and Stripe move the same balances.             *)
TopUp ==
    /\ server = "up" /\ topUps < MaxTopUps
    /\ \/ \E u \in Users, m, a \in GrantAmounts : Ledger!Grant(u, m, a)
       \/ \E u \in Users, n \in PlanAmounts, e \in Events : Ledger!ResetMonthly(u, n, e)
    /\ topUps' = topUps + 1
    /\ UNCHANGED <<gens, handler, local, reply, server, sweep, crashes, faults>>

HandlerStep(g) ==
    \/ Charge(g) \/ ChargeRefused(g) \/ Upstream(g) \/ RefundFailed(g)
    \/ MarkRefused(g) \/ MarkFailed(g) \/ MarkSucceeded(g)

SweepStep(g) == SweepRefund(g) \/ SweepMark(g)

Next ==
    \/ \E g \in Gens, u \in Users : Accept(g, u)
    \/ \E g \in Gens : HandlerStep(g) \/ SweepStep(g)
    \/ Crash \/ Start \/ Scan \/ Listen \/ TopUp

Spec == Init /\ [][Next]_vars

(* A goroutine and the startup sequence keep running while the process     *)
(* lives, the upstream call has a deadline, and the platform restarts a    *)
(* dead process. Nobody owes a request, a top-up or a crash.               *)
FairSpec ==
    /\ Spec
    /\ \A g \in Gens : WF_vars(HandlerStep(g)) /\ WF_vars(SweepStep(g))
    /\ WF_vars(Start) /\ WF_vars(Scan) /\ WF_vars(Listen)

-----------------------------------------------------------------------------
(* Properties                                                              *)

(* Every variable has its type.                                            *)
TypeOK ==
    /\ Ledger!TypeOK
    /\ \A g \in Gens : /\ gens[g].status \in {"none", "processing", "succeeded", "failed"}
                       /\ gens[g].user \in Users \cup {NULL}
                       /\ gens[g].creditsSpent \in Nat
    /\ handler \in [Gens -> HandlerStates]
    /\ \A g \in Gens : local[g].userID \in Users \cup {NULL} /\ local[g].spent \in Nat
    /\ reply \in [Gens -> {"none", "refused", "failed", "image"}]
    /\ server \in {"down", "starting", "sweeping", "up"}
    /\ sweep.todo \subseteq Gens /\ sweep.refunded \in Gens \cup {NULL}

(* A generation recorded as succeeded was paid for by its owner, stays     *)
(* paid, and shows the user exactly what the ledger took, from both        *)
(* balances together (generations.go, the comment on CreditsSpent).        *)
SucceededIsPaid ==
    \A g \in Gens : gens[g].status = "succeeded" =>
        /\ ~Refunded(g)
        /\ \E i \in DOMAIN txs[gens[g].user] :
              LET t == txs[gens[g].user][i]
              IN  /\ t.type = "generation_cost" /\ t.generationID = g
                  /\ gens[g].creditsSpent = -(t.monthlyDelta + t.addonDelta)

(* Every charge can be found again: it belongs to a generation row of the  *)
(* charged user, which says processing, or says succeeded, or the charge   *)
(* was refunded. (generations.go: what is not refunded now the sweep will  *)
(* try again.)                                                             *)
ChargesAreTraceable ==
    \A u \in Users : \A i \in DOMAIN txs[u] :
        txs[u][i].type = "generation_cost" =>
            LET g == txs[u][i].generationID
            IN  /\ gens[g].user = u
                /\ gens[g].status \in {"processing", "succeeded"} \/ Refunded(g)

(* The same while Spend and Refund answer truthfully: no crash at any      *)
(* point, failed save or failed scan leaves a charge that a later sweep    *)
(* would miss, or a generation recorded as failed that costs anything.     *)
CrashesLeaveNoStrayCharge ==
    faults \cap {"spend_ack_lost", "refund_error"} = {} => ChargesAreTraceable

(* The sweep never takes a generation away from a running handler: what it *)
(* visits belongs to dead handlers or to ones whose save failed, and no    *)
(* handler waits for an image of a generation that was refunded.           *)
SweepSparesRunning ==
    /\ \A g \in Gens : g \in sweep.todo \/ g = sweep.refunded => handler[g] \notin Running
    /\ \A g \in Gens : handler[g] \in {"charged", "image"} => ~Refunded(g)

(* The client who was shown an image has paid for it for good, if the save *)
(* did not fail: the handler records the success before it tells, and the  *)
(* sweep of a later start finds nothing to refund.                         *)
ImagesArePaid ==
    "save_error" \notin faults =>
        \A g \in Gens : reply[g] = "image" => Charged(g) /\ ~Refunded(g)

(* Every generation ends where no database call but Spend fails: no row    *)
(* says processing forever, and every charge ends as a delivered image or  *)
(* as a refund.                                                            *)
EveryGenerationSettles ==
    faults \subseteq {"spend_error"} =>
        \A g \in Gens :
            /\ gens[g].status = "processing" ~> gens[g].status \in {"succeeded", "failed"}
            /\ Charged(g) ~> (gens[g].status = "succeeded" \/ Refunded(g))
=============================================================================
