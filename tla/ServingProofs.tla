---------------------------- MODULE ServingProofs ----------------------------
(***************************************************************************)
(* What holds of Settings, and of the calls that Serving runs beside it,   *)
(* for any keys, values, environments, encryption keys, bodies, requests   *)
(* and generations.                                                        *)
(*                                                                         *)
(* IInv adds to the properties of Settings what a request that nothing has *)
(* overlapped knows on its way, and what seeding relies on: it is the only *)
(* one in progress, what it has read is what the table holds, and, once it *)
(* has stored it, so is what the server runs.                              *)
(*                                                                         *)
(* A composed step is a step of Settings or leaves its variables alone, so *)
(* all that the first part proves holds of the composition. CallInv, in    *)
(* the second part, is what a call carries with it: the snapshot it began  *)
(* with has an upstream key as long as it talks to the upstream, and an    *)
(* image, once delivered, stays with the configuration that delivered it.  *)
(***************************************************************************)
EXTENDS Serving, TLAPS

OnlyOne(r) == \A o \in Requests : Active(o) => o = r

LoneKnows ==
    \A r \in Requests :
        Active(r) /\ req[r].alone =>
            /\ OnlyOne(r)
            /\ req[r].pc \in {"store", "reply"} => req[r].vals = All
            /\ req[r].pc \in {"answer", "reply"} => snap = Build(All)

\* What SeedFromEnv has yet to write has no row.
SeedsUnset == server = "seeding" => \A k \in toSeed : table[k] = Absent

IInv == TypeOK /\ RunningServerReads /\ LoneKnows /\ SeedsUnset

-----------------------------------------------------------------------------
\* Reading the table gives every key a value Validate accepts
\* (Store.All, store.go:25-47).
LEMMA AllIsValid ==
    ASSUME TypeOK
    PROVE  All \in [Keys -> Texts] /\ \A k \in Keys : Valid(k, All[k])
<1>1. \A k \in Keys : table[k] # Absent => table[k].value \in Texts
  BY DEF TypeOK, Row
<1> QED
  BY <1>1 DEF TypeOK, All, Valid, Texts

\* A snapshot has a text for every key (Reload, runtime.go:63-82).
LEMMA BuildIsConfig ==
    ASSUME NEW vals \in [Keys -> Texts]
    PROVE  Build(vals) \in [Keys -> Texts]
BY KeysAssumption, ValuesAssumption DEF Build, Texts

\* Defaults touch no R2 setting: the storage is on in the snapshot exactly
\* when the table has all its values (runtime.go:39-42).
LEMMA BuildKeepsStorage ==
    ASSUME NEW vals \in [Keys -> Texts]
    PROVE  StorageEnabled(Build(vals)) = StorageEnabled(vals)
<1>1. \A k \in R2Keys : k \in Keys /\ k # BaseURLKey /\ k # BonusKey
  BY KeysAssumption
<1>2. \A k \in R2Keys : Build(vals)[k] = vals[k]
  BY <1>1 DEF Build
<1> QED
  BY <1>2 DEF StorageEnabled

\* Store.Set writes a valid row of the right kind, which the running process
\* can read, and disturbs no other (store.go:50-72).
LEMMA SetIsSafe ==
    ASSUME TypeOK, NEW k \in Keys, NEW v, Validate(k, v), Set(k, v),
           encKey \in EncKeys, encKey' = encKey
    PROVE  /\ table' \in [Keys -> Row \cup {Absent}]
           /\ \A o \in Keys : table'[o] # Absent => Valid(o, table'[o].value)
           /\ \A o \in Keys : o # k => table'[o] = table[o]
           /\ Readable => Readable'
<1> DEFINE row == [value |-> v, sealed |-> IF k \in Secrets /\ v # Empty THEN encKey ELSE Plain]
<1>1. v \in Texts
  BY ValuesAssumption DEF Validate, Texts
<1>2. row \in Row
  BY <1>1 DEF Row
<1>3. table' = [table EXCEPT ![k] = row]
  BY DEF Set
<1>4. table \in [Keys -> Row \cup {Absent}]
  BY DEF TypeOK
<1>5. Valid(k, row.value) /\ row.sealed \in {Plain, encKey}
  BY DEF Validate, Valid
<1>6. table'[k] = row /\ \A o \in Keys : o # k => table'[o] = table[o]
  BY <1>3, <1>4
<1> HIDE DEF row
<1>7. table' \in [Keys -> Row \cup {Absent}]
  BY <1>2, <1>3, <1>4
<1>8. \A o \in Keys : table'[o] # Absent => Valid(o, table'[o].value)
  <2> SUFFICES ASSUME NEW o \in Keys, table'[o] # Absent
               PROVE  Valid(o, table'[o].value)
    OBVIOUS
  <2>1. CASE o = k
    BY <2>1, <1>5, <1>6
  <2>2. CASE o # k
    BY <2>2, <1>6 DEF TypeOK
  <2> QED
    BY <2>1, <2>2
<1>9. Readable => Readable'
  <2> SUFFICES ASSUME Readable, NEW o \in Keys, table'[o] # Absent
               PROVE  table'[o].sealed \in {Plain, encKey}
    BY DEF Readable, Opens
  <2>1. CASE o = k
    BY <2>1, <1>5, <1>6
  <2>2. CASE o # k
    BY <2>2, <1>6 DEF Readable, Opens
  <2> QED
    BY <2>1, <2>2
<1> QED
  BY <1>6, <1>7, <1>8, <1>9

-----------------------------------------------------------------------------
(* TypeOK in two halves: the process with its table, and the requests.     *)

ProcessTyped ==
    /\ server \in {"down", "seeding", "loading", "up"}
    /\ encKey \in (IF server = "down" THEN {NULL} ELSE EncKeys)
    /\ env \in (IF server = "down" THEN {NULL} ELSE Envs)
    /\ toSeed \subseteq Keys
    /\ table \in [Keys -> Row \cup {Absent}]
    /\ \A k \in Keys : table[k] # Absent => Valid(k, table[k].value)
    /\ snap \in (IF server = "up" THEN [Keys -> Texts] ELSE {NULL})
    /\ starts \in 0 .. MaxStarts /\ faults \in 0 .. MaxFaults

ValidRequest(q) ==
    /\ q.pc = "writing" =>
         /\ q.todo \subseteq DOMAIN q.body
         /\ \A k \in DOMAIN q.body : Valid(k, q.body[k])
    /\ q.pc \in {"store", "reply"} =>
         /\ q.vals \in [Keys -> Texts]
         /\ \A k \in Keys : Valid(k, q.vals[k])

RequestsTyped ==
    /\ req \in [Requests -> Request]
    /\ \A r \in Requests : (Active(r) => server = "up") /\ ValidRequest(req[r])

(* The type of the process and of the requests, apart.                     *)
LEMMA TypeOKSplits == TypeOK <=> ProcessTyped /\ RequestsTyped
BY DEF TypeOK, ProcessTyped, RequestsTyped, ValidRequest

\* A step of one request leaves the requests well-typed if it leaves that one
\* valid (Patch, admin_settings.go:61-106).
LEMMA OneRequestTyped ==
    ASSUME RequestsTyped, server = "up", server' = server,
           NEW r \in Requests, NEW q \in Request, ValidRequest(q),
           req' = [req EXCEPT ![r] = q]
    PROVE  RequestsTyped'
<1>1. req' \in [Requests -> Request]
  BY DEF RequestsTyped
<1>2. \A o \in Requests : req'[o] = req[o] \/ req'[o] = q
  BY DEF RequestsTyped
<1>3. ASSUME NEW o \in Requests PROVE ValidRequest(req'[o])
  BY <1>2, <1>3 DEF RequestsTyped
<1> QED
  BY <1>1, <1>3 DEF RequestsTyped, ValidRequest

\* A step of a request in progress keeps LoneKnows if it keeps it for that
\* request: no other can be alone beside it.
LEMMA OneRequestLone ==
    ASSUME RequestsTyped, LoneKnows, NEW r \in Requests, NEW q \in Request, Active(r),
           req' = [req EXCEPT ![r] = q],
           q.alone => /\ req[r].alone
                      /\ q.pc \in {"store", "reply"} => q.vals = All'
                      /\ q.pc \in {"answer", "reply"} => snap' = Build(All')
    PROVE  LoneKnows'
<1>1. req'[r] = q /\ \A o \in Requests : o # r => req'[o] = req[o]
  BY DEF RequestsTyped
<1> SUFFICES ASSUME NEW o \in Requests, Active(o)', req'[o].alone
             PROVE  /\ OnlyOne(o)'
                    /\ req'[o].pc \in {"store", "reply"} => req'[o].vals = All'
                    /\ req'[o].pc \in {"answer", "reply"} => snap' = Build(All')
  BY DEF LoneKnows, Build
<1>2. o = r
  BY <1>1 DEF LoneKnows, OnlyOne, Active
<1>3. OnlyOne(r)
  BY <1>1, <1>2 DEF LoneKnows
<1>4. OnlyOne(o)'
  BY <1>1, <1>2, <1>3 DEF OnlyOne, Active
<1> QED
  BY <1>1, <1>2, <1>4

-----------------------------------------------------------------------------
(* Before the first start nothing runs and no request is in progress.      *)
LEMMA InitEstablishesIInv == Init => IInv
<1> SUFFICES ASSUME Init PROVE IInv
  OBVIOUS
<1>1. NoBody \in [{} -> Texts]
  BY DEF NoBody
<1>2. NoRequest \in Request
  BY <1>1 DEF NoRequest, Request
<1>3. ProcessTyped
  BY BoundsAssumption DEF Init, ProcessTyped
<1>4. \A r \in Requests : req[r] = NoRequest
  BY DEF Init
<1>5. NoRequest.pc = "none"
  BY DEF NoRequest
<1>6. RequestsTyped
  BY <1>2, <1>4, <1>5 DEF Init, RequestsTyped, ValidRequest, Active
<1>7. RunningServerReads /\ LoneKnows /\ SeedsUnset
  BY <1>4, <1>5 DEF Init, RunningServerReads, LoneKnows, SeedsUnset, Active
<1> QED
  BY <1>3, <1>6, <1>7, TypeOKSplits DEF IInv

\* While the server is down or starting, no request is in progress; a
\* start-up that leaves the requests alone keeps what they know.
LEMMA StartUpKeeps ==
    ASSUME RequestsTyped, server # "up", req' = req
    PROVE  RequestsTyped' /\ LoneKnows'
<1>1. \A r \in Requests : ~Active(r)
  BY DEF RequestsTyped
<1>2. \A r \in Requests : Active(r)' = Active(r)
  BY DEF Active
<1>3. RequestsTyped'
  BY <1>1, <1>2 DEF RequestsTyped, ValidRequest
<1>4. LoneKnows'
  BY <1>1, <1>2 DEF LoneKnows
<1> QED
  BY <1>3, <1>4

(* A start, with whatever key and environment.                             *)
LEMMA StartPreserves ==
    ASSUME IInv, NEW key \in EncKeys, NEW e \in Envs, Start(key, e)
    PROVE  IInv'
<1> USE TypeOKSplits DEF IInv
<1>1. RequestsTyped' /\ LoneKnows'
  BY StartUpKeeps DEF Start
<1>2. Unseeded(e) \subseteq Keys
  BY DEF Unseeded
<1>3. starts' \in 0 .. MaxStarts
  BY BoundsAssumption DEF Start, ProcessTyped
<1>4. ProcessTyped'
  BY <1>2, <1>3 DEF Start, ProcessTyped
<1>5. RunningServerReads' /\ SeedsUnset'
  BY DEF Start, RunningServerReads, SeedsUnset, Unseeded
<1>6. TypeOK'
  BY <1>1, <1>4, TypeOKSplits DEF TypeOK, ProcessTyped, RequestsTyped, ValidRequest
<1> QED
  BY <1>1, <1>5, <1>6

(* SeedFromEnv writes one key that has no row.                             *)
LEMMA SeedPreserves ==
    ASSUME IInv, NEW k \in Keys, Seed(k)
    PROVE  IInv'
<1>1. TypeOK /\ ProcessTyped /\ RequestsTyped
  BY TypeOKSplits DEF IInv
<1>2. RequestsTyped' /\ LoneKnows'
  BY <1>1, StartUpKeeps DEF Seed
<1>3. encKey \in EncKeys /\ encKey' = encKey
  BY <1>1 DEF Seed, ProcessTyped
<1>4. /\ table' \in [Keys -> Row \cup {Absent}]
      /\ \A o \in Keys : table'[o] # Absent => Valid(o, table'[o].value)
      /\ \A o \in Keys : o # k => table'[o] = table[o]
  BY <1>1, <1>3, SetIsSafe DEF Seed
<1>5. ProcessTyped'
  BY <1>1, <1>4 DEF Seed, ProcessTyped, Valid
<1>6. RunningServerReads'
  BY DEF Seed, RunningServerReads
<1>7. SeedsUnset'
  BY <1>1, <1>4 DEF IInv, Seed, SeedsUnset, ProcessTyped
<1> QED
  BY <1>2, <1>5, <1>6, <1>7 DEF IInv, TypeOK, ProcessTyped, RequestsTyped, ValidRequest

(* Seeding ends, done or at its first error.                               *)
LEMMA SeedEndsPreserves ==
    ASSUME IInv, SeedEnds
    PROVE  IInv'
<1>1. ProcessTyped /\ RequestsTyped
  BY TypeOKSplits DEF IInv
<1>2. RequestsTyped' /\ LoneKnows'
  BY <1>1, StartUpKeeps DEF SeedEnds
<1>3. faults' \in 0 .. MaxFaults
  BY <1>1, BoundsAssumption DEF SeedEnds, Fault, ProcessTyped
<1>4. ProcessTyped'
  BY <1>1, <1>3 DEF SeedEnds, ProcessTyped
<1>5. RunningServerReads' /\ SeedsUnset'
  BY DEF SeedEnds, RunningServerReads, SeedsUnset
<1> QED
  BY <1>2, <1>4, <1>5 DEF IInv, TypeOK, ProcessTyped, RequestsTyped, ValidRequest

(* The server listens with what it could read.                             *)
LEMMA ListenPreserves ==
    ASSUME IInv, Listen
    PROVE  IInv'
<1>1. TypeOK /\ ProcessTyped /\ RequestsTyped
  BY TypeOKSplits DEF IInv
<1>2. RequestsTyped' /\ LoneKnows'
  BY <1>1, StartUpKeeps DEF Listen
<1>3. snap' \in [Keys -> Texts]
  BY <1>1, AllIsValid, BuildIsConfig DEF Listen
<1>4. ProcessTyped'
  BY <1>1, <1>3 DEF Listen, ProcessTyped
<1>5. RunningServerReads' /\ SeedsUnset'
  BY DEF Listen, RunningServerReads, SeedsUnset, Readable, Opens
<1> QED
  BY <1>2, <1>4, <1>5 DEF IInv, TypeOK, ProcessTyped, RequestsTyped, ValidRequest

(* A start that ends in an error.                                          *)
LEMMA ListenFailsPreserves ==
    ASSUME IInv, ListenFails
    PROVE  IInv'
<1>1. ProcessTyped /\ RequestsTyped
  BY TypeOKSplits DEF IInv
<1>2. RequestsTyped' /\ LoneKnows'
  BY <1>1, StartUpKeeps DEF ListenFails
<1>3. faults' \in 0 .. MaxFaults
  BY <1>1, BoundsAssumption DEF ListenFails, Fault, ProcessTyped
<1>4. ProcessTyped'
  BY <1>1, <1>3 DEF ListenFails, ProcessTyped
<1>5. RunningServerReads' /\ SeedsUnset'
  BY DEF ListenFails, RunningServerReads, SeedsUnset
<1> QED
  BY <1>2, <1>4, <1>5 DEF IInv, TypeOK, ProcessTyped, RequestsTyped, ValidRequest

(* A request that has ended is in order.                                   *)
LEMMA EndedIsRequest ==
    ASSUME NEW pc \in {"ok", "bad request", "internal error", "lost"}
    PROVE  /\ Ended(pc) \in Request /\ ValidRequest(Ended(pc))
           /\ Ended(pc).pc = pc /\ Ended(pc).alone = FALSE
<1>1. NoBody \in [{} -> Texts]
  BY DEF NoBody
<1>2. NoRequest \in Request /\ NoRequest.alone = FALSE
  BY <1>1 DEF NoRequest, Request
<1> HIDE DEF NoRequest
<1>3. Ended(pc) \in Request
  BY <1>2 DEF Ended, Request
<1>4. Ended(pc).pc = pc /\ Ended(pc).alone = FALSE
  BY <1>2 DEF Ended, Request
<1> QED
  BY <1>3, <1>4 DEF ValidRequest

(* A crash at any step, of seeding or of a request.                        *)
LEMMA CrashPreserves ==
    ASSUME IInv, Crash
    PROVE  IInv'
<1>1. ProcessTyped /\ RequestsTyped
  BY TypeOKSplits DEF IInv
<1>2. \A r \in Requests : req'[r] = IF Active(r) THEN Ended("lost") ELSE req[r]
  BY DEF Crash
<1>3. \A r \in Requests : ~Active(r)'
  BY <1>2, EndedIsRequest DEF Active
<1>4. RequestsTyped'
  <2>1. req' \in [Requests -> Request]
    BY <1>1, EndedIsRequest DEF Crash, RequestsTyped
  <2>2. \A r \in Requests : ValidRequest(req[r]) /\ ValidRequest(Ended("lost"))
    BY <1>1, EndedIsRequest DEF RequestsTyped
  <2>3. \A r \in Requests : req'[r] = req[r] \/ req'[r] = Ended("lost")
    BY <1>2
  <2>4. \A r \in Requests : ValidRequest(req[r])'
    BY <2>2, <2>3 DEF ValidRequest
  <2> QED
    BY <1>3, <2>1, <2>4 DEF RequestsTyped
<1>5. LoneKnows'
  BY <1>3 DEF LoneKnows
<1>6. ProcessTyped'
  BY <1>1 DEF Crash, ProcessTyped
<1>7. RunningServerReads' /\ SeedsUnset'
  BY DEF Crash, RunningServerReads, SeedsUnset
<1> QED
  BY <1>4, <1>5, <1>6, <1>7 DEF IInv, TypeOK, ProcessTyped, RequestsTyped, ValidRequest

-----------------------------------------------------------------------------
\* What the steps of a request that write no row have in common.
LEMMA QuietStep ==
    ASSUME IInv, Idle, UNCHANGED table, server = "up",
           snap' \in [Keys -> Texts], faults' \in 0 .. MaxFaults,
           RequestsTyped', LoneKnows'
    PROVE  IInv'
<1>1. ProcessTyped /\ RunningServerReads
  BY TypeOKSplits DEF IInv
<1>2. ProcessTyped'
  BY <1>1 DEF Idle, ProcessTyped
<1>3. RunningServerReads' /\ SeedsUnset'
  BY <1>1 DEF Idle, RunningServerReads, Readable, Opens, SeedsUnset
<1> QED
  BY <1>2, <1>3 DEF IInv, TypeOK, ProcessTyped, RequestsTyped, ValidRequest

(* A server that listens keeps its type.                                   *)
LEMMA UpIsTyped ==
    ASSUME TypeOK, server = "up"
    PROVE  /\ ProcessTyped /\ RequestsTyped
           /\ encKey \in EncKeys /\ snap \in [Keys -> Texts] /\ faults \in 0 .. MaxFaults
BY TypeOKSplits DEF ProcessTyped

\* A request in progress is served by a running server.
LEMMA ActiveIsUp ==
    ASSUME TypeOK, NEW r \in Requests, Active(r)
    PROVE  server = "up" /\ req[r] \in Request /\ ValidRequest(req[r])
BY TypeOKSplits DEF RequestsTyped

(* PATCH answers before it writes anything.                                *)
LEMMA RefusePreserves ==
    ASSUME IInv, NEW r \in Requests, NEW body, Refuse(r, body)
    PROVE  IInv'
<1> DEFINE q == Ended("bad request")
<1>1. /\ TypeOK /\ LoneKnows /\ server = "up" /\ server' = server /\ req[r].pc = "none"
      /\ req' = [req EXCEPT ![r] = q] /\ UNCHANGED <<table, snap, faults>> /\ Idle
  BY DEF IInv, Refuse, Idle
<1>2. q \in Request /\ ValidRequest(q) /\ q.pc = "bad request" /\ q.alone = FALSE
  BY EndedIsRequest
<1> HIDE DEF q
<1>3. RequestsTyped /\ snap \in [Keys -> Texts] /\ faults \in 0 .. MaxFaults
  BY <1>1, UpIsTyped
<1>4. RequestsTyped'
  BY <1>1, <1>2, <1>3, OneRequestTyped
<1>5. req'[r] = q /\ \A o \in Requests : o # r => req'[o] = req[o]
  BY <1>1, <1>3 DEF RequestsTyped
<1>6. ASSUME NEW o \in Requests PROVE Active(o)' <=> Active(o)
  <2>1. CASE o = r
    BY <1>1, <1>2, <1>5, <2>1 DEF Active
  <2>2. CASE o # r
    BY <1>5, <2>2 DEF Active
  <2> QED
    BY <2>1, <2>2
<1>7. All' = All
  BY <1>1 DEF All
<1>8. LoneKnows'
  <2> SUFFICES ASSUME NEW o \in Requests, Active(o)', req'[o].alone
               PROVE  /\ OnlyOne(o)'
                      /\ req'[o].pc \in {"store", "reply"} => req'[o].vals = All'
                      /\ req'[o].pc \in {"answer", "reply"} => snap' = Build(All')
    BY DEF LoneKnows, Build
  <2>1. o # r /\ req'[o] = req[o]
    BY <1>2, <1>5
  <2>2. Active(o)
    BY <2>1 DEF Active
  <2>3. OnlyOne(o)'
    BY <1>1, <1>6, <2>1, <2>2 DEF LoneKnows, OnlyOne, Active
  <2> QED
    BY <1>1, <1>7, <2>1, <2>2, <2>3 DEF LoneKnows
<1> QED
  BY <1>1, <1>3, <1>4, <1>8, QuietStep

(* PATCH accepts its body and is alone if no other is in progress.         *)
LEMMA AdmitPreserves ==
    ASSUME IInv, NEW r \in Requests, NEW body \in Bodies, Admit(r, body)
    PROVE  IInv'
<1> DEFINE q == [pc |-> "writing", body |-> body, todo |-> DOMAIN body,
                 vals |-> NULL, alone |-> \A o \in Requests : ~Active(o)]
<1>1. /\ TypeOK /\ LoneKnows /\ server = "up" /\ server' = server
      /\ UNCHANGED <<table, snap, faults>> /\ Idle
      /\ \A k \in DOMAIN body : Validate(k, body[k])
  BY DEF IInv, Admit, Idle
<1>2. RequestsTyped /\ snap \in [Keys -> Texts] /\ faults \in 0 .. MaxFaults
  BY <1>1, UpIsTyped
<1>3. req' = [o \in Requests |-> IF o = r THEN q ELSE [req[o] EXCEPT !.alone = FALSE]]
  BY DEF Admit
<1>4. q \in Request /\ ValidRequest(q)
  <2>1. DOMAIN body \in SUBSET Keys /\ body \in [DOMAIN body -> Texts]
    BY <1>1, ValuesAssumption, BodiesAssumption DEF Validate, Texts
  <2>2. q \in Request
    BY <2>1 DEF Request
  <2>3. \A k \in DOMAIN body : Valid(k, body[k])
    BY <1>1 DEF Validate, Valid
  <2> QED
    BY <2>2, <2>3 DEF ValidRequest
<1>5. q.alone = (\A o \in Requests : ~Active(o)) /\ q.pc = "writing"
  OBVIOUS
<1> HIDE DEF q
<1>6. \A o \in Requests : req[o] \in Request /\ ValidRequest(req[o])
  BY <1>2 DEF RequestsTyped
<1>7. ASSUME NEW o \in Requests, o # r
      PROVE  /\ req'[o] \in Request /\ req'[o].alone = FALSE
             /\ req'[o].pc = req[o].pc /\ req'[o].body = req[o].body
             /\ req'[o].todo = req[o].todo /\ req'[o].vals = req[o].vals
  BY <1>3, <1>6, <1>7 DEF Request
<1>8. \A o \in Requests : ValidRequest(req'[o])
  BY <1>3, <1>4, <1>6, <1>7 DEF ValidRequest
<1>9. RequestsTyped'
  <2>1. \A o \in Requests : req'[o] \in Request
    BY <1>3, <1>4, <1>7
  <2>2. req' \in [Requests -> Request]
    BY <1>3, <2>1
  <2>3. \A o \in Requests : server' = "up" /\ ValidRequest(req[o])'
    BY <1>1, <1>8 DEF ValidRequest
  <2> QED
    BY <2>2, <2>3 DEF RequestsTyped
<1>10. LoneKnows'
  <2> SUFFICES ASSUME NEW o \in Requests, Active(o)', req'[o].alone
               PROVE  /\ OnlyOne(o)'
                      /\ req'[o].pc \in {"store", "reply"} => req'[o].vals = All'
                      /\ req'[o].pc \in {"answer", "reply"} => snap' = Build(All')
    BY DEF LoneKnows, Build
  <2>1. o = r /\ req'[o] = q
    BY <1>3, <1>7
  <2>2. \A p \in Requests : ~Active(p)
    BY <1>5, <2>1
  <2>3. OnlyOne(o)'
    BY <1>7, <2>1, <2>2 DEF OnlyOne, Active
  <2> QED
    BY <1>5, <2>1, <2>3
<1> QED
  BY <1>1, <1>2, <1>9, <1>10, QuietStep

(* PATCH writes one key.                                                   *)
LEMMA WritePreserves ==
    ASSUME IInv, NEW r \in Requests, NEW k \in Keys, Write(r, k)
    PROVE  IInv'
<1> DEFINE q == [req[r] EXCEPT !.todo = @ \ {k}]
<1>1. /\ TypeOK /\ LoneKnows /\ RunningServerReads /\ Active(r)
      /\ req[r].pc = "writing" /\ k \in req[r].todo /\ Set(k, req[r].body[k])
      /\ UNCHANGED <<snap, faults>> /\ Idle
  BY DEF IInv, Write, Active
<1>2. server = "up" /\ req[r] \in Request /\ ValidRequest(req[r])
  BY <1>1, ActiveIsUp
<1>3. ProcessTyped /\ RequestsTyped /\ encKey \in EncKeys
  BY <1>1, <1>2, UpIsTyped
<1>4. k \in DOMAIN req[r].body /\ Validate(k, req[r].body[k])
  BY <1>1, <1>2 DEF ValidRequest, Valid, Validate
<1>5. /\ q \in Request /\ q.pc = "writing" /\ q.body = req[r].body
      /\ q.todo \subseteq req[r].todo /\ q.alone = req[r].alone
  BY <1>1, <1>2 DEF Request
<1>6. req' = [req EXCEPT ![r] = q]
  BY DEF Write
<1> HIDE DEF q
<1>7. ValidRequest(q)
  BY <1>1, <1>2, <1>5 DEF ValidRequest
<1>8. RequestsTyped'
  BY <1>1, <1>2, <1>3, <1>5, <1>6, <1>7, OneRequestTyped DEF Idle
<1>9. LoneKnows'
  BY <1>1, <1>3, <1>5, <1>6, OneRequestLone
<1>10. /\ table' \in [Keys -> Row \cup {Absent}]
       /\ \A o \in Keys : table'[o] # Absent => Valid(o, table'[o].value)
       /\ Readable => Readable'
  BY <1>1, <1>3, <1>4, SetIsSafe DEF Idle
<1>11. ProcessTyped'
  BY <1>1, <1>3, <1>10 DEF Idle, ProcessTyped, Valid
<1>12. RunningServerReads' /\ SeedsUnset'
  BY <1>1, <1>2, <1>10 DEF Idle, RunningServerReads, SeedsUnset
<1> QED
  BY <1>8, <1>9, <1>11, <1>12 DEF IInv, TypeOK, ProcessTyped, RequestsTyped, ValidRequest

\* A step of a request in progress that writes no row.
LEMMA PatchStep ==
    ASSUME IInv, Idle, UNCHANGED table, NEW r \in Requests, Active(r),
           NEW q \in Request, ValidRequest(q), req' = [req EXCEPT ![r] = q],
           snap' \in [Keys -> Texts], faults' \in 0 .. MaxFaults,
           q.alone => /\ req[r].alone
                      /\ q.pc \in {"store", "reply"} => q.vals = All
                      /\ q.pc \in {"answer", "reply"} => snap' = Build(All)
    PROVE  IInv'
<1>1. TypeOK /\ LoneKnows /\ server = "up" /\ server' = server
  BY ActiveIsUp DEF IInv, Idle
<1>2. RequestsTyped
  BY <1>1, UpIsTyped
<1>3. All' = All
  BY DEF All
<1>4. RequestsTyped'
  BY <1>1, <1>2, OneRequestTyped
<1>5. LoneKnows'
  BY <1>1, <1>2, <1>3, OneRequestLone
<1> QED
  BY <1>1, <1>4, <1>5, QuietStep

(* Reload reads the table.                                                 *)
LEMMA ReloadPreserves ==
    ASSUME IInv, NEW r \in Requests, Reload(r)
    PROVE  IInv'
<1> DEFINE q == [req[r] EXCEPT !.pc = "store", !.body = NoBody, !.vals = All]
<1>1. TypeOK /\ Active(r) /\ Idle /\ UNCHANGED <<table, snap, faults>>
  BY DEF IInv, Reload, Active
<1>2. server = "up" /\ req[r] \in Request
  BY <1>1, ActiveIsUp
<1>3. snap \in [Keys -> Texts] /\ faults \in 0 .. MaxFaults
  BY <1>1, <1>2, UpIsTyped
<1>4. All \in [Keys -> Texts] /\ \A k \in Keys : Valid(k, All[k])
  BY <1>1, AllIsValid
<1>5. NoBody \in UNION {[D -> Texts] : D \in SUBSET Keys}
  <2>1. NoBody \in [{} -> Texts]
    BY DEF NoBody
  <2> QED
    BY <2>1
<1>6. q \in Request /\ q.pc = "store" /\ q.vals = All /\ q.alone = req[r].alone
  BY <1>2, <1>4, <1>5 DEF Request
<1>7. req' = [req EXCEPT ![r] = q]
  BY DEF Reload
<1> HIDE DEF q
<1>8. ValidRequest(q)
  BY <1>4, <1>6 DEF ValidRequest
<1> QED
  BY <1>1, <1>3, <1>6, <1>7, <1>8, PatchStep

(* Reload stores what it read.                                             *)
LEMMA StoreSnapshotPreserves ==
    ASSUME IInv, NEW r \in Requests, StoreSnapshot(r)
    PROVE  IInv'
<1> DEFINE q == [req[r] EXCEPT !.pc = "answer", !.vals = NULL]
<1>1. /\ TypeOK /\ LoneKnows /\ Active(r) /\ Idle /\ UNCHANGED <<table, faults>>
      /\ req[r].pc = "store" /\ snap' = Build(req[r].vals)
  BY DEF IInv, StoreSnapshot, Active
<1>2. server = "up" /\ req[r] \in Request /\ ValidRequest(req[r])
  BY <1>1, ActiveIsUp
<1>3. faults \in 0 .. MaxFaults
  BY <1>1, <1>2, UpIsTyped
<1>4. snap' \in [Keys -> Texts]
  BY <1>1, <1>2, BuildIsConfig DEF ValidRequest
<1>5. q \in Request /\ q.pc = "answer" /\ q.alone = req[r].alone
  BY <1>2 DEF Request
<1>6. req' = [req EXCEPT ![r] = q]
  BY DEF StoreSnapshot
<1>7. req[r].alone => snap' = Build(All)
  BY <1>1 DEF LoneKnows
<1> HIDE DEF q
<1>8. ValidRequest(q)
  BY <1>5 DEF ValidRequest
<1> QED
  BY <1>1, <1>3, <1>4, <1>5, <1>6, <1>7, <1>8, PatchStep

(* PATCH reads the table again for its answer.                             *)
LEMMA ReadBackPreserves ==
    ASSUME IInv, NEW r \in Requests, ReadBack(r)
    PROVE  IInv'
<1> DEFINE q == [req[r] EXCEPT !.pc = "reply", !.vals = All]
<1>1. /\ TypeOK /\ LoneKnows /\ Active(r) /\ Idle /\ UNCHANGED <<table, snap, faults>>
      /\ req[r].pc = "answer"
  BY DEF IInv, ReadBack, Active
<1>2. server = "up" /\ req[r] \in Request
  BY <1>1, ActiveIsUp
<1>3. snap \in [Keys -> Texts] /\ faults \in 0 .. MaxFaults
  BY <1>1, <1>2, UpIsTyped
<1>4. All \in [Keys -> Texts] /\ \A k \in Keys : Valid(k, All[k])
  BY <1>1, AllIsValid
<1>5. q \in Request /\ q.pc = "reply" /\ q.vals = All /\ q.alone = req[r].alone
  BY <1>2, <1>4 DEF Request
<1>6. req' = [req EXCEPT ![r] = q]
  BY DEF ReadBack
<1>7. req[r].alone => snap = Build(All)
  BY <1>1 DEF LoneKnows
<1> HIDE DEF q
<1>8. ValidRequest(q)
  BY <1>4, <1>5 DEF ValidRequest
<1> QED
  BY <1>1, <1>3, <1>5, <1>6, <1>7, <1>8, PatchStep

(* PATCH answers.                                                          *)
LEMMA ReplyPreserves ==
    ASSUME IInv, NEW r \in Requests, Reply(r)
    PROVE  IInv'
<1> DEFINE q == Ended("ok")
<1>1. /\ TypeOK /\ Active(r) /\ Idle /\ UNCHANGED <<table, snap, faults>>
      /\ req' = [req EXCEPT ![r] = q]
  BY DEF IInv, Reply, Active
<1>2. q \in Request /\ ValidRequest(q) /\ q.alone = FALSE
  BY EndedIsRequest
<1> HIDE DEF q
<1>3. snap \in [Keys -> Texts] /\ faults \in 0 .. MaxFaults
  BY <1>1, ActiveIsUp, UpIsTyped
<1> QED
  BY <1>1, <1>2, <1>3, PatchStep

(* The store fails PATCH, or it cannot read a secret back.                 *)
LEMMA FailsPreserves ==
    ASSUME IInv, NEW r \in Requests, Fails(r)
    PROVE  IInv'
<1> DEFINE q == Ended("internal error")
<1>1. /\ TypeOK /\ Active(r) /\ Idle /\ UNCHANGED <<table, snap>>
      /\ req' = [req EXCEPT ![r] = q]
  BY DEF IInv, Fails, Active
<1>2. q \in Request /\ ValidRequest(q) /\ q.alone = FALSE
  BY EndedIsRequest
<1> HIDE DEF q
<1>3. snap \in [Keys -> Texts] /\ faults \in 0 .. MaxFaults
  BY <1>1, ActiveIsUp, UpIsTyped
<1>4. (faults < MaxFaults /\ faults' = faults + 1) \/ faults' = faults
  BY DEF Fails, Fault
<1>5. faults' \in 0 .. MaxFaults
  BY <1>3, <1>4, BoundsAssumption
<1> QED
  BY <1>1, <1>2, <1>3, <1>5, PatchStep

-----------------------------------------------------------------------------
(* IInv is inductive.                                                      *)
LEMMA StepPreservesIInv == IInv /\ [Next]_vars => IInv'
<1> SUFFICES ASSUME IInv, [Next]_vars PROVE IInv'
  OBVIOUS
<1>1. ASSUME NEW key \in EncKeys, NEW e \in Envs, Start(key, e) PROVE IInv'
  BY <1>1, StartPreserves
<1>2. ASSUME NEW k \in Keys, Seed(k) PROVE IInv'
  BY <1>2, SeedPreserves
<1>3. CASE SeedEnds
  BY <1>3, SeedEndsPreserves
<1>4. CASE Listen
  BY <1>4, ListenPreserves
<1>5. CASE ListenFails
  BY <1>5, ListenFailsPreserves
<1>6. CASE Crash
  BY <1>6, CrashPreserves
<1>7. ASSUME NEW r \in Requests, Patch(r) PROVE IInv'
  <2>1. ASSUME NEW body \in Bodies, Refuse(r, body) PROVE IInv'
    BY <2>1, RefusePreserves
  <2>2. ASSUME NEW body \in Bodies, Admit(r, body) PROVE IInv'
    BY <2>2, AdmitPreserves
  <2>3. ASSUME NEW k \in Keys, Write(r, k) PROVE IInv'
    BY <2>3, WritePreserves
  <2>4. CASE Reload(r)
    BY <2>4, ReloadPreserves
  <2>5. CASE StoreSnapshot(r)
    BY <2>5, StoreSnapshotPreserves
  <2>6. CASE ReadBack(r)
    BY <2>6, ReadBackPreserves
  <2>7. CASE Reply(r)
    BY <2>7, ReplyPreserves
  <2>8. CASE Fails(r)
    BY <2>8, FailsPreserves
  <2> QED
    BY <1>7, <2>1, <2>2, <2>3, <2>4, <2>5, <2>6, <2>7, <2>8 DEF Patch
<1>8. CASE UNCHANGED vars
  BY <1>8 DEF vars, IInv, TypeOK, Active, RunningServerReads, Readable, Opens,
              LoneKnows, OnlyOne, All, Build, SeedsUnset
<1> QED
  BY <1>1, <1>2, <1>3, <1>4, <1>5, <1>6, <1>7, <1>8 DEF Next, Step, StartUp

\* The inductive invariant, from which the others follow.
THEOREM SettingsInvariant == Spec => []IInv
BY InitEstablishesIInv, StepPreservesIInv, PTL DEF Spec

\* Only validated values are ever stored or served, for any environment.
THEOREM SettingsTyped == Spec => []TypeOK
<1>1. IInv => TypeOK
  BY DEF IInv
<1> QED
  BY <1>1, SettingsInvariant, PTL

\* A running server can decrypt all rows, over any restarts and key changes.
THEOREM RunningServerAlwaysReads == Spec => []RunningServerReads
<1>1. IInv => RunningServerReads
  BY DEF IInv
<1> QED
  BY <1>1, SettingsInvariant, PTL

\* A PATCH nothing overlapped leaves the server running what the table holds.
THEOREM LoneReloadsAreLive == Spec => []LoneReloadIsLive
<1>1. IInv => LoneReloadIsLive
  <2> SUFFICES ASSUME IInv, NEW r \in Requests,
                      req[r].pc \in {"answer", "reply"}, req[r].alone
               PROVE  /\ snap = Build(All)
                      /\ req[r].pc = "reply" =>
                           /\ req[r].vals = All
                           /\ StorageEnabled(snap) = StorageEnabled(req[r].vals)
    BY DEF LoneReloadIsLive
  <2>1. snap = Build(All) /\ (req[r].pc = "reply" => req[r].vals = All)
    BY DEF IInv, LoneKnows, Active
  <2>2. All \in [Keys -> Texts]
    BY AllIsValid DEF IInv
  <2>3. StorageEnabled(Build(All)) = StorageEnabled(All)
    BY <2>2, BuildKeepsStorage
  <2> QED
    BY <2>1, <2>3
<1> QED
  BY <1>1, SettingsInvariant, PTL

\* No start-up changes a row that exists.
THEOREM SeedsNeverOverwrite == Spec => SeedNeverOverwrites
<1>1. ASSUME IInv, [Next]_vars, server # "up", NEW k \in Keys, table[k] # Absent
      PROVE  table'[k] = table[k]
  <2>1. \A r \in Requests : ~Active(r)
    BY <1>1, TypeOKSplits DEF IInv, RequestsTyped
  <2>2. ASSUME NEW o \in Keys, Seed(o) PROVE table'[k] = table[k]
    <3>1. table[o] = Absent /\ o # k
      BY <1>1, <2>2 DEF IInv, Seed, NextToSeed, SeedsUnset
    <3>2. table \in [Keys -> Row \cup {Absent}]
      BY <1>1 DEF IInv, TypeOK
    <3> QED
      BY <2>2, <3>1, <3>2 DEF Seed, Set
  <2>3. ASSUME NEW r \in Requests, Patch(r) PROVE table' = table
    <3>1. req[r].pc \notin {"writing", "store", "answer", "reply"}
      BY <2>1 DEF Active
    <3> QED
      BY <1>1, <2>3, <3>1 DEF Patch, Refuse, Admit, Write, Reload, StoreSnapshot,
                              ReadBack, Reply, Fails
  <2>4. CASE UNCHANGED vars
    BY <2>4 DEF vars
  <2>5. CASE \E key \in EncKeys, e \in Envs : Start(key, e)
    BY <2>5 DEF Start
  <2>6. CASE SeedEnds \/ Listen \/ ListenFails \/ Crash
    BY <2>6 DEF SeedEnds, Listen, ListenFails, Crash
  <2> QED
    BY <1>1, <2>2, <2>3, <2>4, <2>5, <2>6 DEF Next, Step, StartUp
<1>2. IInv /\ [Next]_vars =>
        [server # "up" => \A k \in Keys : table[k] # Absent => table'[k] = table[k]]_vars
  BY <1>1
<1> QED
  BY <1>2, SettingsInvariant, PTL DEF Spec, SeedNeverOverwrites

-----------------------------------------------------------------------------
(* The calls.                                                              *)
Configs == [Keys -> Texts]

CallRecord ==
    [pc : {"none", "stub", "submit", "poll", "wait", "transfer", "done", "failed", "lost"},
     client : {NULL} \cup Configs,
     image : {"none", "placeholder", "temporary", "permanent"},
     by : {NULL} \cup Configs,
     to : {NULL} \cup Configs]

\* The configuration that delivered the image, with which it may be stored.
Paid(c) == c.by \in Configs /\ c.by = c.client /\ FluxEnabled(c.by)

CallOK(c) ==
    /\ c.pc \in {"none", "stub", "submit", "poll", "wait", "failed", "lost"} =>
         c.image = "none" /\ c.by = NULL
    /\ c.pc \in {"submit", "poll", "wait"} => c.client \in Configs /\ FluxEnabled(c.client)
    /\ c.pc = "transfer" => c.image = "temporary" /\ Paid(c)
    /\ c.pc = "done" => c.image # "none"
    /\ c.image = "permanent" =>
         Paid(c) /\ c.to = c.by /\ StorageEnabled(c.to)

CallInv ==
    /\ call \in [Gens -> CallRecord]
    /\ \A g \in Gens : CallOK(call[g])

ServingInv == IInv /\ CallInv

-----------------------------------------------------------------------------
(* A call that has not begun, and one that a crash took, are in order.     *)
LEMMA NoCallIsOK ==
    /\ NoCall \in CallRecord /\ CallOK(NoCall)
    /\ [NoCall EXCEPT !.pc = "lost"] \in CallRecord
    /\ CallOK([NoCall EXCEPT !.pc = "lost"])
<1>1. NoCall \in CallRecord
  BY DEF NoCall, CallRecord
<1>2. NoCall.pc = "none" /\ NoCall.image = "none" /\ NoCall.by = NULL
  BY DEF NoCall
<1>3. CallOK(NoCall)
  BY <1>2 DEF CallOK
<1> DEFINE l == [NoCall EXCEPT !.pc = "lost"]
<1>4. l \in CallRecord /\ l.pc = "lost" /\ l.image = NoCall.image /\ l.by = NoCall.by
  BY <1>1 DEF CallRecord
<1> HIDE DEF l
<1>5. CallOK(l)
  BY <1>2, <1>4 DEF CallOK
<1> QED
  BY <1>1, <1>3, <1>4, <1>5 DEF l

\* A step of one call preserves CallInv if it leaves that call in order.
LEMMA OneCall ==
    ASSUME CallInv, NEW g \in Gens, NEW c \in CallRecord, CallOK(c),
           call' = [call EXCEPT ![g] = c]
    PROVE  CallInv'
<1>1. call' \in [Gens -> CallRecord]
  BY DEF CallInv
<1>2. \A h \in Gens : call'[h] = c \/ call'[h] = call[h]
  BY DEF CallInv
<1>3. \A h \in Gens : CallOK(call'[h])
  BY <1>2 DEF CallInv
<1> QED
  BY <1>1, <1>3 DEF CallInv, CallOK, Paid, FluxEnabled, StorageEnabled

\* Begin takes the snapshot of the moment (generations.go:82).
LEMMA BeginPreserves ==
    ASSUME TypeOK, CallInv, NEW g \in Gens, Begin(g)
    PROVE  CallInv'
<1> DEFINE c == [call[g] EXCEPT !.pc = IF FluxEnabled(snap) THEN "submit" ELSE "stub",
                                !.client = snap]
<1>1. call[g] \in CallRecord /\ CallOK(call[g]) /\ call[g].pc = "none" /\ snap \in Configs
  BY DEF CallInv, Begin, TypeOK, Configs
<1>2. call' = [call EXCEPT ![g] = c]
  BY DEF Begin
<1>3. /\ c \in CallRecord /\ c.client = snap /\ c.image = call[g].image /\ c.by = call[g].by
      /\ c.pc = IF FluxEnabled(snap) THEN "submit" ELSE "stub"
  BY <1>1 DEF CallRecord
<1> HIDE DEF c
<1>4. c.image = "none" /\ c.by = NULL
  BY <1>1, <1>3 DEF CallOK
<1>5. CallOK(c)
  BY <1>1, <1>3, <1>4 DEF CallOK
<1> QED
  BY <1>2, <1>3, <1>5, OneCall

\* A call that has no image yet may end, wait or be polled again.
LEMMA WithoutImage ==
    ASSUME CallInv, NEW g \in Gens,
           call[g].pc \in {"stub", "submit", "poll", "wait"},
           NEW p \in {"poll", "wait", "failed"},
           p = "failed" \/ call[g].pc # "stub",
           call' = [call EXCEPT ![g].pc = p]
    PROVE  CallInv'
<1> DEFINE c == [call[g] EXCEPT !.pc = p]
<1>1. call[g] \in CallRecord /\ CallOK(call[g])
  BY DEF CallInv
<1>2. call' = [call EXCEPT ![g] = c]
  OBVIOUS
<1>3. /\ c \in CallRecord /\ c.pc = p /\ c.client = call[g].client
      /\ c.image = call[g].image /\ c.by = call[g].by
  BY <1>1 DEF CallRecord
<1> HIDE DEF c
<1>4. CallOK(c)
  BY <1>1, <1>3 DEF CallOK
<1> QED
  BY <1>2, <1>3, <1>4, OneCall

\* The image is the work of the configuration the call began with.
LEMMA DeliveredPreserves ==
    ASSUME CallInv, NEW g \in Gens, call[g].pc \in {"submit", "poll"}, call' = Delivered(g)
    PROVE  CallInv'
<1> DEFINE c == [call[g] EXCEPT !.pc = "transfer", !.image = "temporary", !.by = call[g].client]
<1>1. /\ call[g] \in CallRecord
      /\ call[g].client \in Configs /\ FluxEnabled(call[g].client)
  BY DEF CallInv, CallOK
<1>2. call' = [call EXCEPT ![g] = c]
  BY DEF Delivered
<1>3. /\ c \in CallRecord /\ c.pc = "transfer" /\ c.image = "temporary"
      /\ c.by = call[g].client /\ c.client = call[g].client
  BY <1>1 DEF CallRecord
<1> HIDE DEF c
<1>4. CallOK(c)
  BY <1>1, <1>3 DEF CallOK, Paid
<1> QED
  BY <1>2, <1>3, <1>4, OneCall

\* A transfer stores with the same configuration or changes no image.
LEMMA TransferPreserves ==
    ASSUME CallInv, NEW g \in Gens, Transfer(g) \/ TransferFails(g)
    PROVE  CallInv'
<1>1. call[g] \in CallRecord /\ call[g].pc = "transfer" /\ call[g].image = "temporary"
  BY DEF CallInv, CallOK, Transfer, TransferFails
<1>2. Paid(call[g])
  BY <1>1 DEF CallInv, CallOK
<1>3. CASE Transfer(g)
  <2> DEFINE c == [call[g] EXCEPT !.pc = "done", !.image = "permanent", !.to = call[g].client]
  <2>1. call' = [call EXCEPT ![g] = c] /\ StorageEnabled(call[g].client)
    BY <1>3 DEF Transfer
  <2>2. /\ c \in CallRecord /\ c.pc = "done" /\ c.image = "permanent"
        /\ c.to = call[g].client /\ c.by = call[g].by /\ c.client = call[g].client
    BY <1>1 DEF CallRecord
  <2> HIDE DEF c
  <2>3. CallOK(c)
    BY <1>2, <2>1, <2>2 DEF CallOK, Paid
  <2> QED
    BY <2>1, <2>2, <2>3, OneCall
<1>4. CASE TransferFails(g)
  <2> DEFINE c == [call[g] EXCEPT !.pc = "done"]
  <2>1. call' = [call EXCEPT ![g] = c]
    BY <1>4 DEF TransferFails
  <2>2. c \in CallRecord /\ c.pc = "done" /\ c.image = "temporary"
    BY <1>1 DEF CallRecord
  <2> HIDE DEF c
  <2>3. CallOK(c)
    BY <2>2 DEF CallOK
  <2> QED
    BY <2>1, <2>2, <2>3, OneCall
<1> QED
  BY <1>3, <1>4

(* A call without an upstream key.                                         *)
LEMMA StubPreserves ==
    ASSUME CallInv, NEW g \in Gens, StubAnswers(g)
    PROVE  CallInv'
<1> DEFINE c == [call[g] EXCEPT !.pc = "done", !.image = "placeholder"]
<1>1. call[g] \in CallRecord /\ call[g].pc = "stub"
  BY DEF CallInv, StubAnswers
<1>2. c \in CallRecord /\ c.pc = "done" /\ c.image = "placeholder"
  BY <1>1 DEF CallRecord
<1>3. CASE call' = [call EXCEPT ![g].pc = "done", ![g].image = "placeholder"]
  <2>1. call' = [call EXCEPT ![g] = c]
    BY <1>3
  <2> HIDE DEF c
  <2>2. CallOK(c)
    BY <1>2 DEF CallOK
  <2> QED
    BY <1>2, <2>1, <2>2, OneCall
<1>4. CASE call' = [call EXCEPT ![g].pc = "failed"]
  BY <1>1, <1>4, WithoutImage
<1> QED
  BY <1>3, <1>4 DEF StubAnswers

(* A crash takes every call in progress.                                   *)
LEMMA CrashPreservesCalls ==
    ASSUME CallInv, CrashServing
    PROVE  CallInv'
<1> DEFINE l == [NoCall EXCEPT !.pc = "lost"]
<1>0. l \in CallRecord /\ CallOK(l)
  BY NoCallIsOK
<1>1. call' = [g \in Gens |-> IF InProgress(g) THEN l ELSE call[g]]
  BY DEF CrashServing
<1> HIDE DEF l
<1>2. ASSUME NEW g \in Gens PROVE call'[g] \in CallRecord /\ CallOK(call'[g])
  <2>1. call'[g] = l \/ call'[g] = call[g]
    BY <1>1
  <2> QED
    BY <1>0, <2>1 DEF CallInv
<1>3. call' \in [Gens -> CallRecord]
  BY <1>1, <1>2
<1> QED
  BY <1>2, <1>3 DEF CallInv, CallOK, Paid, FluxEnabled, StorageEnabled

-----------------------------------------------------------------------------
\* Composed with calls, Settings behaves as it does alone.
LEMMA ServingStepIsSettingsStep == [ServingNext]_servingVars => [Next]_vars
BY DEF ServingNext, servingVars, CrashServing, Next, vars

(* No call has begun.                                                      *)
LEMMA ServingInitEstablishes == ServingInit => ServingInv
<1> SUFFICES ASSUME ServingInit PROVE ServingInv
  OBVIOUS
<1>1. IInv
  BY InitEstablishesIInv DEF ServingInit
<1>2. CallInv
  BY NoCallIsOK DEF ServingInit, CallInv
<1> QED
  BY <1>1, <1>2 DEF ServingInv

(* ServingInv is inductive.                                                *)
LEMMA ServingStepPreserves == ServingInv /\ [ServingNext]_servingVars => ServingInv'
<1> SUFFICES ASSUME ServingInv, [ServingNext]_servingVars PROVE ServingInv'
  OBVIOUS
<1>1. IInv /\ CallInv /\ TypeOK
  BY DEF ServingInv, IInv
<1>2. IInv'
  BY <1>1, ServingStepIsSettingsStep, StepPreservesIInv
<1>3. ASSUME UNCHANGED call PROVE CallInv'
  BY <1>1, <1>3 DEF CallInv, CallOK, Paid, FluxEnabled, StorageEnabled
<1>4. ASSUME CrashServing PROVE CallInv'
  BY <1>1, <1>4, CrashPreservesCalls
<1>5. ASSUME NEW g \in Gens, Begin(g) \/ Advance(g) \/ Expire(g) PROVE CallInv'
  <2>1. CASE Begin(g)
    BY <1>1, <2>1, BeginPreserves
  <2>2. CASE StubAnswers(g)
    BY <1>1, <2>2, StubPreserves
  <2>3. CASE Submit(g) \/ Poll(g)
    <3>1. call[g].pc \in {"submit", "poll"}
      BY <2>3 DEF Submit, Poll
    <3>2. CASE call' = Delivered(g)
      BY <1>1, <3>1, <3>2, DeliveredPreserves
    <3>3. ASSUME NEW p \in {"poll", "wait", "failed"}, call' = [call EXCEPT ![g].pc = p]
          PROVE  CallInv'
      BY <1>1, <3>1, <3>3, WithoutImage
    <3> QED
      BY <2>3, <3>2, <3>3 DEF Submit, Poll
  <2>4. CASE PollAgain(g)
    BY <1>1, <2>4, WithoutImage DEF PollAgain
  <2>5. CASE Transfer(g) \/ TransferFails(g)
    BY <1>1, <2>5, TransferPreserves
  <2>6. CASE Expire(g)
    BY <1>1, <2>6, WithoutImage DEF Expire
  <2> QED
    BY <1>5, <2>1, <2>2, <2>3, <2>4, <2>5, <2>6 DEF Advance
<1>6. CallInv'
  BY <1>3, <1>4, <1>5 DEF ServingNext, servingVars
<1> QED
  BY <1>2, <1>6 DEF ServingInv

(* The calls and the settings keep their inductive invariant together.     *)
THEOREM ServingInvariant == ServingSpec => []ServingInv
BY ServingInitEstablishes, ServingStepPreserves, PTL DEF ServingSpec

\* A delivered image is never given up, whatever fails or changes meanwhile.
THEOREM DeliveredImagesAreKept == ServingSpec => []DeliveredImageIsKept
<1>1. CallInv => DeliveredImageIsKept
  BY DEF CallInv, CallRecord, CallOK, DeliveredImageIsKept
<1> QED
  BY <1>1, ServingInvariant, PTL DEF ServingInv

\* The configuration that stores an image is the one that paid for it.
THEOREM CallsKeepTheirConfiguration == ServingSpec => []OneConfigurationPerCall
<1>1. CallInv => OneConfigurationPerCall
  BY DEF CallInv, CallOK, Paid, OneConfigurationPerCall
<1> QED
  BY <1>1, ServingInvariant, PTL DEF ServingInv

\* The settings beneath the calls behave as Settings says.
THEOREM ServingRefinesSettings == ServingSpec => Spec
<1>1. ServingInit => Init
  BY DEF ServingInit
<1> QED
  BY <1>1, ServingStepIsSettingsStep, PTL DEF ServingSpec, Spec
=============================================================================
