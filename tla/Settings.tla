------------------------------ MODULE Settings ------------------------------
(***************************************************************************)
(* The settings an operator changes while the server runs: table           *)
(* app_settings behind Store (src/internal/settings/store.go), the         *)
(* snapshot that Runtime serves from (src/internal/settings/runtime.go),   *)
(* the seeding at start-up (src/cmd/server/main.go) and PATCH              *)
(* /admin/settings (src/internal/handler/admin_settings.go).               *)
(*                                                                         *)
(* A PATCH is validated as a whole, then written key by key, each write a  *)
(* commit of its own, and then the whole table is read into a new          *)
(* snapshot, which replaces the old one in a further step. Nothing orders  *)
(* two requests. The process may stop between any two steps, and may be    *)
(* started again with another environment or encryption key.               *)
(***************************************************************************)
EXTENDS Integers, Sequences, FiniteSets

CONSTANTS
    Keys,          \* settings.Specs
    Secrets,       \* the keys whose value is stored encrypted
    EnvKeys,       \* the keys with an EnvVar, in the order of Specs
    FluxKey, BaseURLKey, BonusKey, R2Keys,   \* what Reload uses each key for
    Values, Empty, \* the strings that occur, and the empty string
    Legal,         \* [Keys -> the non-empty values Validate accepts]
    DefaultURL, Zero,  \* the base URL and the bonus of an unset key
    EncKeys,       \* values of CONFIG_ENCRYPTION_KEY
    Envs,          \* environments the process may be started with
    Bodies,        \* JSON objects a client may send
    Requests,      \* PATCH requests
    MaxStarts, MaxFaults,   \* bounds on process starts and failing database calls
    Absent, Plain, NULL

ASSUME KeysAssumption ==
    /\ Secrets \subseteq Keys
    /\ R2Keys \subseteq Keys
    /\ {FluxKey, BaseURLKey, BonusKey} \subseteq Keys
    /\ {FluxKey, BaseURLKey, BonusKey} \cap R2Keys = {}
    /\ BaseURLKey # BonusKey
    /\ EnvKeys \in Seq(Keys)
ASSUME ValuesAssumption ==
    /\ Empty \notin Values
    /\ DefaultURL \in Values /\ Zero \in Values
    /\ Legal \in [Keys -> SUBSET Values]
    /\ Envs \subseteq [Keys -> Values \cup {Empty}]
\* A body is a function from the keys that the client names.
ASSUME BodiesAssumption == \A body \in Bodies : body = [k \in DOMAIN body |-> body[k]]
ASSUME RowsAssumption ==
    /\ Plain \notin EncKeys
    /\ Absent \notin [value : Values \cup {Empty}, sealed : EncKeys \cup {Plain}]
    /\ NULL \notin [Keys -> Values \cup {Empty}]
ASSUME BoundsAssumption == MaxStarts \in Nat /\ MaxFaults \in Nat

VARIABLES
    server,    \* "down", "seeding", "loading" or "up"
    encKey,    \* the running process's encryption key
    env,       \* its environment
    toSeed,    \* the keys SeedFromEnv has yet to write
    table,     \* app_settings: [Keys -> row or Absent]
    snap,      \* Runtime.snap, or NULL before the first Reload
    req,       \* [Requests -> where the request is]
    starts, faults

vars == <<server, encKey, env, toSeed, table, snap, req, starts, faults>>

Texts == Values \cup {Empty}
Row == [value : Texts, sealed : EncKeys \cup {Plain}]
NoBody == [k \in {} |-> Empty]
NoRequest == [pc |-> "none", body |-> NoBody, todo |-> {}, vals |-> NULL, alone |-> FALSE]
Ended(pc) == [NoRequest EXCEPT !.pc = pc]

Init ==
    /\ server = "down"
    /\ encKey = NULL
    /\ env = NULL
    /\ toSeed = {}
    /\ table = [k \in Keys |-> Absent]
    /\ snap = NULL
    /\ req = [r \in Requests |-> NoRequest]
    /\ starts = 0
    /\ faults = 0

-----------------------------------------------------------------------------
(* Store and Runtime.                                                      *)

Validate(k, v) == k \in Keys /\ (v = Empty \/ v \in Legal[k])

\* Store.Set: an empty secret is stored as it is.
Set(k, v) ==
    table' = [table EXCEPT ![k] =
        [value |-> v, sealed |-> IF k \in Secrets /\ v # Empty THEN encKey ELSE Plain]]

\* Decrypt fails on a row that another key has sealed.
Opens(row) == row.sealed \in {Plain, encKey}
Readable == \A k \in Keys : table[k] # Absent => Opens(table[k])

\* What Store.All returns; a key without a row reads as "".
All == [k \in Keys |-> IF table[k] = Absent THEN Empty ELSE table[k].value]

\* The Snapshot Reload builds from what All returned.
Build(vals) ==
    [vals EXCEPT ![BaseURLKey] = IF @ = Empty THEN DefaultURL ELSE @,
                 ![BonusKey] = IF @ \in Legal[BonusKey] THEN @ ELSE Zero]

\* buildFlux and buildStorage fall back when they lack a value.
FluxEnabled(s) == s[FluxKey] # Empty
StorageEnabled(s) == \A k \in R2Keys : s[k] # Empty

\* SeedFromEnv goes through Specs in order.
NextToSeed(k) ==
    /\ k \in toSeed
    /\ \A o \in toSeed : \E i, j \in DOMAIN EnvKeys :
         i <= j /\ EnvKeys[i] = k /\ EnvKeys[j] = o

Unseeded(e) == {k \in Keys : /\ \E i \in DOMAIN EnvKeys : EnvKeys[i] = k
                             /\ table[k] = Absent
                             /\ e[k] # Empty}

Fault == faults < MaxFaults /\ faults' = faults + 1

-----------------------------------------------------------------------------
(* Start-up: seed, build the Runtime, listen.                              *)

\* Bug: a cleared value taken for an unset one.
StartOverCleared(key, e) ==
    /\ server = "down"
    /\ starts < MaxStarts
    /\ starts' = starts + 1
    /\ server' = "seeding"
    /\ encKey' = key
    /\ env' = e
    /\ toSeed' = Unseeded(e) \cup {k \in Keys : table[k] # Absent /\ table[k].value = Empty
                                                /\ \E i \in DOMAIN EnvKeys : EnvKeys[i] = k
                                                /\ e[k] # Empty}
    /\ UNCHANGED <<table, snap, req, faults>>

Start(key, e) ==
    /\ server = "down"
    /\ starts < MaxStarts
    /\ starts' = starts + 1
    /\ server' = "seeding"
    /\ encKey' = key
    /\ env' = e
    /\ toSeed' = Unseeded(e)
    /\ UNCHANGED <<table, snap, req, faults>>

\* Bug: the environment is trusted.
SeedUnvalidated(k) ==
    /\ server = "seeding"
    /\ NextToSeed(k)
    /\ Set(k, env[k])
    /\ toSeed' = toSeed \ {k}
    /\ UNCHANGED <<server, encKey, env, snap, req, starts, faults>>

Seed(k) ==
    /\ server = "seeding"
    /\ NextToSeed(k)
    /\ Validate(k, env[k])
    /\ Set(k, env[k])
    /\ toSeed' = toSeed \ {k}
    /\ UNCHANGED <<server, encKey, env, snap, req, starts, faults>>

\* The seeding ends at the first error, which main only logs.
SeedEnds ==
    /\ server = "seeding"
    /\ \/ /\ \A k \in toSeed : NextToSeed(k) => ~Validate(k, env[k])
          /\ UNCHANGED faults
       \/ Fault
    /\ server' = "loading"
    /\ toSeed' = {}
    /\ UNCHANGED <<encKey, env, table, snap, req, starts>>

\* Bug: rows that cannot be decrypted are skipped.
ListenAnyway ==
    /\ server = "loading"
    /\ snap' = Build([k \in Keys |->
         IF table[k] # Absent /\ Opens(table[k]) THEN table[k].value ELSE Empty])
    /\ server' = "up"
    /\ UNCHANGED <<encKey, env, toSeed, table, req, starts, faults>>

Listen ==
    /\ server = "loading"
    /\ Readable
    /\ snap' = Build(All)
    /\ server' = "up"
    /\ UNCHANGED <<encKey, env, toSeed, table, req, starts, faults>>

\* log.Fatal when NewRuntime fails.
ListenFails ==
    /\ server = "loading"
    /\ \/ ~Readable /\ UNCHANGED faults
       \/ Fault
    /\ server' = "down"
    /\ encKey' = NULL
    /\ env' = NULL
    /\ UNCHANGED <<toSeed, table, snap, req, starts>>

Active(r) == req[r].pc \in {"writing", "store", "answer", "reply"}

Crash ==
    /\ server # "down"
    /\ server' = "down"
    /\ encKey' = NULL
    /\ env' = NULL
    /\ toSeed' = {}
    /\ snap' = NULL
    /\ req' = [r \in Requests |-> IF Active(r) THEN Ended("lost") ELSE req[r]]
    /\ UNCHANGED <<table, starts, faults>>

-----------------------------------------------------------------------------
(* PATCH /admin/settings.                                                  *)

Idle == UNCHANGED <<server, encKey, env, toSeed, starts>>

Refuse(r, body) ==
    /\ server = "up"
    /\ req[r].pc = "none"
    /\ DOMAIN body = {} \/ \E k \in DOMAIN body : ~Validate(k, body[k])
    /\ req' = [req EXCEPT ![r] = Ended("bad request")]
    /\ UNCHANGED <<table, snap, faults>>
    /\ Idle

\* "alone" is kept for the properties: no other request was in progress at
\* any time since this one began.
Admit(r, body) ==
    /\ server = "up"
    /\ req[r].pc = "none"
    /\ DOMAIN body # {}
    /\ \A k \in DOMAIN body : Validate(k, body[k])
    /\ req' = [q \in Requests |->
         IF q = r THEN [pc |-> "writing", body |-> body, todo |-> DOMAIN body,
                        vals |-> NULL, alone |-> \A o \in Requests : ~Active(o)]
         ELSE [req[q] EXCEPT !.alone = FALSE]]
    /\ UNCHANGED <<table, snap, faults>>
    /\ Idle

\* The keys of a Go map come in any order.
Write(r, k) ==
    /\ req[r].pc = "writing"
    /\ k \in req[r].todo
    /\ Set(k, req[r].body[k])
    /\ req' = [req EXCEPT ![r].todo = @ \ {k}]
    /\ UNCHANGED <<snap, faults>>
    /\ Idle

\* Bug: the new snapshot is the old one with the request's changes.
ReloadPatched(r) ==
    /\ req[r].pc = "writing"
    /\ req[r].todo = {}
    /\ req' = [req EXCEPT ![r].pc = "store", ![r].body = NoBody,
         ![r].vals = [k \in Keys |-> IF k \in DOMAIN req[r].body
                                     THEN req[r].body[k] ELSE snap[k]]]
    /\ UNCHANGED <<table, snap, faults>>
    /\ Idle

\* Reload reads the table once all keys are written ...
Reload(r) ==
    /\ req[r].pc = "writing"
    /\ req[r].todo = {}
    /\ Readable
    /\ req' = [req EXCEPT ![r].pc = "store", ![r].body = NoBody, ![r].vals = All]
    /\ UNCHANGED <<table, snap, faults>>
    /\ Idle

\* ... and stores the snapshot it built from what it read.
StoreSnapshot(r) ==
    /\ req[r].pc = "store"
    /\ snap' = Build(req[r].vals)
    /\ req' = [req EXCEPT ![r].pc = "answer", ![r].vals = NULL]
    /\ UNCHANGED <<table, faults>>
    /\ Idle

\* The answer reads the table again, and storageEnabled from the snapshot.
ReadBack(r) ==
    /\ req[r].pc = "answer"
    /\ Readable
    /\ req' = [req EXCEPT ![r].pc = "reply", ![r].vals = All]
    /\ UNCHANGED <<table, snap, faults>>
    /\ Idle

Reply(r) ==
    /\ req[r].pc = "reply"
    /\ req' = [req EXCEPT ![r] = Ended("ok")]
    /\ UNCHANGED <<table, snap, faults>>
    /\ Idle

\* A failing Set or All answers 500 and leaves everything else as it is.
Fails(r) ==
    /\ req[r].pc \in {"writing", "answer"}
    /\ \/ Fault
       \/ /\ req[r].todo = {}
          /\ ~Readable
          /\ UNCHANGED faults
    /\ req' = [req EXCEPT ![r] = Ended("internal error")]
    /\ UNCHANGED <<table, snap>>
    /\ Idle

-----------------------------------------------------------------------------
StartUp == (\E key \in EncKeys, e \in Envs : Start(key, e)) \/ (\E k \in Keys : Seed(k)) \/ SeedEnds \/ Listen

Patch(r) ==
    \/ \E body \in Bodies : Refuse(r, body) \/ Admit(r, body)
    \/ \E k \in Keys : Write(r, k)
    \/ Reload(r) \/ StoreSnapshot(r) \/ ReadBack(r) \/ Reply(r) \/ Fails(r)

\* Every step but Crash, which stops more than this module describes.
Step == StartUp \/ ListenFails \/ \E r \in Requests : Patch(r)

Next == Step \/ Crash

Spec == Init /\ [][Next]_vars

-----------------------------------------------------------------------------
(* Properties.                                                             *)

\* What can be known of a value that went through Validate.
Valid(k, v) == v = Empty \/ v \in Legal[k]

Request == [pc : {"none", "writing", "store", "answer", "reply", "ok",
                  "bad request", "internal error", "lost"},
            body : UNION {[D -> Texts] : D \in SUBSET Keys},
            todo : SUBSET Keys,
            vals : {NULL} \cup [Keys -> Texts],
            alone : BOOLEAN]

\* Every value that is saved, being saved or about to be served is one that
\* Validate accepts for its key, whatever the environment and the clients
\* sent, and the process's own state is there exactly while it runs.
TypeOK ==
    /\ server \in {"down", "seeding", "loading", "up"}
    /\ encKey \in (IF server = "down" THEN {NULL} ELSE EncKeys)
    /\ env \in (IF server = "down" THEN {NULL} ELSE Envs)
    /\ toSeed \subseteq Keys
    /\ table \in [Keys -> Row \cup {Absent}]
    /\ \A k \in Keys : table[k] # Absent => Valid(k, table[k].value)
    /\ snap \in (IF server = "up" THEN [Keys -> Texts] ELSE {NULL})
    /\ req \in [Requests -> Request]
    /\ \A r \in Requests :
         /\ Active(r) => server = "up"
         /\ req[r].pc = "writing" =>
              /\ req[r].todo \subseteq DOMAIN req[r].body
              /\ \A k \in DOMAIN req[r].body : Valid(k, req[r].body[k])
         /\ req[r].pc \in {"store", "reply"} =>
              /\ req[r].vals \in [Keys -> Texts]
              /\ \A k \in Keys : Valid(k, req[r].vals[k])
    /\ starts \in 0 .. MaxStarts /\ faults \in 0 .. MaxFaults

\* A server that listens can decrypt every row there is, so a Reload never
\* fails half-way through the life of a process: NewRuntime has read all rows
\* with the key Set goes on to write with (runtime.go:54-82, main.go:87-90),
\* and what an earlier process sealed with another key keeps the server down.
RunningServerReads == server = "up" => Readable

\* Restarts never undo what an administrator saved: whatever the environment
\* says, a start-up changes no row that exists, not even one that was cleared
\* (store.go:74-105, which says it never overwrites an existing value).
SeedNeverOverwrites ==
    [][server # "up" => \A k \in Keys : table[k] # Absent => table'[k] = table[k]]_vars

\* A PATCH that no other overlapped leaves the server running exactly what
\* the table holds: its own changes, and everything that earlier failed or
\* overlapping requests had written without its becoming effective
\* (admin_settings.go:84-98, runtime.go:62-82).
LoneReloadIsLive ==
    \A r \in Requests :
        req[r].pc \in {"answer", "reply"} /\ req[r].alone =>
            /\ snap = Build(All)
            /\ req[r].pc = "reply" =>
                 req[r].vals = All /\ StorageEnabled(snap) = StorageEnabled(req[r].vals)

=============================================================================
