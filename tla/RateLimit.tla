----------------------------- MODULE RateLimit -----------------------------
(***************************************************************************)
(* The rate limiter in front of registration and login: limiter, allowIP   *)
(* and sweepLocked (src/internal/middleware/ratelimit.go).                 *)
(*                                                                         *)
(* One token bucket per client address, refilled when it is looked at. A   *)
(* request reads the clock BEFORE it waits for the mutex, so requests may  *)
(* be served in another order than that of their readings: time can run    *)
(* backwards for a bucket. Idle buckets are forgotten and start full.      *)
(*                                                                         *)
(* A token is Unit units and a tick of the clock adds Rate of them, which  *)
(* makes the code's floating-point balance an integer. Logging is left out. *)
(***************************************************************************)
EXTENDS Integers, Sequences

CONSTANTS
    Addrs,         \* client addresses (gin's ClientIP)
    Requests,      \* requests that may be in the middleware at a time
    Burst,         \* RATE_LIMIT_BURST, in tokens
    Unit,          \* units that make a token
    Rate,          \* RATE_LIMIT_RPS: units added per tick
    Second,        \* ticks in a second
    TTL,           \* rateLimitIdleTTL, in ticks; also the time between sweeps
    MaxDelay,      \* ticks a request can spend between its reading and the mutex
    MaxTime,       \* bound: ticks of the clock
    MaxArrivals,   \* bound: requests
    NULL

(* RateLimitEnabled: both parameters are positive, or there is no limiter. *)
ASSUME EnabledAssumption == Burst \in Nat \ {0} /\ Rate \in Nat \ {0}
ASSUME ScaleAssumption == Unit \in Nat \ {0} /\ Second \in Nat \ {0}
(* A wait for the mutex is nothing beside the ten minutes of the TTL.      *)
ASSUME TimeAssumption == TTL \in Nat /\ MaxDelay \in Nat /\ 2 * MaxDelay < TTL
ASSUME BoundsAssumption == MaxTime \in Nat /\ MaxArrivals \in Nat
ASSUME NullAssumption == NULL \notin Int

VARIABLES
    now,           \* the clock
    buckets,       \* [Addrs -> bucket, or NoBucket]
    nextSweep,     \* no sweep before this time
    req,           \* [Requests -> address and reading of a request, or Idle]
    arrivals,      \* requests so far
    admitted,      \* [Addrs -> readings of the requests let through, in order]
    promised       \* [Addrs -> when a refused client was led to expect a token, or NULL]

vars == <<now, buckets, nextSweep, req, arrivals, admitted, promised>>

Full == Burst * Unit
NoBucket == [tokens |-> NULL, lastSeen |-> NULL]
Idle == [ip |-> NULL, now |-> NULL]

Init ==
    /\ now = 0
    /\ buckets = [a \in Addrs |-> NoBucket]
    /\ nextSweep = 0
    /\ req = [r \in Requests |-> Idle]
    /\ arrivals = 0
    /\ admitted = [a \in Addrs |-> <<>>]
    /\ promised = [a \in Addrs |-> NULL]

-----------------------------------------------------------------------------
(* The limiter.                                                            *)

(* A faulty SweepLocked forgets every bucket when it sweeps.               *)
SweepLockedAll(t) == [a \in Addrs |-> IF t >= nextSweep THEN NoBucket ELSE buckets[a]]

(* sweepLocked: the buckets left at time t.                                *)
SweepLocked(t) ==
    [a \in Addrs |->
        IF t >= nextSweep /\ buckets[a] # NoBucket /\ t - buckets[a].lastSeen > TTL
        THEN NoBucket ELSE buckets[a]]

(* A faulty Refilled lets an idle bucket grow.                             *)
RefilledUncapped(b, t) ==
    IF b = NoBucket THEN Full ELSE b.tokens + (t - b.lastSeen) * Rate

(* The balance a reading t finds: a new bucket is full, an old one has     *)
(* gained what the time since its last reading brings, or lost it when     *)
(* that reading was later.                                                 *)
Refilled(b, t) ==
    IF b = NoBucket THEN Full
    ELSE LET tokens == b.tokens + (t - b.lastSeen) * Rate
         IN  IF tokens > Full THEN Full ELSE tokens

(* A faulty RetryAfter takes a token for a second.                         *)
RetryAfterPerToken(tokens) ==
    LET seconds == (Unit - tokens) \div Unit IN IF seconds > 1 THEN seconds ELSE 1

(* Seconds until there is a token, rounded down but at least one.          *)
RetryAfter(tokens) ==
    LET seconds == (Unit - tokens) \div (Rate * Second)
    IN  IF seconds > 1 THEN seconds ELSE 1

Earliest(p, t) == IF p = NULL \/ t < p THEN t ELSE p

(* A request reads the clock.                                              *)
Arrive(r, a) ==
    /\ req[r] = Idle /\ arrivals < MaxArrivals
    /\ req' = [req EXCEPT ![r] = [ip |-> a, now |-> now]]
    /\ arrivals' = arrivals + 1
    /\ UNCHANGED <<now, buckets, nextSweep, admitted, promised>>

(* The rest of allowIP, which holds the mutex. Whoever is refused is told  *)
(* to wait RetryAfter seconds; one second more makes up for the rounding.  *)
AllowIP(r) ==
    LET a == req[r].ip
        t == req[r].now
        swept == SweepLocked(t)
        tokens == Refilled(swept[a], t)
        ok == tokens >= Unit
        Bucket(n) == [tokens |-> n, lastSeen |-> t]
    IN  /\ req[r] # Idle
        /\ buckets' = [swept EXCEPT ![a] = Bucket(IF ok THEN tokens - Unit ELSE tokens)]
        /\ nextSweep' = IF t >= nextSweep THEN t + TTL ELSE nextSweep
        /\ req' = [req EXCEPT ![r] = Idle]
        /\ admitted' = [admitted EXCEPT ![a] = IF ok THEN Append(@, t) ELSE @]
        /\ promised' = [promised EXCEPT ![a] =
                IF ok THEN NULL ELSE Earliest(@, t + (RetryAfter(tokens) + 1) * Second)]
        /\ UNCHANGED <<now, arrivals>>

(* Time passes; nobody waits for the mutex longer than MaxDelay.           *)
Tick ==
    /\ now < MaxTime
    /\ \A r \in Requests : req[r] # Idle => now - req[r].now < MaxDelay
    /\ now' = now + 1
    /\ UNCHANGED <<buckets, nextSweep, req, arrivals, admitted, promised>>

Next ==
    \/ \E r \in Requests : AllowIP(r) \/ \E a \in Addrs : Arrive(r, a)
    \/ Tick

Spec == Init /\ [][Next]_vars

-----------------------------------------------------------------------------
(* Properties                                                              *)

(* Every variable has its type, and no bucket holds more than Burst.       *)
TypeOK ==
    /\ now \in Nat /\ nextSweep \in Nat /\ arrivals \in Nat
    /\ \A a \in Addrs : buckets[a] # NoBucket =>
          buckets[a].tokens \in Int /\ buckets[a].tokens <= Full /\ buckets[a].lastSeen \in Nat
    /\ \A r \in Requests : req[r] # Idle => req[r].ip \in Addrs /\ req[r].now \in Nat
    /\ \A a \in Addrs : admitted[a] \in Seq(Nat) /\ promised[a] \in Int \cup {NULL}

(* Rates, no lower than the configured one, at which a bucket fills before *)
(* it can be forgotten. Where the settings are such, Rate itself is one;   *)
(* where they are not (nothing compares RATE_LIMIT_RPS and _BURST with the *)
(* TTL), the least is about Burst per TTL: forgetting refills faster.      *)
SustainedRates == {rate \in Rate .. Rate + Full : Full <= rate * (TTL - 2 * MaxDelay)}

(* What the limiter is for, under any settings: between any two requests   *)
(* it lets through, an address gets no more than Burst tokens and what a   *)
(* sustained rate brings in the time between their readings. Readings      *)
(* served out of order (allowIP, the clock before the mutex) add nothing   *)
(* to that at the configured rate; at a higher one they hide, at most,     *)
(* what that rate brings more in the time a request can be late.           *)
AdmissionBound ==
    \A rate \in SustainedRates, a \in Addrs : \A i, j \in DOMAIN admitted[a] :
        i <= j => (j - i + 1) * Unit <= Full + rate * (admitted[a][j] - admitted[a][i])
                                             + (rate - Rate) * MaxDelay

(* A refused client that waits for Retry-After and one second more is let  *)
(* through, if its address was let through nothing else meanwhile,         *)
(* whatever other requests were refused, reordered or swept meanwhile.     *)
PromiseStep ==
    \A r \in Requests :
        LET a == req[r].ip
        IN  /\ req[r] # Idle /\ req'[r] = Idle
            /\ promised[a] # NULL /\ req[r].now >= promised[a]
            => Len(admitted'[a]) = Len(admitted[a]) + 1

RetryAfterIsKept == [][PromiseStep]_vars
=============================================================================
