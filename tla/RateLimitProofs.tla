-------------------------- MODULE RateLimitProofs --------------------------
(***************************************************************************)
(* What the rate limiter guarantees for any addresses, burst, rate, times  *)
(* and number of concurrent requests: the bound on what an address is let  *)
(* through, and that Retry-After is enough.                                *)
(***************************************************************************)
EXTENDS RateLimit, TLAPS

Bucket == [tokens : Int, lastSeen : Nat]
Request == [ip : Addrs, now : Nat]

TypeInv ==
    /\ now \in Nat /\ nextSweep \in Nat /\ arrivals \in Nat
    /\ buckets \in [Addrs -> Bucket \cup {NoBucket}]
    /\ req \in [Requests -> Request \cup {Idle}]
    /\ admitted \in [Addrs -> Seq(Nat)]
    /\ promised \in [Addrs -> Int \cup {NULL}]

(* A reading is in the past, by MaxDelay at most.                          *)
Timely == \A r \in Requests : req[r] # Idle => req[r].now <= now /\ now <= req[r].now + MaxDelay

(* A bucket's debt is what time will have brought by now, so that a bucket *)
(* served out of order never owes more than MaxDelay brings.               *)
BalanceOK(b, time) ==
    b # NoBucket =>
        /\ b.lastSeen <= time
        /\ b.tokens <= Full
        /\ 0 <= b.tokens + Rate * MaxDelay
        /\ 0 <= b.tokens + Rate * (time - b.lastSeen)

(* The latest reading that may have been served when a bucket's own is     *)
(* lastSeen.                                                               *)
Horizon(b, time) == IF time <= b.lastSeen + MaxDelay THEN time ELSE b.lastSeen + MaxDelay

(* What was let through since the reading adm[i], with what the bucket     *)
(* will hold at its horizon, is what `rate` brings until then; and once    *)
(* the bucket is forgotten, even the first Burst tokens are paid for.      *)
WindowOK(rate, b, adm, time) ==
    \A i \in 1 .. Len(adm) :
        /\ b # NoBucket =>
              (Len(adm) - i + 1) * Unit + (b.tokens + Rate * (Horizon(b, time) - b.lastSeen))
                  <= Full + rate * (Horizon(b, time) - adm[i])
        /\ b = NoBucket =>
              (Len(adm) - i + 1) * Unit + Rate * MaxDelay <= rate * (time - adm[i])

(* By the time that was promised the bucket holds a token.                 *)
PromiseOK(b, p) == b # NoBucket /\ p # NULL => Unit <= b.tokens + Rate * (p - b.lastSeen)

Balances == \A a \in Addrs : BalanceOK(buckets[a], now)
Windows == \A rate \in SustainedRates, a \in Addrs : WindowOK(rate, buckets[a], admitted[a], now)
Promises == \A a \in Addrs : PromiseOK(buckets[a], promised[a])

IInv == TypeInv /\ Timely /\ Balances /\ Windows /\ AdmissionBound /\ Promises

-----------------------------------------------------------------------------
(* Constants and arithmetic                                                *)

(* The types of the parameters; a bucket holds at least one token.         *)
LEMMA Parameters ==
    /\ Burst \in Nat /\ Unit \in Nat /\ Rate \in Nat /\ Second \in Nat
    /\ Unit > 0 /\ Rate > 0 /\ Second > 0
    /\ TTL \in Nat /\ MaxDelay \in Nat
    /\ Full \in Nat /\ Unit <= Full
<1>1. /\ Burst \in Nat \ {0} /\ Rate \in Nat \ {0} /\ Unit \in Nat \ {0} /\ Second \in Nat \ {0}
      /\ TTL \in Nat /\ MaxDelay \in Nat
  BY EnabledAssumption, ScaleAssumption, TimeAssumption
<1>2. \A m, n \in Nat \ {0} : m * n \in Nat /\ n <= m * n
  <2> SUFFICES ASSUME NEW m \in Nat \ {0}, NEW n \in Nat \ {0} PROVE m * n \in Nat /\ n <= m * n
    OBVIOUS
  <2>1. m * n \in Nat
    OBVIOUS
  <2>2. (m - 1) * n >= 0
    OBVIOUS
  <2>3. (m - 1) * n = m * n - n
    OBVIOUS
  <2> QED BY <2>1, <2>2, <2>3
<1>3. Full \in Nat /\ Unit <= Full
  BY <1>1, <1>2 DEF Full
<1> QED BY <1>1, <1>3

(* A sustained rate is no lower than the configured one, and fills a       *)
(* bucket before it is forgotten.                                          *)
LEMMA SustainedRate ==
    ASSUME NEW rate \in SustainedRates
    PROVE  rate \in Nat /\ Rate <= rate /\ Full <= rate * (TTL - 2 * MaxDelay)
BY Parameters DEF SustainedRates

(* Whatever the settings, some rate is sustained: the bound is never void. *)
LEMMA SomeRateIsSustained == Rate + Full \in SustainedRates
<1> DEFINE high == Rate + Full
           idle == TTL - 2 * MaxDelay
<1>1. high \in Nat /\ Full <= high /\ idle \in Nat /\ 1 <= idle /\ high \in Rate .. Rate + Full
  BY Parameters, TimeAssumption
<1> HIDE DEF high, idle
<1>2. high * (idle - 1) >= 0 /\ high * (idle - 1) = high * idle - high /\ high * idle \in Int
  BY <1>1
<1>3. Full <= high * idle
  BY <1>1, <1>2, Parameters
<1> QED BY <1>1, <1>3 DEF high, idle, SustainedRates

(* More time brings no less, at any rate.                                  *)
LEMMA Monotone ==
    ASSUME NEW k \in Nat, NEW x \in Int, NEW y \in Int, x <= y
    PROVE  k * x \in Int /\ k * y \in Int /\ k * x <= k * y
<1>1. k * (y - x) >= 0
  OBVIOUS
<1>2. k * (y - x) = k * y - k * x
  OBVIOUS
<1> QED BY <1>1, <1>2

(* A higher rate brings no less, in any time.                              *)
LEMMA FasterBringsMore ==
    ASSUME NEW k \in Nat, NEW m \in Nat, k <= m, NEW x \in Nat
    PROVE  k * x \in Int /\ m * x \in Int /\ k * x <= m * x
<1>1. (m - k) * x >= 0
  OBVIOUS
<1>2. (m - k) * x = m * x - k * x
  OBVIOUS
<1> QED BY <1>1, <1>2

(* What two stretches of time bring together.                              *)
LEMMA Adds ==
    ASSUME NEW k \in Nat, NEW x \in Int, NEW y \in Int
    PROVE  k * (x + y) = k * x + k * y /\ k * x \in Int /\ k * y \in Int
OBVIOUS

(* The same of the configured rate.                                        *)
LEMMA RateMonotone ==
    ASSUME NEW x \in Int, NEW y \in Int, x <= y
    PROVE  Rate * x \in Int /\ Rate * y \in Int /\ Rate * x <= Rate * y
BY Parameters, Monotone

LEMMA RateAdds ==
    ASSUME NEW x \in Int, NEW y \in Int
    PROVE  Rate * (x + y) = Rate * x + Rate * y
BY Parameters, Adds

-----------------------------------------------------------------------------
(* One bucket                                                              *)

(* A bucket's horizon lies between its reading and the clock, and there    *)
(* the bucket is out of debt.                                              *)
LEMMA HorizonFacts ==
    ASSUME NEW b \in Bucket, NEW time \in Nat, b # NoBucket, BalanceOK(b, time)
    PROVE  /\ Horizon(b, time) \in Nat
           /\ b.lastSeen <= Horizon(b, time) /\ Horizon(b, time) <= time
           /\ Horizon(b, time) <= b.lastSeen + MaxDelay
           /\ 0 <= b.tokens + Rate * (Horizon(b, time) - b.lastSeen)
<1> DEFINE last == b.lastSeen
<1>1. /\ last \in Nat /\ MaxDelay \in Nat /\ last <= time
      /\ 0 <= b.tokens + Rate * MaxDelay /\ 0 <= b.tokens + Rate * (time - last)
  BY Parameters DEF BalanceOK, Bucket
<1>2. CASE time <= last + MaxDelay
  <2>1. Horizon(b, time) = time
    BY <1>2 DEF Horizon
  <2> QED BY <1>1, <1>2, <2>1
<1>3. CASE ~(time <= last + MaxDelay)
  <2>1. Horizon(b, time) = last + MaxDelay
    BY <1>3 DEF Horizon
  <2> HIDE DEF last
  <2>2. (last + MaxDelay) - last = MaxDelay /\ last + MaxDelay \in Nat /\ last + MaxDelay <= time
    BY <1>1, <1>3
  <2> QED BY <1>1, <2>1, <2>2 DEF last
<1> QED BY <1>2, <1>3

(* What a forgotten bucket let through is paid for at a sustained rate,    *)
(* Burst included, by the reading that forgets it, however late that       *)
(* reading and the bucket's own were.                                      *)
LEMMA ForgettingIsSafe ==
    ASSUME NEW rate \in SustainedRates,
           NEW b \in Bucket, NEW adm \in Seq(Nat), NEW t \in Nat, NEW time \in Nat,
           t <= time, t - b.lastSeen > TTL, b # NoBucket,
           BalanceOK(b, time), WindowOK(rate, b, adm, time)
    PROVE  WindowOK(rate, NoBucket, adm, time)
<1> SUFFICES ASSUME NEW i \in 1 .. Len(adm)
             PROVE  (Len(adm) - i + 1) * Unit + Rate * MaxDelay <= rate * (time - adm[i])
  BY DEF WindowOK
<1> DEFINE last == b.lastSeen
           h == Horizon(b, time)
           owed == (Len(adm) - i + 1) * Unit
           left == b.tokens + Rate * (h - last)
           old == h - adm[i]
           idle == TTL - 2 * MaxDelay
           since == time - adm[i]
<1>1. /\ b.tokens \in Int /\ last \in Nat /\ adm[i] \in Nat /\ owed \in Int
      /\ h \in Nat /\ h <= last + MaxDelay /\ 0 <= left
  <2>1. b.tokens \in Int /\ last \in Nat
    BY DEF Bucket
  <2>2. h \in Nat /\ h <= last + MaxDelay /\ 0 <= left
    BY HorizonFacts
  <2>3. adm[i] \in Nat /\ owed \in Int
    BY Parameters
  <2> HIDE DEF h, last, left, owed
  <2> QED BY <2>1, <2>2, <2>3
<1>2. owed + left <= Full + rate * old
  BY DEF WindowOK
<1>3. rate \in Nat /\ Rate <= rate /\ Full <= rate * idle /\ Full \in Nat
  BY SustainedRate, Parameters
<1>4. old \in Int /\ idle \in Int /\ since \in Int /\ (old + idle) + MaxDelay <= since
  <2>1. last + TTL < time /\ TTL \in Nat /\ MaxDelay \in Nat
    <3>1. TTL \in Nat /\ MaxDelay \in Nat /\ t - last > TTL /\ last \in Nat
      BY <1>1, TimeAssumption
    <3> HIDE DEF last
    <3> QED BY <3>1
  <2>2. \A l, g, x, w, m \in Int : l + m < time /\ g <= l + w =>
            ((g - x) + (m - 2 * w)) + w <= time - x
    OBVIOUS
  <2> HIDE DEF last, h
  <2>3. ((h - adm[i]) + (TTL - 2 * MaxDelay)) + MaxDelay <= time - adm[i]
    <3>1. adm[i] \in Int /\ last \in Int /\ h \in Int /\ time \in Int
          /\ TTL \in Int /\ MaxDelay \in Int /\ h <= last + MaxDelay
      BY <1>1, <2>1
    <3> QED BY <2>1, <2>2, <3>1
  <2>4. h - adm[i] \in Int /\ TTL - 2 * MaxDelay \in Int /\ time - adm[i] \in Int
    BY <1>1, <2>1
  <2> QED BY <2>3, <2>4
<1>5. left \in Int
  <2> HIDE DEF h, last
  <2> QED BY <1>1, Parameters
<1> DEFINE x == rate * old
           y == rate * idle
           z == rate * MaxDelay
           w == rate * since
           d == Rate * MaxDelay
<1> HIDE DEF last, h, old, idle, since, owed, left
<1>6. x + y + z <= w /\ x \in Int /\ y \in Int /\ z \in Int /\ w \in Int
  <2>1. rate * ((old + idle) + MaxDelay) <= w /\ w \in Int
    BY <1>3, <1>4, Parameters, Monotone
  <2>2. rate * ((old + idle) + MaxDelay) = rate * (old + idle) + z /\ z \in Int
    BY <1>3, <1>4, Parameters, Adds
  <2>3. rate * (old + idle) = x + y /\ x \in Int /\ y \in Int
    BY <1>3, <1>4, Adds
  <2> HIDE DEF x, y, z, w
  <2> QED BY <2>1, <2>2, <2>3
<1>7. d <= z /\ d \in Int
  BY <1>3, Parameters, FasterBringsMore
<1>8. owed + left <= Full + x /\ Full <= y
  BY <1>2, <1>3
<1> HIDE DEF x, y, z, w, d
<1>9. owed + d <= w
  BY <1>1, <1>3, <1>5, <1>6, <1>7, <1>8
<1> QED BY <1>9 DEF owed, d, w, since

(* The balance a reading finds: what the bucket held and what the time     *)
(* since brings, or less.                                                  *)
LEMMA RefilledEffect ==
    ASSUME NEW b \in Bucket \cup {NoBucket}, NEW t \in Nat
    PROVE  /\ Refilled(b, t) \in Int /\ Refilled(b, t) <= Full
           /\ b = NoBucket => Refilled(b, t) = Full
           /\ b # NoBucket => /\ b.tokens \in Int /\ b.lastSeen \in Nat
                              /\ Rate * (t - b.lastSeen) \in Int
                              /\ Refilled(b, t) <= b.tokens + Rate * (t - b.lastSeen)
                              /\ Refilled(b, t) < Full =>
                                     Refilled(b, t) = b.tokens + Rate * (t - b.lastSeen)
                              /\ \/ Refilled(b, t) = Full
                                 \/ Refilled(b, t) = b.tokens + Rate * (t - b.lastSeen)
<1>1. CASE b = NoBucket
  BY <1>1, Parameters DEF Refilled
<1>2. CASE b # NoBucket
  <2>1. b.tokens \in Int /\ b.lastSeen \in Nat
    BY <1>2 DEF Bucket
  <2>2. (t - b.lastSeen) * Rate = Rate * (t - b.lastSeen) /\ Rate * (t - b.lastSeen) \in Int
    BY <2>1, Parameters
  <2>3. Refilled(b, t) = IF b.tokens + Rate * (t - b.lastSeen) > Full THEN Full
                         ELSE b.tokens + Rate * (t - b.lastSeen)
    BY <1>2, <2>2 DEF Refilled
  <2> HIDE DEF Refilled
  <2> QED BY <1>2, <2>1, <2>2, <2>3, Parameters
<1> QED BY <1>1, <1>2

(* The bucket a request leaves, and the readings let through.              *)
Served(b, t) ==
    [tokens |-> IF Refilled(b, t) >= Unit THEN Refilled(b, t) - Unit ELSE Refilled(b, t),
     lastSeen |-> t]

Through(b, t, adm) == IF Refilled(b, t) >= Unit THEN Append(adm, t) ELSE adm

(* What a request leaves of its bucket is a bucket.                        *)
LEMMA ServedType ==
    ASSUME NEW b \in Bucket \cup {NoBucket}, NEW t \in Nat
    PROVE  Served(b, t) \in Bucket /\ Served(b, t) # NoBucket
<1>1. Refilled(b, t) \in Int
  BY RefilledEffect
<1>2. Served(b, t) \in Bucket
  BY <1>1, Parameters DEF Served, Bucket
<1>3. Served(b, t).lastSeen = t /\ NoBucket.lastSeen = NULL /\ t # NULL
  BY NullAssumption DEF Served, NoBucket
<1> QED BY <1>2, <1>3

(* A served bucket owes no more than the reading is late.                  *)
LEMMA ServedBalance ==
    ASSUME NEW b \in Bucket \cup {NoBucket}, NEW t \in Nat, NEW time \in Nat,
           t <= time, time <= t + MaxDelay, BalanceOK(b, time)
    PROVE  BalanceOK(Served(b, t), time)
<1> DEFINE f == Refilled(b, t)
           n == Served(b, t).tokens
<1>1. f \in Int /\ f <= Full /\ n = (IF f >= Unit THEN f - Unit ELSE f) /\ Served(b, t).lastSeen = t
  BY RefilledEffect DEF Served
<1>2. /\ Rate * (time - t) \in Int /\ 0 <= Rate * (time - t)
      /\ Rate * MaxDelay \in Int /\ Rate * (time - t) <= Rate * MaxDelay
  <2>1. Rate * 0 = 0 /\ time - t \in Int /\ 0 <= time - t /\ time - t <= MaxDelay
    BY Parameters
  <2> QED BY <2>1, RateMonotone, Parameters
<1>3. 0 <= f + Rate * (time - t)
  <2>1. ASSUME f = Full PROVE 0 <= f + Rate * (time - t)
    BY <2>1, <1>2, Parameters
  <2>2. ASSUME b # NoBucket, f = b.tokens + Rate * (t - b.lastSeen)
        PROVE  0 <= f + Rate * (time - t)
    <3>1. b.tokens \in Int /\ b.lastSeen \in Nat
      BY <2>2, RefilledEffect
    <3>2. Rate * (time - b.lastSeen) = Rate * (t - b.lastSeen) + Rate * (time - t)
      <4>1. time - b.lastSeen = (t - b.lastSeen) + (time - t)
        BY <3>1
      <4>2. t - b.lastSeen \in Int /\ time - t \in Int
        BY <3>1
      <4>3. Rate * ((t - b.lastSeen) + (time - t)) = Rate * (t - b.lastSeen) + Rate * (time - t)
        BY <4>2, RateAdds
      <4> QED BY <4>1, <4>3
    <3>3. 0 <= b.tokens + Rate * (time - b.lastSeen)
      BY <2>2 DEF BalanceOK
    <3>4. Rate * (t - b.lastSeen) \in Int
      BY <2>2, RefilledEffect
    <3> HIDE DEF f
    <3> QED BY <1>1, <1>2, <2>2, <3>1, <3>2, <3>3, <3>4
  <2> QED BY <2>1, <2>2, RefilledEffect
<1> HIDE DEF f, n
<1>4. n \in Int /\ n <= Full /\ 0 <= n + Rate * (time - t) /\ 0 <= n + Rate * MaxDelay
  BY <1>1, <1>2, <1>3, Parameters
<1> QED BY <1>1, <1>4 DEF BalanceOK, n

(* What a reading finds, and what time brings until the clock, is what the *)
(* time until then brings less what was let through.                       *)
LEMMA RefilledWindow ==
    ASSUME NEW rate \in SustainedRates,
           NEW b \in Bucket \cup {NoBucket}, NEW t \in Nat, NEW time \in Nat,
           NEW adm \in Seq(Nat), t <= time, time <= t + MaxDelay,
           BalanceOK(b, time), WindowOK(rate, b, adm, time)
    PROVE  \A i \in 1 .. Len(adm) :
              (Len(adm) - i + 1) * Unit + (Refilled(b, t) + Rate * (time - t))
                  <= Full + rate * (time - adm[i])
<1> SUFFICES ASSUME NEW i \in 1 .. Len(adm)
             PROVE  (Len(adm) - i + 1) * Unit + (Refilled(b, t) + Rate * (time - t))
                        <= Full + rate * (time - adm[i])
  OBVIOUS
<1> DEFINE owed == (Len(adm) - i + 1) * Unit
           f == Refilled(b, t)
           x == adm[i]
           gain == rate * (time - x)
           late == Rate * (time - t)
<1>1. /\ x \in Nat /\ Len(adm) \in Nat /\ i \in Nat
      /\ rate \in Nat /\ Rate \in Nat /\ Rate <= rate
  BY SustainedRate, Parameters
<1>2. owed \in Int /\ gain \in Int /\ late \in Int /\ f \in Int /\ f <= Full /\ Full \in Int
  <2>1. owed \in Int /\ gain \in Int /\ late \in Int /\ Full \in Int
    <3> HIDE DEF x
    <3> QED BY <1>1, Parameters
  <2>2. f \in Int /\ f <= Full
    BY RefilledEffect
  <2> QED BY <2>1, <2>2
<1>3. ASSUME b = NoBucket PROVE owed + (f + late) <= Full + gain
  <2> DEFINE d == Rate * MaxDelay
  <2>1. owed + d <= gain
    BY <1>3 DEF WindowOK
  <2>2. late <= d /\ d \in Int
    <3>1. time - t \in Int /\ MaxDelay \in Int /\ time - t <= MaxDelay
      BY Parameters
    <3> QED BY <3>1, RateMonotone
  <2> HIDE DEF owed, f, late, gain, d
  <2> QED BY <1>2, <2>1, <2>2
<1>4. ASSUME b # NoBucket PROVE owed + (f + late) <= Full + gain
  <2> DEFINE y == b.tokens
             last == b.lastSeen
             h == Horizon(b, time)
             before == Rate * (h - last)
             older == rate * (h - x)
             slow == Rate * (time - h)
             fast == rate * (time - h)
             after == Rate * (t - last)
  <2>1. y \in Int /\ last \in Nat /\ after \in Int /\ f <= y + after
    BY <1>4, RefilledEffect
  <2>2. h \in Nat /\ h <= time
    BY <1>4, HorizonFacts
  <2>3. owed + (y + before) <= Full + older
    BY <1>4 DEF WindowOK
  <2> HIDE DEF x, last, h
  <2>4. after + late = before + slow /\ before \in Int /\ slow \in Int
    <3>1. /\ (t - last) + (time - t) = (h - last) + (time - h)
          /\ t - last \in Int /\ time - t \in Int /\ h - last \in Int /\ time - h \in Int
      BY <2>1, <2>2
    <3>2. Rate * ((t - last) + (time - t)) = after + late
      BY <1>1, <3>1, Adds
    <3>3. Rate * ((h - last) + (time - h)) = before + slow /\ before \in Int /\ slow \in Int
      BY <1>1, <3>1, Adds
    <3> QED BY <3>1, <3>2, <3>3
  <2>5. gain = older + fast /\ older \in Int /\ fast \in Int
    <3>1. time - x = (h - x) + (time - h) /\ h - x \in Int /\ time - h \in Int
      BY <1>1, <2>2
    <3>2. rate * ((h - x) + (time - h)) = older + fast /\ older \in Int /\ fast \in Int
      BY <1>1, <3>1, Adds
    <3> QED BY <3>1, <3>2
  <2>6. slow <= fast
    <3>1. time - h \in Nat
      BY <2>2
    <3> QED BY <1>1, <3>1, FasterBringsMore
  <2> HIDE DEF owed, f, late, gain, y, before, older, slow, fast, after
  <2> QED BY <1>2, <2>1, <2>3, <2>4, <2>5, <2>6
<1> QED BY <1>3, <1>4

(* Serving a request keeps the windows of its address.                     *)
LEMMA ServedWindow ==
    ASSUME NEW rate \in SustainedRates,
           NEW b \in Bucket \cup {NoBucket}, NEW t \in Nat, NEW time \in Nat,
           NEW adm \in Seq(Nat), t <= time, time <= t + MaxDelay,
           BalanceOK(b, time), WindowOK(rate, b, adm, time)
    PROVE  WindowOK(rate, Served(b, t), Through(b, t, adm), time)
<1> DEFINE f == Refilled(b, t)
           n == Len(adm)
           m == Served(b, t).tokens
           late == Rate * (time - t)
           adm2 == Through(b, t, adm)
<1>1. /\ f \in Int /\ f <= Full /\ n \in Nat /\ Unit \in Nat /\ Full \in Nat
      /\ rate \in Nat /\ Rate \in Nat /\ Rate <= rate /\ late \in Int
  <2>1. f \in Int /\ f <= Full
    BY RefilledEffect
  <2>2. /\ n \in Nat /\ Unit \in Nat /\ Full \in Nat
        /\ rate \in Nat /\ Rate \in Nat /\ Rate <= rate /\ late \in Int
    BY Parameters, SustainedRate
  <2> QED BY <2>1, <2>2
<1>2. /\ Served(b, t) # NoBucket /\ Served(b, t).lastSeen = t
      /\ m = IF f >= Unit THEN f - Unit ELSE f
      /\ Horizon(Served(b, t), time) = time
  BY ServedType DEF Served, Horizon
<1>3. SUFFICES ASSUME NEW i \in 1 .. Len(adm2)
               PROVE  (Len(adm2) - i + 1) * Unit + (m + late) <= Full + rate * (time - adm2[i])
  BY <1>2 DEF WindowOK
<1>4. \A k \in 1 .. n : (n - k + 1) * Unit + (f + late) <= Full + rate * (time - adm[k])
  BY RefilledWindow
<1> HIDE DEF f, late
<1>5. CASE ~(f >= Unit)
  <2>1. adm2 = adm /\ m = f
    BY <1>2, <1>5 DEF Through, f
  <2> QED BY <1>4, <2>1
<1>6. CASE f >= Unit
  <2>1. adm2 = Append(adm, t) /\ m = f - Unit /\ Len(adm2) = n + 1 /\ i \in 1 .. n + 1
    BY <1>2, <1>6 DEF Through, f
  <2>2. CASE i \in 1 .. n
    <3>1. adm2[i] = adm[i]
      BY <2>1, <2>2
    <3>2. (n - i + 1) * Unit \in Int /\ (n + 1 - i + 1) * Unit = (n - i + 1) * Unit + Unit
      BY <1>1, <2>2
    <3>3. (n + 1 - i + 1) * Unit + ((f - Unit) + late) = (n - i + 1) * Unit + (f + late)
      <4> DEFINE u == (n - i + 1) * Unit
                 v == (n + 1 - i + 1) * Unit
      <4> HIDE DEF u, v
      <4>1. u \in Int /\ v = u + Unit
        BY <3>2 DEF u, v
      <4>2. v + ((f - Unit) + late) = u + (f + late)
        BY <1>1, <4>1
      <4> QED BY <4>2 DEF u, v
    <3> QED BY <1>4, <2>1, <2>2, <3>1, <3>3
  <2>3. CASE i = n + 1
    <3>1. adm2[i] = t
      BY <2>1, <2>3
    <3>2. (n + 1 - i + 1) * Unit = Unit
      BY <1>1, <2>3
    <3>3. late <= rate * (time - t) /\ rate * (time - t) \in Int
      <4>1. time - t \in Nat
        OBVIOUS
      <4> QED BY <1>1, <4>1, FasterBringsMore DEF late
    <3>4. Unit + ((f - Unit) + late) <= Full + rate * (time - t)
      <4> DEFINE v == rate * (time - t)
      <4> HIDE DEF v
      <4>1. Unit + ((f - Unit) + late) <= Full + v
        BY <1>1, <3>3 DEF v
      <4> QED BY <4>1 DEF v
    <3> QED BY <2>1, <3>1, <3>2, <3>4, <2>3
  <2> QED BY <1>1, <2>1, <2>2, <2>3
<1> QED BY <1>5, <1>6

(* AdmissionBound for one address.                                         *)
BoundOK(rate, adm) ==
    \A i, j \in DOMAIN adm :
        i <= j => (j - i + 1) * Unit <= Full + rate * (adm[j] - adm[i]) + (rate - Rate) * MaxDelay

(* A request that is let through found a token that its time had brought.  *)
LEMMA ServedBound ==
    ASSUME NEW rate \in SustainedRates,
           NEW b \in Bucket \cup {NoBucket}, NEW t \in Nat, NEW time \in Nat,
           NEW adm \in Seq(Nat), t <= time, time <= t + MaxDelay,
           BalanceOK(b, time), WindowOK(rate, b, adm, time), BoundOK(rate, adm)
    PROVE  BoundOK(rate, Through(b, t, adm))
<1> DEFINE f == Refilled(b, t)
           n == Len(adm)
           slack == (rate - Rate) * MaxDelay
           adm2 == Through(b, t, adm)
<1>1. /\ f \in Int /\ n \in Nat /\ Unit \in Nat /\ Full \in Nat /\ Unit <= Full
      /\ rate \in Nat /\ Rate \in Nat /\ Rate <= rate /\ MaxDelay \in Nat
  <2>1. f \in Int
    BY RefilledEffect
  <2>2. /\ n \in Nat /\ Unit \in Nat /\ Full \in Nat /\ Unit <= Full
        /\ rate \in Nat /\ Rate \in Nat /\ Rate <= rate /\ MaxDelay \in Nat
    BY Parameters, SustainedRate
  <2> HIDE DEF f
  <2> QED BY <2>1, <2>2
<1>2. /\ slack \in Nat
      /\ (rate - Rate) * (time - t) \in Int /\ (rate - Rate) * (time - t) <= slack
  <2>1. rate - Rate \in Nat /\ time - t \in Int /\ time - t <= MaxDelay
    BY <1>1
  <2>2. (rate - Rate) * (time - t) \in Int /\ (rate - Rate) * (time - t) <= slack
    BY <1>1, <2>1, Monotone
  <2>3. \A c, e \in Nat : c * e \in Nat
    OBVIOUS
  <2>4. slack \in Nat
    BY <1>1, <2>1, <2>3
  <2> QED BY <2>2, <2>4
<1> HIDE DEF slack
<1>3. CASE ~(f >= Unit)
  BY <1>3 DEF Through
<1>4. CASE f >= Unit
  <2>1. adm2 = Append(adm, t) /\ DOMAIN adm2 = 1 .. n + 1 /\ DOMAIN adm = 1 .. n
    BY <1>4 DEF Through
  <2>2. SUFFICES ASSUME NEW i \in 1 .. n + 1, NEW j \in 1 .. n + 1, i <= j
                 PROVE  (j - i + 1) * Unit <= Full + rate * (adm2[j] - adm2[i]) + slack
    BY <2>1 DEF BoundOK, slack
  <2>3. CASE j \in 1 .. n
    <3>1. i \in 1 .. n /\ adm2[i] = adm[i] /\ adm2[j] = adm[j]
      BY <1>1, <2>1, <2>2, <2>3
    <3>2. (j - i + 1) * Unit <= Full + rate * (adm[j] - adm[i]) + slack
      BY <2>1, <2>2, <2>3, <3>1 DEF BoundOK, slack
    <3> QED BY <3>1, <3>2
  <2>4. CASE j = n + 1 /\ i \in 1 .. n
    <3>1. adm2[j] = t /\ adm2[i] = adm[i] /\ adm[i] \in Nat
      BY <2>1, <2>4
    <3> DEFINE x == adm[i]
               u == (n - i + 1) * Unit
               v == (j - i + 1) * Unit
               w == rate * (t - x)
               z == rate * (time - t)
               late == Rate * (time - t)
    <3>2. u + (f + late) <= Full + rate * (time - x)
      BY <2>4, RefilledWindow
    <3>3. u \in Int /\ v = u + Unit
      BY <1>1, <2>4
    <3>4. rate * (time - x) = w + z /\ w \in Int /\ z \in Int
      <4>1. x \in Nat
        BY <3>1
      <4> HIDE DEF x
      <4>2. time - x = (t - x) + (time - t) /\ t - x \in Int /\ time - t \in Int
        BY <4>1
      <4>3. rate * ((t - x) + (time - t)) = w + z /\ w \in Int /\ z \in Int
        BY <1>1, <4>2, Adds
      <4> QED BY <4>2, <4>3
    <3>5. z - late <= slack /\ late \in Int
      <4>1. \A k, m, g \in Int : (k - m) * g = k * g - m * g
        OBVIOUS
      <4>2. (rate - Rate) * (time - t) = z - late
        BY <1>1, <4>1
      <4>3. late \in Int
        BY <1>1
      <4> QED BY <1>2, <4>2, <4>3
    <3> HIDE DEF x, u, v, w, z, late, f
    <3>6. v <= Full + w + slack
      BY <1>1, <1>2, <1>4, <3>2, <3>3, <3>4, <3>5
    <3> QED BY <3>1, <3>6 DEF v, w, x
  <2>5. CASE i = n + 1 /\ j = n + 1
    <3>1. adm2[i] = t /\ adm2[j] = t /\ rate * (t - t) = 0 /\ (j - i + 1) * Unit = Unit
      BY <1>1, <2>1, <2>5
    <3> HIDE DEF adm2
    <3> DEFINE v == (j - i + 1) * Unit
               w == rate * (adm2[j] - adm2[i])
    <3>2. v = Unit /\ w = 0
      BY <3>1
    <3> HIDE DEF v, w
    <3>3. v <= Full + w + slack
      BY <1>1, <1>2, <3>2
    <3> QED BY <3>3 DEF v, w
  <2> QED BY <1>1, <2>2, <2>3, <2>4, <2>5
<1> QED BY <1>3, <1>4

(* A refused request leaves what it was promised, and what others were.    *)
LEMMA ServedPromise ==
    ASSUME NEW b \in Bucket \cup {NoBucket}, NEW t \in Nat, NEW p \in Int \cup {NULL},
           PromiseOK(b, p), ~(Refilled(b, t) >= Unit)
    PROVE  /\ RetryAfter(Refilled(b, t)) \in Int
           /\ PromiseOK(Served(b, t),
                        Earliest(p, t + (RetryAfter(Refilled(b, t)) + 1) * Second))
<1> DEFINE f == Refilled(b, t)
           wait == RetryAfter(f)
           new == t + (wait + 1) * Second
<1>1. f \in Int /\ f < Unit /\ Unit <= Full /\ f < Full
  <2>1. f \in Int
    BY RefilledEffect
  <2> HIDE DEF f
  <2>2. ~(f >= Unit)
    BY DEF f
  <2> QED BY <2>1, <2>2, Parameters
<1>2. b # NoBucket /\ f = b.tokens + Rate * (t - b.lastSeen) /\ b.tokens \in Int /\ b.lastSeen \in Nat
  <2>1. b # NoBucket
    BY <1>1, RefilledEffect, Parameters
  <2> QED BY <1>1, <2>1, RefilledEffect
<1>3. wait \in Int /\ Unit <= f + Rate * ((wait + 1) * Second)
  <2> DEFINE c == Rate * Second
             q == (Unit - f) \div c
  <2>1. c \in Int /\ c > 0
    <3>1. \A k, m \in Nat \ {0} : k * m \in Nat /\ k * m > 0
      OBVIOUS
    <3> QED BY <3>1, EnabledAssumption, ScaleAssumption
  <2>2. Unit - f \in Int
    BY <1>1, Parameters
  <2>3. \A x \in Int, d \in Int : d > 0 => x \div d \in Int /\ x < (x \div d + 1) * d
    OBVIOUS
  <2>4. q \in Int /\ Unit - f < (q + 1) * c
    <3> HIDE DEF c, f
    <3> QED BY <2>1, <2>2, <2>3
  <2>5. wait \in Int /\ q <= wait
    <3>1. wait = IF q > 1 THEN q ELSE 1
      BY DEF RetryAfter
    <3> HIDE DEF wait, q
    <3> QED BY <2>4, <3>1
  <2>6. (q + 1) * c <= (wait + 1) * c
    <3> HIDE DEF wait, q, c
    <3>1. (wait - q) * c >= 0
      BY <2>1, <2>4, <2>5
    <3>2. (wait - q) * c = (wait + 1) * c - (q + 1) * c
      BY <2>1, <2>4, <2>5
    <3>3. (wait + 1) * c \in Int /\ (q + 1) * c \in Int
      BY <2>1, <2>4, <2>5
    <3> QED BY <3>1, <3>2, <3>3
  <2>7. (wait + 1) * c = Rate * ((wait + 1) * Second) /\ (wait + 1) * c \in Int /\ (q + 1) * c \in Int
    <3> HIDE DEF wait, q
    <3> QED BY <2>4, <2>5, Parameters
  <2> DEFINE g == Rate * ((wait + 1) * Second)
             h == (q + 1) * c
  <2>8. h <= g /\ Unit - f < h /\ h \in Int /\ g \in Int
    BY <2>4, <2>6, <2>7
  <2> HIDE DEF g, h, f, wait
  <2>9. Unit <= f + g
    BY <1>1, <2>8, Parameters
  <2> QED BY <2>5, <2>9 DEF g
<1>4. new \in Int /\ Unit <= f + Rate * (new - t)
  <2> HIDE DEF wait, f
  <2>1. (wait + 1) * Second \in Int
    BY <1>3, Parameters
  <2>2. new - t = (wait + 1) * Second /\ new \in Int
    BY <2>1
  <2> QED BY <1>3, <2>2
<1>5. ASSUME p # NULL PROVE p \in Int /\ Unit <= f + Rate * (p - t)
  <2> DEFINE y == b.tokens
             last == b.lastSeen
             older == Rate * (p - last)
             x == Rate * (p - t)
             z == Rate * (t - last)
  <2>1. p \in Int /\ Unit <= y + older
    BY <1>2, <1>5 DEF PromiseOK
  <2>2. older = z + x /\ z \in Int /\ x \in Int
    <3> HIDE DEF last
    <3>1. p - last = (t - last) + (p - t) /\ t - last \in Int /\ p - t \in Int
      BY <1>2, <2>1 DEF last
    <3>2. Rate * ((t - last) + (p - t)) = Rate * (t - last) + Rate * (p - t)
      BY <3>1, RateAdds
    <3>3. z \in Int /\ x \in Int
      BY <3>1, Parameters
    <3> QED BY <3>1, <3>2, <3>3
  <2>3. f = y + z /\ y \in Int
    BY <1>2
  <2> HIDE DEF y, older, x, z, f
  <2>4. Unit <= f + x
    BY <2>1, <2>2, <2>3, Parameters
  <2> QED BY <2>1, <2>4 DEF x
<1>6. Served(b, t).tokens = f /\ Served(b, t).lastSeen = t
  BY DEF Served
<1>7. Earliest(p, new) = new \/ (p # NULL /\ Earliest(p, new) = p)
  BY DEF Earliest
<1> HIDE DEF f, new
<1>8. PromiseOK(Served(b, t), Earliest(p, new))
  BY <1>4, <1>5, <1>6, <1>7 DEF PromiseOK
<1> QED BY <1>3, <1>8 DEF f, new

(* Whoever comes when it was promised is let through.                      *)
LEMMA PromiseKept ==
    ASSUME NEW b \in Bucket \cup {NoBucket}, NEW t \in Nat, NEW p \in Int,
           PromiseOK(b, p), p <= t
    PROVE  Refilled(b, t) >= Unit
<1> DEFINE f == Refilled(b, t)
<1>1. ASSUME f = Full PROVE f >= Unit
  BY <1>1, Parameters
<1>2. ASSUME b # NoBucket, f = b.tokens + Rate * (t - b.lastSeen) PROVE f >= Unit
  <2> DEFINE y == b.tokens
             last == b.lastSeen
             x == Rate * (p - last)
             z == Rate * (t - last)
  <2>1. y \in Int /\ last \in Nat
    BY <1>2, RefilledEffect
  <2>2. p # NULL
    BY NullAssumption
  <2>3. Unit <= y + x
    BY <1>2, <2>2 DEF PromiseOK
  <2>4. p - last \in Int /\ t - last \in Int /\ p - last <= t - last
    <3> HIDE DEF last
    <3> QED BY <2>1
  <2>5. x <= z /\ x \in Int /\ z \in Int
    BY <2>4, RateMonotone
  <2>6. f = y + z
    BY <1>2
  <2> HIDE DEF y, x, z, f
  <2> QED BY <2>1, <2>3, <2>5, <2>6, Parameters
<1> QED BY <1>1, <1>2, RefilledEffect

-----------------------------------------------------------------------------
(* The steps                                                               *)

(* The invariant holds before any request.                                 *)
LEMMA InitIInv == Init => IInv
<1> SUFFICES ASSUME Init PROVE IInv
  OBVIOUS
<1>1. TypeInv
  BY DEF Init, TypeInv
<1>2. Timely /\ Balances /\ Promises
  BY DEF Init, Timely, Balances, BalanceOK, Promises, PromiseOK
<1>3. Windows /\ AdmissionBound
  BY DEF Init, Windows, WindowOK, AdmissionBound
<1> QED BY <1>1, <1>2, <1>3 DEF IInv

(* Sweeping at a reading keeps what is known of every address.             *)
LEMMA SweepKeeps ==
    ASSUME IInv, NEW t \in Nat, t <= now, NEW a \in Addrs
    PROVE  /\ SweepLocked(t)[a] \in Bucket \cup {NoBucket}
           /\ SweepLocked(t)[a] = buckets[a] \/ SweepLocked(t)[a] = NoBucket
           /\ BalanceOK(SweepLocked(t)[a], now)
           /\ \A rate \in SustainedRates : WindowOK(rate, SweepLocked(t)[a], admitted[a], now)
           /\ PromiseOK(SweepLocked(t)[a], promised[a])
<1> DEFINE b == buckets[a]
           s == SweepLocked(t)[a]
<1>1. /\ b \in Bucket \cup {NoBucket} /\ now \in Nat /\ admitted[a] \in Seq(Nat)
      /\ BalanceOK(b, now) /\ PromiseOK(b, promised[a])
      /\ \A rate \in SustainedRates : WindowOK(rate, b, admitted[a], now)
  BY DEF IInv, TypeInv, Balances, Windows, Promises
<1>2. \/ s = b
      \/ s = NoBucket /\ b # NoBucket /\ t - b.lastSeen > TTL
  BY DEF SweepLocked
<1>3. CASE s = b
  BY <1>1, <1>3
<1>4. CASE s = NoBucket /\ b # NoBucket /\ t - b.lastSeen > TTL
  <2>1. b \in Bucket
    BY <1>1, <1>4
  <2> HIDE DEF b
  <2>2. \A rate \in SustainedRates : WindowOK(rate, NoBucket, admitted[a], now)
    BY <1>1, <1>4, <2>1, ForgettingIsSafe
  <2> QED BY <1>4, <2>2 DEF BalanceOK, PromiseOK
<1> QED BY <1>2, <1>3, <1>4

(* What allowIP does to its own address and to the others.                 *)
LEMMA AllowIPEffect ==
    ASSUME IInv, NEW r \in Requests, AllowIP(r)
    PROVE  \E a \in Addrs, t \in Nat :
              /\ a = req[r].ip /\ t = req[r].now /\ req[r] # Idle
              /\ t <= now /\ now <= t + MaxDelay
              /\ nextSweep' \in {nextSweep, t + TTL}
              /\ req' = [req EXCEPT ![r] = Idle]
              /\ buckets' = [SweepLocked(t) EXCEPT ![a] = Served(SweepLocked(t)[a], t)]
              /\ admitted' = [admitted EXCEPT ![a] = Through(SweepLocked(t)[a], t, admitted[a])]
              /\ promised' = [promised EXCEPT ![a] =
                    IF Refilled(SweepLocked(t)[a], t) >= Unit THEN NULL
                    ELSE Earliest(promised[a],
                           t + (RetryAfter(Refilled(SweepLocked(t)[a], t)) + 1) * Second)]
              /\ UNCHANGED <<now, arrivals>>
<1> DEFINE a == req[r].ip
           t == req[r].now
<1>1. req[r] # Idle
  BY DEF AllowIP
<1>2. req[r] \in Request
  BY <1>1 DEF IInv, TypeInv
<1>3. a \in Addrs /\ t \in Nat
  BY <1>2 DEF Request
<1>4. t <= now /\ now <= t + MaxDelay
  BY <1>1 DEF IInv, Timely
<1>5. nextSweep' \in {nextSweep, t + TTL}
  BY DEF AllowIP
<1>6. buckets' = [SweepLocked(t) EXCEPT ![a] = Served(SweepLocked(t)[a], t)]
  BY DEF AllowIP, Served
<1>7. admitted' = [admitted EXCEPT ![a] = Through(SweepLocked(t)[a], t, admitted[a])]
  BY DEF AllowIP, Through
<1>8. promised' = [promised EXCEPT ![a] =
                    IF Refilled(SweepLocked(t)[a], t) >= Unit THEN NULL
                    ELSE Earliest(promised[a],
                           t + (RetryAfter(Refilled(SweepLocked(t)[a], t)) + 1) * Second)]
  BY DEF AllowIP
<1>9. req' = [req EXCEPT ![r] = Idle] /\ UNCHANGED <<now, arrivals>>
  BY DEF AllowIP
<1> QED BY <1>1, <1>3, <1>4, <1>5, <1>6, <1>7, <1>8, <1>9

(* A served request keeps the invariant.                                   *)
LEMMA AllowIPIInv ==
    ASSUME IInv, NEW r \in Requests, AllowIP(r)
    PROVE  IInv'
<1> USE DEF IInv
<1>1. PICK a \in Addrs, t \in Nat :
              /\ a = req[r].ip /\ t = req[r].now /\ req[r] # Idle
              /\ t <= now /\ now <= t + MaxDelay
              /\ nextSweep' \in {nextSweep, t + TTL}
              /\ req' = [req EXCEPT ![r] = Idle]
              /\ buckets' = [SweepLocked(t) EXCEPT ![a] = Served(SweepLocked(t)[a], t)]
              /\ admitted' = [admitted EXCEPT ![a] = Through(SweepLocked(t)[a], t, admitted[a])]
              /\ promised' = [promised EXCEPT ![a] =
                    IF Refilled(SweepLocked(t)[a], t) >= Unit THEN NULL
                    ELSE Earliest(promised[a],
                           t + (RetryAfter(Refilled(SweepLocked(t)[a], t)) + 1) * Second)]
              /\ UNCHANGED <<now, arrivals>>
  BY AllowIPEffect
<1> DEFINE s == SweepLocked(t)
           ok == Refilled(s[a], t) >= Unit
           new == t + (RetryAfter(Refilled(s[a], t)) + 1) * Second
<1>2. \A c \in Addrs :
         /\ s[c] \in Bucket \cup {NoBucket}
         /\ BalanceOK(s[c], now) /\ PromiseOK(s[c], promised[c])
         /\ \A rate \in SustainedRates : WindowOK(rate, s[c], admitted[c], now)
  BY <1>1, SweepKeeps
<1>3. DOMAIN s = Addrs /\ s = [c \in Addrs |-> s[c]]
  BY DEF SweepLocked
<1>4. /\ now \in Nat /\ admitted \in [Addrs -> Seq(Nat)] /\ promised \in [Addrs -> Int \cup {NULL}]
      /\ \A rate \in SustainedRates, c \in Addrs : BoundOK(rate, admitted[c])
  BY DEF TypeInv, AdmissionBound, BoundOK
<1> HIDE DEF s
<1>5. Served(s[a], t) \in Bucket /\ Served(s[a], t) # NoBucket
  BY <1>2, ServedType
<1>6. Through(s[a], t, admitted[a]) \in Seq(Nat)
  BY <1>4 DEF Through
<1>7. ASSUME ~ok PROVE new \in Int /\ PromiseOK(Served(s[a], t), Earliest(promised[a], new))
  <2>1. promised[a] \in Int \cup {NULL} /\ s[a] \in Bucket \cup {NoBucket} /\ PromiseOK(s[a], promised[a])
    BY <1>2, <1>4
  <2>2. /\ RetryAfter(Refilled(s[a], t)) \in Int
        /\ PromiseOK(Served(s[a], t), Earliest(promised[a], new))
    BY <1>7, <2>1, ServedPromise
  <2>3. \A w \in Int : t + (w + 1) * Second \in Int
    BY Parameters
  <2> QED BY <2>2, <2>3
<1>8. /\ \A c \in Addrs \ {a} : buckets'[c] = s[c] /\ admitted'[c] = admitted[c] /\ promised'[c] = promised[c]
      /\ buckets'[a] = Served(s[a], t)
      /\ admitted'[a] = Through(s[a], t, admitted[a])
      /\ promised'[a] = IF ok THEN NULL ELSE Earliest(promised[a], new)
  BY <1>1, <1>3, <1>4 DEF s
<1> HIDE DEF ok, new
<1>9. TypeInv'
  <2>1. now' \in Nat /\ nextSweep' \in Nat /\ arrivals' \in Nat
    BY <1>1, Parameters DEF TypeInv
  <2>2. buckets' \in [Addrs -> Bucket \cup {NoBucket}]
    BY <1>1, <1>2, <1>3, <1>5 DEF s
  <2>3. req' \in [Requests -> Request \cup {Idle}]
    BY <1>1 DEF TypeInv
  <2>4. admitted' \in [Addrs -> Seq(Nat)]
    BY <1>1, <1>4, <1>6 DEF s
  <2>5. (IF ok THEN NULL ELSE Earliest(promised[a], new)) \in Int \cup {NULL}
    BY <1>4, <1>7 DEF Earliest
  <2>6. promised' \in [Addrs -> Int \cup {NULL}]
    BY <1>1, <1>4, <2>5 DEF s, ok, new
  <2> QED BY <2>1, <2>2, <2>3, <2>4, <2>6 DEF TypeInv
<1>10. Timely'
  BY <1>1 DEF Timely, TypeInv
<1>11. Balances'
  <2>1. BalanceOK(Served(s[a], t), now)
    BY <1>1, <1>2, <1>4, ServedBalance
  <2> QED BY <1>1, <1>2, <1>8, <2>1 DEF Balances
<1>12. Windows'
  <2> SUFFICES ASSUME NEW rate \in SustainedRates, NEW c \in Addrs
               PROVE  WindowOK(rate, buckets'[c], admitted'[c], now)
    BY <1>1 DEF Windows
  <2>1. CASE c = a
    <3>1. /\ admitted[a] \in Seq(Nat) /\ s[a] \in Bucket \cup {NoBucket}
          /\ BalanceOK(s[a], now) /\ WindowOK(rate, s[a], admitted[a], now)
      BY <1>2, <1>4
    <3>2. WindowOK(rate, Served(s[a], t), Through(s[a], t, admitted[a]), now)
      BY <1>1, <1>4, <3>1, ServedWindow
    <3> QED BY <1>8, <2>1, <3>2
  <2>2. CASE c # a
    BY <1>2, <1>8, <2>2
  <2> QED BY <2>1, <2>2
<1>13. AdmissionBound'
  <2> SUFFICES ASSUME NEW rate \in SustainedRates, NEW c \in Addrs
               PROVE  BoundOK(rate, admitted'[c])
    BY DEF AdmissionBound, BoundOK
  <2>1. CASE c = a
    <3>1. /\ admitted[a] \in Seq(Nat) /\ s[a] \in Bucket \cup {NoBucket}
          /\ BalanceOK(s[a], now) /\ WindowOK(rate, s[a], admitted[a], now)
          /\ BoundOK(rate, admitted[a])
      BY <1>2, <1>4
    <3>2. BoundOK(rate, Through(s[a], t, admitted[a]))
      BY <1>1, <1>4, <3>1, ServedBound
    <3> QED BY <1>8, <2>1, <3>2
  <2>2. CASE c # a
    BY <1>4, <1>8, <2>2
  <2> QED BY <2>1, <2>2
<1>14. Promises'
  <2>1. PromiseOK(Served(s[a], t), IF ok THEN NULL ELSE Earliest(promised[a], new))
    BY <1>7 DEF PromiseOK
  <2> QED BY <1>2, <1>8, <2>1 DEF Promises
<1> QED BY <1>9, <1>10, <1>11, <1>12, <1>13, <1>14

(* The reading of a new request is not late yet.                           *)
LEMMA ArriveIInv ==
    ASSUME IInv, NEW r \in Requests, NEW a \in Addrs, Arrive(r, a)
    PROVE  IInv'
<1>1. /\ TypeInv /\ Timely /\ req' = [req EXCEPT ![r] = [ip |-> a, now |-> now]]
      /\ arrivals' = arrivals + 1
      /\ UNCHANGED <<now, buckets, nextSweep, admitted, promised>>
  BY DEF IInv, Arrive
<1>2. [ip |-> a, now |-> now] \in Request
  BY <1>1 DEF TypeInv, Request
<1>3. TypeInv'
  BY <1>1, <1>2 DEF TypeInv
<1>4. Timely'
  BY <1>1, Parameters DEF Timely, TypeInv
<1>5. Balances' /\ Windows' /\ AdmissionBound' /\ Promises'
  BY <1>1 DEF IInv, Balances, Windows, AdmissionBound, Promises
<1> QED BY <1>3, <1>4, <1>5 DEF IInv

(* Time only adds to what a bucket, or its absence, may let through.       *)
LEMMA TickIInv == ASSUME IInv, Tick PROVE IInv'
<1>1. /\ TypeInv /\ Timely /\ Balances /\ Windows /\ now' = now + 1 /\ now \in Nat
      /\ \A r \in Requests : req[r] # Idle => now - req[r].now < MaxDelay
      /\ UNCHANGED <<buckets, nextSweep, req, arrivals, admitted, promised>>
  BY DEF IInv, Tick, TypeInv
<1>2. TypeInv'
  BY <1>1 DEF TypeInv
<1>3. Timely'
  <2> SUFFICES ASSUME NEW r \in Requests, req[r] # Idle
               PROVE  req[r].now <= now + 1 /\ now + 1 <= req[r].now + MaxDelay
    BY <1>1 DEF Timely
  <2>1. req[r].now \in Nat
    BY <1>1 DEF TypeInv, Request
  <2> QED BY <1>1, <2>1, TimeAssumption DEF Timely
<1>4. Balances'
  <2> SUFFICES ASSUME NEW a \in Addrs PROVE BalanceOK(buckets[a], now + 1)
    BY <1>1 DEF Balances
  <2>0. BalanceOK(buckets[a], now)
    BY <1>1 DEF Balances
  <2> SUFFICES ASSUME buckets[a] # NoBucket
               PROVE  /\ buckets[a].lastSeen <= now + 1
                      /\ 0 <= buckets[a].tokens + Rate * ((now + 1) - buckets[a].lastSeen)
    BY <2>0 DEF BalanceOK
  <2> DEFINE y == buckets[a].tokens
             last == buckets[a].lastSeen
             x == Rate * (now - last)
             z == Rate * ((now + 1) - last)
  <2>1. y \in Int /\ last \in Nat
    BY <1>1 DEF TypeInv, Bucket
  <2>2. last <= now /\ 0 <= y + x
    BY <2>0 DEF BalanceOK
  <2>3. now - last \in Int /\ (now + 1) - last \in Int /\ now - last <= (now + 1) - last
    <3> HIDE DEF last
    <3> QED BY <1>1, <2>1
  <2>4. x <= z /\ x \in Int /\ z \in Int
    BY <2>3, RateMonotone
  <2> HIDE DEF y, last, x, z
  <2>5. last <= now + 1 /\ 0 <= y + z
    BY <1>1, <2>1, <2>2, <2>4
  <2> QED BY <2>5 DEF y, last, z
<1>5. Windows'
  <2> SUFFICES ASSUME NEW rate \in SustainedRates, NEW a \in Addrs, NEW i \in 1 .. Len(admitted[a])
               PROVE  LET b == buckets[a]
                          adm == admitted[a]
                          h == Horizon(b, now + 1)
                          owed == (Len(adm) - i + 1) * Unit
                      IN  /\ b # NoBucket => owed + (b.tokens + Rate * (h - b.lastSeen))
                                                <= Full + rate * (h - adm[i])
                          /\ b = NoBucket => owed + Rate * MaxDelay <= rate * ((now + 1) - adm[i])
    BY <1>1 DEF Windows, WindowOK
  <2> DEFINE b == buckets[a]
             x == admitted[a][i]
             owed == (Len(admitted[a]) - i + 1) * Unit
  <2>1. /\ WindowOK(rate, b, admitted[a], now) /\ BalanceOK(b, now) /\ BalanceOK(b, now + 1)
        /\ b \in Bucket \cup {NoBucket} /\ admitted[a] \in Seq(Nat) /\ now + 1 \in Nat
    BY <1>1, <1>4 DEF Windows, Balances, TypeInv
  <2>2. /\ x \in Nat /\ Len(admitted[a]) \in Nat /\ owed \in Int
        /\ rate \in Nat /\ Rate \in Nat /\ Rate <= rate
    <3>1. x \in Nat /\ Len(admitted[a]) \in Nat
      BY <2>1
    <3> QED BY <3>1, SustainedRate, Parameters
  <2>3. ASSUME b = NoBucket PROVE owed + Rate * MaxDelay <= rate * ((now + 1) - x)
    <3> DEFINE d == Rate * MaxDelay
               g == rate * (now - x)
               k == rate * ((now + 1) - x)
    <3>1. owed + d <= g
      BY <2>1, <2>3 DEF WindowOK
    <3>2. now - x \in Int /\ (now + 1) - x \in Int /\ now - x <= (now + 1) - x
      <4> HIDE DEF x
      <4> QED BY <1>1, <2>2
    <3>3. g <= k /\ g \in Int /\ k \in Int
      BY <2>2, <3>2, Monotone
    <3>4. d \in Int
      BY Parameters
    <3> HIDE DEF d, g, k, owed
    <3>5. owed + d <= k
      BY <2>2, <3>1, <3>3, <3>4
    <3> QED BY <3>5 DEF d, k
  <2>4. ASSUME b # NoBucket
        PROVE  owed + (b.tokens + Rate * (Horizon(b, now + 1) - b.lastSeen))
                   <= Full + rate * (Horizon(b, now + 1) - x)
    <3> DEFINE y == b.tokens
               last == b.lastSeen
               h == Horizon(b, now)
               k == Horizon(b, now + 1)
    <3>1. y \in Int /\ last \in Nat /\ h \in Nat
      BY <1>1, <2>1, <2>4, HorizonFacts DEF Bucket
    <3>2. owed + (y + Rate * (h - last)) <= Full + rate * (h - x)
      BY <2>1, <2>4 DEF WindowOK
    <3>3. k = h \/ k = h + 1
      <4>1. MaxDelay \in Nat /\ now \in Nat /\ last \in Nat
        BY <1>1, <3>1, Parameters
      <4>2. /\ h = IF now <= last + MaxDelay THEN now ELSE last + MaxDelay
            /\ k = IF now + 1 <= last + MaxDelay THEN now + 1 ELSE last + MaxDelay
        BY DEF Horizon
      <4> HIDE DEF h, k, last
      <4> QED BY <4>1, <4>2
    <3>4. CASE k = h
      BY <3>2, <3>4
    <3>5. CASE k = h + 1
      <4> HIDE DEF h, last, x
      <4>1. Rate * ((h + 1) - last) = Rate * (h - last) + Rate /\ Rate * (h - last) \in Int
        <5>1. (h + 1) - last = (h - last) + 1 /\ h - last \in Int
          BY <3>1
        <5>2. Rate * ((h - last) + 1) = Rate * (h - last) + Rate * 1 /\ Rate * (h - last) \in Int
          <6> DEFINE g == h - last
          <6>1. g \in Int
            BY <5>1
          <6> HIDE DEF g
          <6>2. Rate * (g + 1) = Rate * g + Rate * 1 /\ Rate * g \in Int
            BY <2>2, <6>1
          <6> QED BY <6>2 DEF g
        <5> QED BY <2>2, <5>1, <5>2
      <4>2. rate * ((h + 1) - x) = rate * (h - x) + rate /\ rate * (h - x) \in Int
        <5>1. (h + 1) - x = (h - x) + 1 /\ h - x \in Int
          BY <2>2, <3>1
        <5>2. rate * ((h - x) + 1) = rate * (h - x) + rate * 1 /\ rate * (h - x) \in Int
          BY <2>2, <5>1, Adds
        <5> QED BY <2>2, <5>1, <5>2
      <4> DEFINE p == Rate * (h - last)
                 q == rate * (h - x)
                 p2 == Rate * ((h + 1) - last)
                 q2 == rate * ((h + 1) - x)
      <4>3. owed + (y + p) <= Full + q /\ p2 = p + Rate /\ q2 = q + rate /\ p \in Int /\ q \in Int
        BY <3>2, <4>1, <4>2
      <4> HIDE DEF p, q, p2, q2, y, owed
      <4>4. owed + (y + p2) <= Full + q2
        BY <2>2, <3>1, <4>3, Parameters
      <4> QED BY <3>5, <4>4 DEF p2, q2, h, last, x, y, owed
    <3> QED BY <3>3, <3>4, <3>5
  <2> QED BY <2>3, <2>4
<1>6. AdmissionBound' /\ Promises'
  BY <1>1 DEF IInv, AdmissionBound, Promises
<1> QED BY <1>2, <1>3, <1>4, <1>5, <1>6 DEF IInv

(* Every step keeps the invariant.                                         *)
LEMMA NextIInv == IInv /\ [Next]_vars => IInv'
<1> SUFFICES ASSUME IInv, [Next]_vars PROVE IInv'
  OBVIOUS
<1>1. CASE \E r \in Requests : AllowIP(r)
  BY <1>1, AllowIPIInv
<1>2. CASE \E r \in Requests, a \in Addrs : Arrive(r, a)
  BY <1>2, ArriveIInv
<1>3. CASE Tick
  BY <1>3, TickIInv
<1>4. CASE UNCHANGED vars
  BY <1>4 DEF vars, IInv, TypeInv, Timely, Balances, Windows, AdmissionBound, Promises
<1> QED BY <1>1, <1>2, <1>3, <1>4 DEF Next

-----------------------------------------------------------------------------
(* The theorems                                                            *)

(* The inductive invariant holds in every reachable state.                 *)
THEOREM LimiterInvariant == Spec => []IInv
BY InitIInv, NextIInv, PTL DEF Spec

(* TypeOK: no bucket ever holds more than Burst.                           *)
THEOREM LimiterTyped == Spec => []TypeOK
<1>1. IInv => TypeOK
  <2> SUFFICES ASSUME IInv PROVE TypeOK
    OBVIOUS
  <2>1. \A a \in Addrs : buckets[a] # NoBucket =>
          buckets[a].tokens \in Int /\ buckets[a].tokens <= Full /\ buckets[a].lastSeen \in Nat
    BY DEF IInv, TypeInv, Balances, BalanceOK, Bucket
  <2>2. \A r \in Requests : req[r] # Idle => req[r].ip \in Addrs /\ req[r].now \in Nat
    BY DEF IInv, TypeInv, Request
  <2> QED BY <2>1, <2>2 DEF IInv, TypeInv, TypeOK
<1> QED BY <1>1, LimiterInvariant, PTL

(* AdmissionBound, for every burst, rate and TTL: between any two requests *)
(* an address has had let through lies the time that brings their tokens,  *)
(* but for Burst of them, at any rate that fills a bucket before it can be *)
(* forgotten, however requests overtake each other between the clock and   *)
(* the mutex. Where RATE_LIMIT_RPS is such a rate the bound is exact.      *)
THEOREM AdmissionIsBounded == Spec => []AdmissionBound
BY LimiterInvariant, PTL DEF IInv

(* RetryAfterIsKept: whoever is refused and comes back a second after what *)
(* Retry-After says is let through, unless its address was meanwhile.      *)
THEOREM RetryAfterSuffices == Spec => RetryAfterIsKept
<1>1. ASSUME IInv, [Next]_vars PROVE [PromiseStep]_vars
  <2> SUFFICES ASSUME NEW r \in Requests, req[r] # Idle, req'[r] = Idle,
                      promised[req[r].ip] # NULL, req[r].now >= promised[req[r].ip]
               PROVE  Len(admitted'[req[r].ip]) = Len(admitted[req[r].ip]) + 1
    BY DEF PromiseStep
  <2>1. req[r] \in Request /\ req \in [Requests -> Request \cup {Idle}]
    BY <1>1 DEF IInv, TypeInv
  <2>2. AllowIP(r)
    <3>1. ASSUME NEW q \in Requests, AllowIP(q) PROVE q = r
      BY <2>1, <3>1 DEF AllowIP
    <3>2. ASSUME NEW q \in Requests, NEW c \in Addrs, Arrive(q, c) PROVE FALSE
      <4>1. req[q] = Idle /\ req' = [req EXCEPT ![q] = [ip |-> c, now |-> now]]
        BY <3>2 DEF Arrive
      <4> QED BY <2>1, <4>1
    <3>3. ASSUME Tick \/ UNCHANGED vars PROVE FALSE
      BY <3>3 DEF Tick, vars
    <3> QED BY <1>1, <3>1, <3>2, <3>3 DEF Next
  <2>3. PICK a \in Addrs, t \in Nat :
              /\ a = req[r].ip /\ t = req[r].now
              /\ t <= now
              /\ admitted' = [admitted EXCEPT ![a] = Through(SweepLocked(t)[a], t, admitted[a])]
    BY <1>1, <2>2, AllowIPEffect
  <2> DEFINE b == SweepLocked(t)[a]
  <2>4. /\ b \in Bucket \cup {NoBucket} /\ PromiseOK(b, promised[a])
        /\ promised[a] \in Int /\ admitted \in [Addrs -> Seq(Nat)]
    <3>1. promised[a] \in Int /\ admitted \in [Addrs -> Seq(Nat)]
      BY <1>1, <2>3 DEF IInv, TypeInv
    <3>2. b \in Bucket \cup {NoBucket} /\ PromiseOK(b, promised[a])
      BY <1>1, <2>3, SweepKeeps
    <3> QED BY <3>1, <3>2
  <2> HIDE DEF b
  <2>5. Refilled(b, t) >= Unit
    BY <2>3, <2>4, PromiseKept
  <2>6. admitted'[a] = Append(admitted[a], t)
    BY <2>3, <2>4, <2>5 DEF Through, b
  <2> QED BY <2>3, <2>4, <2>6
<1> QED BY <1>1, LimiterInvariant, PTL DEF Spec, RetryAfterIsKept
=============================================================================
