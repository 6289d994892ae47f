---------------------------- MODULE LimitsProofs ----------------------------
(***************************************************************************)
(* What the limits let through, for every rate, burst and number of        *)
(* points: the token bucket of consumers/ratelimit.go and the guardrails   *)
(* and the decimation of the dashboard metrics, which rest on facts about  *)
(* the integer quotient; and, from the second, what the answers of the     *)
(* dashboard metrics are about while the collection grows.                 *)
(***************************************************************************)
EXTENDS TokenBucket, MetricsQuery, FiniteSetTheorems, TLAPS

LEMMA Division ==
    ASSUME NEW a \in Nat, NEW d \in Nat \ {0}
    PROVE  /\ a \div d \in Nat /\ a % d \in 0 .. d - 1
           /\ a = d * (a \div d) + (a % d)
OBVIOUS

LEMMA Quotient ==
    ASSUME NEW a \in Int, NEW d \in Nat \ {0}
    PROVE  /\ a \div d \in Int /\ a % d \in 0 .. d - 1
           /\ a = d * (a \div d) + (a % d)
OBVIOUS

LEMMA Monotone ==
    ASSUME NEW d \in Nat \ {0}, NEW x \in Int, NEW y \in Int, d * x < d * y
    PROVE  x < y
OBVIOUS

-----------------------------------------------------------------------------
(* The rate limit.                                                         *)

LEMMA Constants ==
    /\ Unit \in Nat \ {0} /\ Refill \in Nat \ {0} /\ Burst \in Nat \ {0}
    /\ Second \in Nat \ {0} /\ Lag \in Nat /\ MaxTime \in Nat
    /\ MaxSkew \in Nat /\ Skews \subseteq 0..MaxSkew
  BY BucketAssumption

(* More time is worth more tokens.                                         *)
LEMMA Scaled ==
    ASSUME NEW x \in Int, NEW y \in Int, x <= y
    PROVE  x * Refill \in Int /\ y * Refill \in Int /\ x * Refill <= y * Refill
<1>1. Refill \in Nat
  BY Constants
<1> QED
  BY <1>1

LEMMA Sums ==
    ASSUME NEW x \in Int, NEW y \in Int
    PROVE  (x + y) * Refill = x * Refill + y * Refill
<1>1. Refill \in Nat
  BY Constants
<1> QED
  BY <1>1

(* The quotient rounded up is the least number of parts that is enough.    *)
LEMMA Ceiling ==
    ASSUME NEW a \in Nat, NEW b \in Nat \ {0}
    PROVE  /\ CeilDiv(a, b) \in Nat
           /\ a <= CeilDiv(a, b) * b
           /\ (CeilDiv(a, b) - 1) * b < a
<1> DEFINE n == a + b - 1
           c == n \div b
<1>1. n \in Nat
  OBVIOUS
<1>2. n = a + b - 1
  OBVIOUS
<1> HIDE DEF n
<1>3. c \in Nat /\ n % b \in 0 .. b - 1 /\ n = b * c + (n % b)
  BY <1>1, Division
<1>4. CeilDiv(a, b) = c
  BY <1>2 DEF CeilDiv, n
<1> HIDE DEF c
<1>5. b * c \in Int /\ c * b = b * c /\ (c - 1) * b = b * c - b
  BY <1>3
<1>6. a <= b * c /\ b * c - b < a
  BY <1>2, <1>3, <1>5
<1> QED
  BY <1>3, <1>4, <1>5, <1>6

(* The hash outlives the time the bucket needs to fill up by a second.     *)
LEMMA Expiry ==
    /\ Full \in Nat /\ Unit <= Full
    /\ PExpire \in Nat /\ PExpire >= Second
    /\ Full <= (PExpire - Second) * Refill
<1>1. Full \in Nat /\ Unit <= Full
  <2>1. Unit \in Nat \ {0} /\ Burst \in Nat \ {0}
    BY Constants
  <2> QED
    BY <2>1 DEF Full
<1> DEFINE c == CeilDiv(Full, Refill)
<1>2. c \in Nat /\ Full <= c * Refill
  BY <1>1, Constants, Ceiling
<1>3. PExpire = c + Second
  BY DEF PExpire
<1> HIDE DEF c
<1>4. PExpire \in Nat /\ PExpire >= Second /\ PExpire - Second = c
  BY <1>2, <1>3, Constants
<1> QED
  BY <1>1, <1>2, <1>4

LEMMA RefilledType ==
    ASSUME TypeOK, NEW t \in Int
    PROVE  Refilled(t) \in 0..Full
<1>1. Full \in Nat
  BY Expiry
<1>2. bucket.tokens \in 0..Full /\ bucket.ts \in Nat
  BY DEF TypeOK
<1> DEFINE gain == Greater(0, t - bucket.ts)
<1>3. gain \in Nat
  BY <1>2 DEF Greater
<1> HIDE DEF gain
<1>4. gain * Refill \in Nat
  BY <1>3, Constants
<1>5. Refilled(t) = IF bucket.on THEN Lesser(Full, bucket.tokens + gain * Refill) ELSE Full
  BY DEF Refilled, gain
<1> HIDE DEF Full
<1> QED
  BY <1>1, <1>2, <1>4, <1>5 DEF Lesser

LEMMA RetryAfterType ==
    ASSUME NEW k \in Nat, k < Unit
    PROVE  /\ RetryAfter(k) \in Nat \ {0}
           /\ Unit - k <= RetryAfter(k) * (Refill * Second)
           /\ RetryAfter(k) > 1 => (RetryAfter(k) - 1) * (Refill * Second) < Unit - k
<1> DEFINE a == Unit - k
           b == Refill * Second
           c == CeilDiv(a, b)
<1>1. a \in Nat \ {0} /\ b \in Nat \ {0}
  BY Constants
<1>2. RetryAfter(k) = Greater(1, c)
  BY DEF RetryAfter
<1> HIDE DEF a, b
<1>3. c \in Nat /\ a <= c * b /\ (c - 1) * b < a
  BY <1>1, Ceiling
<1> HIDE DEF c
<1>4. c # 0
  BY <1>1, <1>3
<1>5. RetryAfter(k) = c
  BY <1>2, <1>3, <1>4 DEF Greater
<1> QED
  BY <1>3, <1>4, <1>5 DEF a, b

(* What a script that sets ts back takes from the clock, it does not add.  *)
LEMMA RewindType ==
    ASSUME TypeOK, NEW t \in Nat
    PROVE  /\ Rewind(t) \in Nat
           /\ bucket.on => bucket.ts + Greater(0, t - bucket.ts) = t + Rewind(t)
           /\ (bucket.on => bucket.ts <= t) => Rewind(t) = 0
<1>1. bucket.ts \in Nat
  BY DEF TypeOK
<1> QED
  BY <1>1 DEF Rewind, Greater

(* The outcome of a script, named once for the proofs.                     *)
LEMMA AllowStep ==
    ASSUME TypeOK, NEW q \in Requests, Allow(q)
    PROVE  /\ read[q] \in Nat
           /\ Refilled(read[q]) \in 0..Full
           /\ now' = now /\ read' = [read EXCEPT ![q] = -1]
           /\ bucket' = [on |-> TRUE, ts |-> read[q], dies |-> now + PExpire,
                         tokens |-> IF Refilled(read[q]) >= Unit THEN Refilled(read[q]) - Unit
                                    ELSE Refilled(read[q])]
           /\ promise' = IF Refilled(read[q]) >= Unit THEN -1
                         ELSE read[q] + RetryAfter(Refilled(read[q])) * Second
           /\ win' = IF win.start = -1 THEN win
                     ELSE [start  |-> win.start,
                           grants |-> IF Refilled(read[q]) >= Unit THEN win.grants + 1
                                      ELSE win.grants,
                           back   |-> win.back + Rewind(read[q])]
<1>1. read[q] \in Nat
  BY DEF TypeOK, Allow
<1>2. Refilled(read[q]) \in 0..Full
  BY <1>1, RefilledType
<1> QED
  BY <1>1, <1>2 DEF Allow, Enough

LEMMA TypeInit == Init => TypeOK
<1> SUFFICES ASSUME Init PROVE TypeOK
  OBVIOUS
<1>1. 0 \in 0..Full
  BY Expiry
<1> QED
  BY <1>1 DEF Init, TypeOK, NoBucket

LEMMA TypeNext == TypeOK /\ [Next]_vars => TypeOK'
<1> SUFFICES ASSUME TypeOK, [Next]_vars PROVE TypeOK'
  OBVIOUS
<1>1. CASE UNCHANGED vars
  BY <1>1 DEF vars, TypeOK
<1>2. CASE Tick
  <2>1. 0 \in 0..Full
    BY Expiry
  <2> QED
    BY <1>2, <2>1 DEF Tick, TypeOK, NoBucket
<1>3. CASE OpenWindow
  BY <1>3 DEF OpenWindow, TypeOK
<1>4. ASSUME NEW q \in Requests, ReadClock(q) PROVE TypeOK'
  BY <1>4, Constants DEF ReadClock, TypeOK
<1>5. ASSUME NEW q \in Requests, FailOpen(q) PROVE TypeOK'
  BY <1>5 DEF FailOpen, TypeOK
<1>6. ASSUME NEW q \in Requests, Allow(q) PROVE TypeOK'
  <2> DEFINE n == Refilled(read[q])
             left == IF n >= Unit THEN n - Unit ELSE n
  <2>0. Full \in Nat /\ PExpire \in Nat /\ Unit \in Nat /\ Second \in Nat
    BY Expiry, Constants
  <2>1. /\ read[q] \in Nat /\ n \in 0..Full /\ now' = now /\ read' = [read EXCEPT ![q] = -1]
        /\ bucket' = [on |-> TRUE, ts |-> read[q], dies |-> now + PExpire, tokens |-> left]
        /\ promise' = IF n >= Unit THEN -1 ELSE read[q] + RetryAfter(n) * Second
        /\ win' = IF win.start = -1 THEN win
                  ELSE [start  |-> win.start,
                        grants |-> IF n >= Unit THEN win.grants + 1 ELSE win.grants,
                        back   |-> win.back + Rewind(read[q])]
    BY <1>6, AllowStep
  <2> HIDE DEF n
  <2>2. left \in 0..Full
    BY <2>0, <2>1
  <2> HIDE DEF left
  <2>3. bucket' \in [on : BOOLEAN, tokens : 0..Full, ts : Nat, dies : Nat]
    BY <2>0, <2>1, <2>2 DEF TypeOK
  <2>4. promise' \in Nat \cup {-1}
    <3>1. CASE n >= Unit
      BY <2>1, <3>1
    <3>2. CASE n < Unit
      <4>1. RetryAfter(n) \in Nat
        BY <2>0, <2>1, <3>2, RetryAfterType
      <4>2. RetryAfter(n) * Second \in Nat
        BY <2>0, <4>1
      <4> QED
        BY <2>0, <2>1, <3>2, <4>2
    <3> QED
      BY <2>0, <2>1, <3>1, <3>2
  <2>5. win' \in [start : Nat \cup {-1}, grants : Nat, back : Nat]
    <3>1. Rewind(read[q]) \in Nat
      BY <2>1, RewindType
    <3> HIDE DEF n
    <3> QED
      BY <2>1, <3>1 DEF TypeOK
  <2> QED
    BY <2>1, <2>3, <2>4, <2>5 DEF TypeOK
<1> QED
  BY <1>1, <1>2, <1>3, <1>4, <1>5, <1>6 DEF Next

(* The balance of the bucket is never negative and never above the burst,  *)
(* whatever clocks the callers carry.                                      *)
THEOREM BucketTyped == Spec => []TypeOK
  BY TypeInit, TypeNext, PTL DEF Spec

-----------------------------------------------------------------------------
(* Retry-After.  A promise stands as long as no script ran since, so the   *)
(* bucket is the one the refusal left, or it has expired.                  *)

PromiseKept ==
    promise # -1 /\ bucket.on =>
        bucket.tokens < Unit /\ promise = bucket.ts + RetryAfter(bucket.tokens) * Second

LEMMA PromiseNext == TypeOK /\ PromiseKept /\ [Next]_vars => PromiseKept'
<1> SUFFICES ASSUME TypeOK, PromiseKept, [Next]_vars PROVE PromiseKept'
  OBVIOUS
<1>1. ASSUME promise' = promise, bucket' = bucket PROVE PromiseKept'
  BY <1>1 DEF PromiseKept, RetryAfter
<1>2. CASE Tick
  <2>1. CASE bucket' = bucket
    BY <1>1, <1>2, <2>1 DEF Tick
  <2>2. CASE bucket' = NoBucket
    BY <2>2 DEF PromiseKept, NoBucket
  <2> QED
    BY <1>2, <2>1, <2>2 DEF Tick
<1>3. ASSUME NEW q \in Requests, Allow(q) PROVE PromiseKept'
  <2>1. Refilled(read[q]) \in 0..Full /\ Full \in Nat /\ Unit \in Nat
    BY <1>3, AllowStep, Expiry, Constants
  <2>2. CASE Refilled(read[q]) >= Unit
    BY <1>3, <2>2, AllowStep DEF PromiseKept
  <2>3. CASE Refilled(read[q]) < Unit
    <3>1. /\ promise' = read[q] + RetryAfter(Refilled(read[q])) * Second
          /\ bucket'.ts = read[q] /\ bucket'.tokens = Refilled(read[q])
      BY <1>3, <2>1, <2>3, AllowStep
    <3> QED
      BY <2>3, <3>1 DEF PromiseKept, RetryAfter
  <2> QED
    BY <2>1, <2>2, <2>3
<1> QED
  BY <1>1, <1>2, <1>3 DEF Next, vars, OpenWindow, ReadClock, FailOpen

LEMMA PromiseHonest == TypeOK /\ PromiseKept => RetryHonest
<1> SUFFICES ASSUME TypeOK, PromiseKept, promise # -1
             PROVE  /\ \A t \in promise..(promise + PExpire) : Enough(Refilled(t))
                    /\ bucket.on /\ promise - bucket.ts > Second => ~Enough(Refilled(promise - Second))
  BY DEF RetryHonest
<1>1. CASE ~bucket.on
  BY <1>1, Expiry DEF Enough, Refilled
<1>2. CASE bucket.on
  <2> DEFINE k == bucket.tokens
             ts == bucket.ts
             n == RetryAfter(k)
  <2>1. k \in Nat /\ ts \in Nat /\ promise \in Nat
    BY <1>2, Expiry DEF TypeOK
  <2>2. k < Unit /\ promise = ts + n * Second
    BY <1>2 DEF PromiseKept
  <2>0. Unit \in Nat \ {0} /\ Refill \in Nat \ {0} /\ Second \in Nat \ {0}
        /\ Full \in Nat /\ Unit <= Full /\ PExpire \in Nat
    BY Constants, Expiry
  <2>3. /\ n \in Nat \ {0} /\ Unit - k <= n * (Refill * Second)
        /\ n > 1 => (n - 1) * (Refill * Second) < Unit - k
    BY <2>1, <2>2, RetryAfterType
  <2>4. \A t : Refilled(t) = Lesser(Full, k + Greater(0, t - ts) * Refill)
    BY <1>2 DEF Refilled
  <2> HIDE DEF k, ts, n
  <2>5. n * (Refill * Second) = (n * Second) * Refill
        /\ (n - 1) * (Refill * Second) = (n * Second - Second) * Refill
        /\ n * Second \in Nat
    BY <2>0, <2>3
  <2>6. ASSUME NEW t \in promise..(promise + PExpire) PROVE Enough(Refilled(t))
    <3>1. t \in Int /\ n * Second <= t - ts /\ Greater(0, t - ts) = t - ts
      BY <2>0, <2>1, <2>2, <2>5, <2>6 DEF Greater
    <3>2. (n * Second) * Refill <= (t - ts) * Refill /\ (t - ts) * Refill \in Int
      BY <2>1, <2>5, <3>1, Scaled
    <3>3. Unit <= k + (t - ts) * Refill
      BY <2>0, <2>1, <2>3, <2>5, <3>2
    <3> QED
      BY <2>0, <2>1, <2>4, <3>1, <3>2, <3>3 DEF Enough, Lesser
  <2>7. ASSUME promise - ts > Second PROVE ~Enough(Refilled(promise - Second))
    <3>1. n > 1
      <4>1. n * Second > 1 * Second
        BY <2>0, <2>1, <2>2, <2>5, <2>7
      <4> QED
        BY <2>0, <2>3, <4>1
    <3>2. Greater(0, (promise - Second) - ts) = n * Second - Second
      BY <2>0, <2>1, <2>2, <2>5, <2>7 DEF Greater
    <3> DEFINE g == (n * Second - Second) * Refill
    <3>3. k + g < Unit /\ g \in Int
      BY <2>0, <2>1, <2>3, <2>5, <3>1
    <3>4. Refilled(promise - Second) = Lesser(Full, k + g)
      BY <2>4, <3>2
    <3> HIDE DEF g
    <3> QED
      BY <2>0, <2>1, <3>3, <3>4 DEF Enough, Lesser
  <2> QED
    BY <2>6, <2>7 DEF ts
<1> QED
  BY <1>1, <1>2

(* The Retry-After of a 429 is long enough and not a second too long, for  *)
(* every rate, burst and number of callers, in whatever order their        *)
(* scripts run.                                                            *)
THEOREM RetryAfterHonest == Spec => []RetryHonest
<1>1. Init => PromiseKept
  BY DEF Init, PromiseKept
<1> QED
  BY <1>1, BucketTyped, PromiseNext, PromiseHonest, PTL DEF Spec

-----------------------------------------------------------------------------
(* The rate, for callers that overlap on clocks that differ, whose scripts *)
(* run within the second PEXPIRE adds to the time the bucket needs to fill *)
(* up, the farthest clock included.                                        *)

(* No reading is older than Lag or ahead by more than MaxSkew, and a hash  *)
(* lives long enough by its own clock.                                     *)
ClockInv ==
    /\ bucket.on => bucket.ts <= now + MaxSkew /\ bucket.ts + PExpire <= bucket.dies + MaxSkew
    /\ \A q \in Requests : read[q] # -1 => read[q] <= now + MaxSkew /\ now <= read[q] + Lag

(* What was granted in the window and what the bucket still holds were in  *)
(* it when the window began, or came in since, the time set back counted   *)
(* twice; an expired bucket holds what the time without grants would have  *)
(* brought.                                                                *)
WindowInv ==
    win.start # -1 =>
        /\ win.start <= now
        /\ \/ win.grants = 0
           \/ IF bucket.on
              THEN /\ win.start <= bucket.ts + Lag
                   /\ win.grants * Unit + bucket.tokens
                         <= Full + (bucket.ts - win.start + Lag + win.back) * Refill
              ELSE win.grants * Unit <= (now - win.start + win.back) * Refill

RateInv == TypeOK /\ ClockInv /\ WindowInv

LEMMA ClockNext ==
    ASSUME TypeOK, ClockInv, [Next]_vars
    PROVE  ClockInv'
<1>0. PExpire \in Nat /\ Lag \in Nat /\ MaxSkew \in Nat /\ Skews \subseteq 0..MaxSkew
  BY Expiry, Constants
<1> USE DEF ClockInv
<1>t. /\ now \in Nat /\ bucket.ts \in Nat /\ bucket.dies \in Nat
      /\ read \in [Requests -> Nat \cup {-1}]
  BY DEF TypeOK
<1>1. CASE UNCHANGED vars
  BY <1>1 DEF vars, PExpire
<1>2. CASE OpenWindow
  BY <1>2 DEF OpenWindow, PExpire
<1>3. CASE Tick
  <2>1. now' = now + 1 /\ read' = read
    BY <1>3 DEF Tick
  <2>2. bucket' = bucket \/ ~bucket'.on
    BY <1>3 DEF Tick, NoBucket
  <2>3. \A q \in Requests : read[q] # -1 => now - read[q] < Lag
    BY <1>3 DEF Tick
  <2>4. PExpire' = PExpire
    BY DEF PExpire
  <2> HIDE DEF ClockInv
  <2>5. (bucket.on => bucket.ts <= now + MaxSkew /\ bucket.ts + PExpire <= bucket.dies + MaxSkew)'
    BY <1>0, <1>t, <2>1, <2>2, <2>4 DEF ClockInv
  <2>6. ASSUME NEW q \in Requests, read[q] # -1
        PROVE  read[q] <= now + 1 + MaxSkew /\ now + 1 <= read[q] + Lag
    BY <1>0, <1>t, <2>3, <2>6 DEF ClockInv
  <2> QED
    BY <2>1, <2>5, <2>6 DEF ClockInv
<1>4. ASSUME NEW q \in Requests, ReadClock(q) PROVE ClockInv'
  <2>0. PICK s \in Skews : read' = [read EXCEPT ![q] = now + s]
    BY <1>4 DEF ReadClock
  <2>1. now' = now /\ bucket' = bucket /\ s \in 0..MaxSkew
    BY <1>0, <1>4 DEF ReadClock
  <2>2. now + s <= now + MaxSkew /\ now <= now + s + Lag
    BY <1>0, <1>t, <2>1
  <2> QED
    BY <1>0, <1>t, <2>0, <2>1, <2>2 DEF PExpire
<1>5. ASSUME NEW q \in Requests, FailOpen(q) PROVE ClockInv'
  BY <1>5, <1>t DEF FailOpen, PExpire
<1>6. ASSUME NEW q \in Requests, Allow(q) PROVE ClockInv'
  <2>1. /\ read[q] \in Nat /\ now' = now /\ read' = [read EXCEPT ![q] = -1]
        /\ bucket'.ts = read[q] /\ bucket'.dies = now + PExpire
    BY <1>6, AllowStep
  <2>2. read[q] <= now + MaxSkew
    BY <2>1
  <2>3. \A p \in Requests : read'[p] # -1 => read'[p] = read[p]
    BY <2>1, <1>t
  <2>4. PExpire' = PExpire
    BY DEF PExpire
  <2> QED
    BY <1>0, <1>t, <2>1, <2>2, <2>3, <2>4
<1> QED
  BY <1>1, <1>2, <1>3, <1>4, <1>5, <1>6 DEF Next

(* What a script that carries the reading of request q finds.              *)
LEMMA Balance ==
    ASSUME RateInv, NEW q \in Requests, read[q] # -1, win.start # -1
    PROVE  /\ win.start <= read[q] + Lag
           /\ win.grants * Unit + Refilled(read[q])
                 <= Full + (read[q] - win.start + Lag + (win.back + Rewind(read[q]))) * Refill
<1> DEFINE t == read[q]
           g == win.grants
           s == win.start
           b == win.back
           gu == g * Unit
           ts == bucket.ts
           k == bucket.tokens
           e == Greater(0, t - ts)
           r == Rewind(t)
<1>0. Full \in Nat /\ Lag \in Nat /\ Unit \in Nat /\ Refill \in Nat
  BY Expiry, Constants
<1>1. /\ t \in Nat /\ s \in Nat /\ g \in Nat /\ b \in Nat /\ ts \in Nat /\ k \in 0..Full
      /\ now \in Nat
  BY DEF RateInv, TypeOK
<1>2. now <= t + Lag /\ s <= now
  BY DEF RateInv, ClockInv, WindowInv
<1>3. Refilled(t) \in 0..Full
  BY <1>1, RefilledType DEF RateInv
<1>4. gu \in Nat
  BY <1>0, <1>1
<1>5. bucket.on => Refilled(t) = Lesser(Full, k + e * Refill)
  BY DEF Refilled
<1>6. ~bucket.on => Refilled(t) = Full
  BY DEF Refilled
<1>7. g = 0 \/ IF bucket.on THEN s <= ts + Lag /\ gu + k <= Full + (ts - s + Lag + b) * Refill
               ELSE gu <= (now - s + b) * Refill
  BY DEF RateInv, WindowInv
<1>8. g = 0 => gu = 0
  BY <1>0
<1>r. r \in Nat /\ (bucket.on => ts + e = t + r)
  BY <1>1, RewindType DEF RateInv
<1>e. e \in Nat
  BY <1>1 DEF Greater
<1> HIDE DEF t, g, s, b, gu, ts, k, e, r
<1>9. s <= t + Lag
  BY <1>0, <1>1, <1>2
<1>10. gu + Refilled(t) <= Full + (t - s + Lag + (b + r)) * Refill
  <2> DEFINE G == (t - s + Lag + (b + r)) * Refill
             n == Refilled(t)
  <2>n. n \in Int /\ n <= Full
    BY <1>0, <1>3
  <2>0. G \in Int /\ 0 <= G
    <3>1. t - s + Lag + (b + r) \in Int /\ 0 <= t - s + Lag + (b + r)
      BY <1>0, <1>1, <1>9, <1>r
    <3>2. 0 * Refill <= (t - s + Lag + (b + r)) * Refill /\ (t - s + Lag + (b + r)) * Refill \in Int
      BY <3>1, Scaled
    <3> QED
      BY <1>0, <3>2
  <2>1. ASSUME g = 0 PROVE gu + n <= Full + G
    <3> HIDE DEF G, n
    <3> QED
      BY <1>0, <1>8, <2>0, <2>1, <2>n
  <2>2. ASSUME g # 0, bucket.on PROVE gu + n <= Full + G
    <3> DEFINE c == ts - s + Lag + b
               x == e * Refill
               y == c * Refill
    <3>1. c \in Int /\ t - s + Lag + (b + r) = e + c
      BY <1>0, <1>1, <1>e, <1>r, <2>2
    <3>2. gu + k <= Full + y
      BY <1>7, <2>2
    <3> HIDE DEF c
    <3>3. x \in Int /\ y \in Int /\ (e + c) * Refill = x + y
      BY <1>0, <1>e, <3>1, Sums
    <3>4. G = x + y
      BY <3>1, <3>3
    <3>5. n <= k + x
      <4>1. n = Lesser(Full, k + x)
        BY <1>5, <2>2
      <4> HIDE DEF x, n
      <4> QED
        BY <1>0, <1>1, <3>3, <4>1 DEF Lesser
    <3> HIDE DEF G, x, y, n
    <3> QED
      BY <1>0, <1>1, <1>4, <2>n, <3>2, <3>3, <3>4, <3>5
  <2>3. ASSUME g # 0, ~bucket.on PROVE gu + n <= Full + G
    <3>0. /\ now - s + b \in Int /\ t - s + Lag + (b + r) \in Int
          /\ now - s + b <= t - s + Lag + (b + r)
      BY <1>0, <1>1, <1>2, <1>r
    <3>1. (now - s + b) * Refill <= G /\ (now - s + b) * Refill \in Int
      BY <3>0, Scaled
    <3>2. gu <= (now - s + b) * Refill
      BY <1>7, <2>3
    <3> DEFINE z == (now - s + b) * Refill
    <3>3. gu <= z /\ z <= G /\ z \in Int
      BY <3>1, <3>2
    <3> HIDE DEF G, z, n
    <3> QED
      BY <1>0, <1>4, <2>0, <2>n, <3>3
  <2>4. gu + n <= Full + G
    BY <2>1, <2>2, <2>3
  <2> QED
    BY <2>4
<1> QED
  BY <1>9, <1>10 DEF t, g, s, b, gu, r

LEMMA WindowNext ==
    ASSUME Lag + MaxSkew <= Second, RateInv, [Next]_vars
    PROVE  WindowInv'
<1>0. /\ Full \in Nat /\ Lag \in Nat /\ Unit \in Nat /\ Refill \in Nat /\ PExpire \in Nat
      /\ Second \in Nat /\ MaxSkew \in Nat
  BY Expiry, Constants
<1>t. /\ now \in Nat /\ bucket.ts \in Nat /\ bucket.dies \in Nat /\ bucket.tokens \in 0..Full
      /\ read \in [Requests -> Nat \cup {-1}]
      /\ win \in [start : Nat \cup {-1}, grants : Nat, back : Nat]
  BY DEF RateInv, TypeOK
<1>f. Full' = Full
  BY DEF Full
<1>1. ASSUME win' = win, bucket' = bucket, now' = now PROVE WindowInv'
  BY <1>1, <1>f DEF RateInv, WindowInv
<1>2. CASE OpenWindow
  <2>1. win'.start = now /\ win'.grants = 0 /\ now' = now
    BY <1>2 DEF OpenWindow
  <2>2. now <= now
    BY <1>t
  <2> QED
    BY <2>1, <2>2 DEF WindowInv
<1>3. CASE Tick
  <2> DEFINE Paid ==
        IF bucket'.on
        THEN /\ win.start <= bucket'.ts + Lag
             /\ win.grants * Unit + bucket'.tokens
                   <= Full + (bucket'.ts - win.start + Lag + win.back) * Refill
        ELSE win.grants * Unit <= ((now + 1) - win.start + win.back) * Refill
  <2>a. win' = win /\ now' = now + 1
    BY <1>3 DEF Tick
  <2>b. win.start # -1 => win.start <= now + 1
    BY <1>t DEF RateInv, WindowInv
  <2> SUFFICES ASSUME win.start # -1, win.grants # 0 PROVE Paid
    BY <1>f, <2>a, <2>b DEF WindowInv
  <2> DEFINE gu == win.grants * Unit
             s == win.start
             b == win.back
  <2>1. gu \in Nat /\ s \in Nat /\ b \in Nat
    BY <1>0, <1>t
  <2>2. CASE bucket'.on
    <3>1. bucket' = bucket /\ bucket.on
      BY <1>3, <2>2 DEF Tick, NoBucket
    <3> QED
      BY <2>2, <3>1 DEF RateInv, WindowInv
  <2>3. CASE ~bucket'.on /\ ~bucket.on
    <3>1. gu <= (now - s + b) * Refill
      BY <2>3 DEF RateInv, WindowInv
    <3> DEFINE x == (now - s + b) * Refill
               y == ((now + 1) - s + b) * Refill
    <3>2. x <= y /\ x \in Int /\ y \in Int
      <4>1. now - s + b \in Int /\ (now + 1) - s + b \in Int /\ now - s + b <= (now + 1) - s + b
        BY <1>t, <2>1
      <4> QED
        BY <4>1, Scaled
    <3>3. gu <= x
      BY <3>1
    <3> HIDE DEF gu, s, b, x, y
    <3>4. gu <= y
      BY <2>1, <3>2, <3>3
    <3> QED
      BY <2>3, <3>4 DEF gu, s, b, y
  <2>4. CASE ~bucket'.on /\ bucket.on
    <3>1. now + 1 >= bucket.dies
      BY <1>3, <2>4 DEF Tick
    <3>2. bucket.ts + PExpire <= bucket.dies + MaxSkew
      BY <2>4 DEF RateInv, ClockInv
    <3> DEFINE x == bucket.ts - s + Lag + b
               y == PExpire - Second
               z == (now + 1) - s + b
               k == bucket.tokens
    <3>3. x \in Int /\ y \in Int /\ z \in Int /\ x + y <= z /\ k \in Nat
      BY <1>0, <1>t, <2>1, <3>1, <3>2
    <3>4. gu + k <= Full + x * Refill
      BY <2>4 DEF RateInv, WindowInv
    <3>5. Full <= y * Refill
      BY Expiry
    <3> HIDE DEF gu, s, b, x, y, z, k
    <3>6. (x + y) * Refill = x * Refill + y * Refill
      BY <3>3, Sums
    <3>7. (x + y) * Refill <= z * Refill /\ z * Refill \in Int
      BY <3>3, Scaled
    <3>8. x * Refill \in Int /\ y * Refill \in Int
      BY <1>0, <3>3
    <3> DEFINE X == x * Refill
               Y == y * Refill
               Z == z * Refill
    <3>9. X \in Int /\ Y \in Int /\ Z \in Int /\ X + Y <= Z /\ gu + k <= Full + X /\ Full <= Y
      BY <3>4, <3>5, <3>6, <3>7, <3>8
    <3> HIDE DEF X, Y, Z
    <3>10. gu <= Z
      BY <1>0, <2>1, <3>3, <3>9
    <3> QED
      BY <2>4, <3>10 DEF gu, Z, z, s, b
  <2> QED
    BY <2>2, <2>3, <2>4
<1>4. ASSUME NEW q \in Requests, Allow(q) PROVE WindowInv'
  <2> DEFINE n == Refilled(read[q])
             t == read[q]
             r == Rewind(read[q])
  <2>1. /\ t \in Nat /\ n \in 0..Full /\ now' = now
        /\ bucket' = [on |-> TRUE, ts |-> t, dies |-> now + PExpire,
                      tokens |-> IF n >= Unit THEN n - Unit ELSE n]
        /\ win' = IF win.start = -1 THEN win
                  ELSE [start  |-> win.start,
                        grants |-> IF n >= Unit THEN win.grants + 1 ELSE win.grants,
                        back   |-> win.back + r]
    BY <1>4, AllowStep DEF RateInv
  <2>r. r \in Nat
    BY <2>1, RewindType DEF RateInv
  <2>2. SUFFICES ASSUME win.start # -1 PROVE WindowInv'
    BY <1>t, <2>1 DEF WindowInv
  <2> DEFINE s == win.start
             g == win.grants
             b == win.back
  <2>3. s <= t + Lag /\ g * Unit + n <= Full + (t - s + Lag + (b + r)) * Refill /\ s <= now
    BY <1>4, <2>2, Balance DEF Allow, RateInv, WindowInv
  <2>4. s \in Nat /\ g \in Nat /\ g * Unit \in Nat /\ (g + 1) * Unit = g * Unit + Unit
    BY <1>0, <1>t, <2>1, <2>2
  <2> HIDE DEF r
  <2>5. win'.start = s /\ win'.back = b + r /\ bucket'.on /\ bucket'.ts = t
    BY <1>t, <2>1, <2>2
  <2>6. win'.grants * Unit + bucket'.tokens = g * Unit + n
    <3>1. CASE n >= Unit
      <4>1. win'.grants = g + 1 /\ bucket'.tokens = n - Unit
        BY <1>t, <2>1, <2>2, <3>1
      <4>2. win'.grants * Unit = g * Unit + Unit
        BY <2>4, <4>1
      <4> DEFINE gu == g * Unit
                 gv == win'.grants * Unit
      <4>3. gv = gu + Unit /\ gu \in Nat
        BY <2>4, <4>2
      <4> HIDE DEF gu, gv, n
      <4>4. gv + bucket'.tokens = gu + n
        BY <1>0, <2>1, <4>1, <4>3
      <4> QED
        BY <4>4 DEF gu, gv
    <3>2. CASE ~(n >= Unit)
      <4>1. win'.grants = g /\ bucket'.tokens = n
        BY <1>t, <2>1, <2>2, <3>2
      <4> QED
        BY <4>1
    <3> QED
      BY <3>1, <3>2
  <2>7. Lag' = Lag /\ Unit' = Unit /\ Refill' = Refill
    OBVIOUS
  <2> HIDE DEF n, t, s, g, b
  <2> QED
    BY <1>f, <2>1, <2>3, <2>5, <2>6 DEF WindowInv
<1> QED
  BY <1>1, <1>2, <1>3, <1>4 DEF Next, vars, ReadClock, FailOpen

LEMMA InvBounds == RateInv => OverlapBound
<1> SUFFICES ASSUME RateInv, win.start # -1
             PROVE  win.grants * Unit
                       <= Full + (now - win.start + Lag + MaxSkew + win.back) * Refill
  BY DEF OverlapBound
<1>0. Full \in Nat /\ Lag \in Nat /\ Unit \in Nat /\ Refill \in Nat /\ MaxSkew \in Nat
  BY Expiry, Constants
<1> DEFINE g == win.grants
           s == win.start
           b == win.back
           gu == g * Unit
           m == now - s + Lag + MaxSkew + b
           G == m * Refill
<1>1. /\ g \in Nat /\ s \in Nat /\ b \in Nat /\ now \in Nat /\ bucket.ts \in Nat
      /\ bucket.tokens \in 0..Full /\ s <= now
  BY DEF RateInv, TypeOK, WindowInv
<1>2. gu \in Nat /\ (g = 0 => gu = 0)
  BY <1>0, <1>1
<1>3. G \in Int /\ 0 <= G
  <2>0. m \in Int /\ 0 <= m
    BY <1>0, <1>1
  <2>1. 0 * Refill <= m * Refill /\ G \in Int
    BY <2>0, Scaled
  <2> QED
    BY <1>0, <2>1
<1>4. CASE g = 0
  <2> HIDE DEF gu, G
  <2>1. gu <= Full + G
    BY <1>0, <1>2, <1>3, <1>4
  <2> QED
    BY <2>1 DEF gu, G
<1>5. CASE g # 0 /\ bucket.on
  <2> DEFINE x == (bucket.ts - s + Lag + b) * Refill
             k == bucket.tokens
  <2>1. gu + k <= Full + x
    BY <1>5 DEF RateInv, WindowInv
  <2>2. bucket.ts <= now + MaxSkew
    BY <1>5 DEF RateInv, ClockInv
  <2>3. x <= G /\ x \in Int
    <3>1. bucket.ts - s + Lag + b \in Int /\ m \in Int /\ bucket.ts - s + Lag + b <= m
      BY <1>0, <1>1, <2>2
    <3> QED
      BY <3>1, Scaled
  <2> HIDE DEF gu, G, x
  <2>4. gu <= Full + G
    BY <1>0, <1>1, <1>2, <1>3, <2>1, <2>3
  <2> QED
    BY <2>4 DEF gu, G
<1>6. CASE g # 0 /\ ~bucket.on
  <2> DEFINE x == (now - s + b) * Refill
  <2>1. gu <= x
    BY <1>6 DEF RateInv, WindowInv
  <2>2. x <= G /\ x \in Int
    <3>1. now - s + b \in Int /\ m \in Int /\ now - s + b <= m
      BY <1>0, <1>1
    <3> QED
      BY <3>1, Scaled
  <2> HIDE DEF gu, G, x
  <2>3. gu <= Full + G
    BY <1>0, <1>2, <1>3, <2>1, <2>2
  <2> QED
    BY <2>3 DEF gu, G
<1> QED
  BY <1>4, <1>5, <1>6

LEMMA RateInvariant == Lag + MaxSkew <= Second => (Spec => []RateInv)
<1> SUFFICES ASSUME Lag + MaxSkew <= Second PROVE Spec => []RateInv
  OBVIOUS
<1>1. Init => RateInv
  <2> SUFFICES ASSUME Init PROVE ClockInv /\ WindowInv
    BY TypeInit DEF RateInv
  <2> QED
    BY DEF Init, ClockInv, WindowInv, NoBucket
<1>2. RateInv /\ [Next]_vars => RateInv'
  BY TypeNext, ClockNext, WindowNext DEF RateInv
<1> QED
  BY <1>1, <1>2, PTL DEF Spec

(* Any number of calls at once, on any replicas: the disorder of their     *)
(* clock readings buys the time it sets ts back, once, and nothing by the  *)
(* expiry of the hash, as long as a script runs within a second of the     *)
(* farthest clock.                                                         *)
THEOREM OverlapBounded == Lag + MaxSkew <= Second => (Spec => []OverlapBound)
<1> SUFFICES ASSUME Lag + MaxSkew <= Second PROVE Spec => []OverlapBound
  OBVIOUS
<1>1. Spec => []RateInv
  BY RateInvariant
<1> QED
  BY <1>1, InvBounds, PTL

(* One caller at a time, on the clock of Redis.                            *)
OneCaller == (\A p, q \in Requests : p = q) /\ MaxSkew = 0

(* Then no script sets ts back.                                            *)
NeverBack ==
    /\ win.back = 0
    /\ \A q \in Requests : read[q] # -1 /\ bucket.on => bucket.ts <= read[q]

LEMMA OrderNext ==
    ASSUME OneCaller, TypeOK, ClockInv, NeverBack, [Next]_vars
    PROVE  NeverBack'
<1>t. /\ now \in Nat /\ bucket.ts \in Nat /\ read \in [Requests -> Nat \cup {-1}]
      /\ win \in [start : Nat \cup {-1}, grants : Nat, back : Nat]
      /\ MaxSkew = 0 /\ Skews \subseteq 0..MaxSkew
  BY Constants DEF TypeOK, OneCaller
<1>1. ASSUME read' = read, win'.back = 0, bucket' = bucket \/ ~bucket'.on PROVE NeverBack'
  BY <1>1 DEF NeverBack
<1>2. CASE Tick \/ OpenWindow \/ UNCHANGED vars
  <2>1. read' = read /\ (bucket' = bucket \/ ~bucket'.on)
    BY <1>2 DEF Tick, OpenWindow, vars, NoBucket
  <2>2. win'.back = 0
    BY <1>2 DEF Tick, OpenWindow, vars, NeverBack
  <2> QED
    BY <1>1, <2>1, <2>2
<1>3. ASSUME NEW q \in Requests, ReadClock(q) PROVE NeverBack'
  <2>0. PICK s \in Skews : read' = [read EXCEPT ![q] = now + s]
    BY <1>3 DEF ReadClock
  <2>1. s = 0 /\ now + s = now
    BY <1>t
  <2>2. bucket' = bucket /\ win' = win
    BY <1>3 DEF ReadClock
  <2>3. bucket.on => bucket.ts <= now
    BY <1>t DEF ClockInv
  <2> QED
    BY <1>t, <2>0, <2>1, <2>2, <2>3 DEF NeverBack
<1>4. ASSUME NEW q \in Requests, FailOpen(q) PROVE NeverBack'
  BY <1>4, <1>t DEF FailOpen, NeverBack
<1>5. ASSUME NEW q \in Requests, Allow(q) PROVE NeverBack'
  <2>1. /\ read[q] \in Nat /\ read[q] # -1 /\ read' = [read EXCEPT ![q] = -1]
        /\ win'.back = win.back \/ win'.back = win.back + Rewind(read[q])
    BY <1>5, <1>t, AllowStep
  <2>2. Rewind(read[q]) = 0
    BY <2>1, RewindType DEF NeverBack
  <2>3. win'.back = 0
    BY <2>1, <2>2 DEF NeverBack
  <2>4. \A p \in Requests : read'[p] = -1
    BY <1>t, <2>1 DEF OneCaller
  <2> QED
    BY <2>3, <2>4 DEF NeverBack
<1> QED
  BY <1>2, <1>3, <1>4, <1>5 DEF Next

(* RF-006: in any window one caller is granted no more than the burst and  *)
(* what the rate adds, although its hash expires and restarts full: for    *)
(* every rate and burst, as long as a script runs within a second of the   *)
(* clock reading it carries (the second PEXPIRE adds for that).            *)
THEOREM RateBounded == OneCaller /\ Lag <= Second => (Spec => []RateBound)
<1> SUFFICES ASSUME OneCaller, Lag <= Second PROVE Spec => []RateBound
  OBVIOUS
<1>1. Lag + MaxSkew <= Second
  BY Constants DEF OneCaller
<1>2. Spec => []RateInv
  BY <1>1, RateInvariant
<1>3. Init => NeverBack
  BY DEF Init, NeverBack
<1>4. RateInv /\ NeverBack /\ [Next]_vars => NeverBack'
  BY OrderNext DEF RateInv
<1>5. RateInv /\ NeverBack => RateBound
  <2> SUFFICES ASSUME RateInv, NeverBack, win.start # -1
               PROVE  win.grants * Unit <= Full + (now - win.start + Lag) * Refill
    BY DEF RateBound
  <2>1. now - win.start + Lag + MaxSkew + win.back = now - win.start + Lag
    BY Constants DEF OneCaller, NeverBack, RateInv, TypeOK
  <2>2. win.grants * Unit <= Full + (now - win.start + Lag + MaxSkew + win.back) * Refill
    BY InvBounds DEF OverlapBound
  <2> QED
    BY <2>1, <2>2
<1> QED
  BY <1>2, <1>3, <1>4, <1>5, PTL DEF Spec

-----------------------------------------------------------------------------
(* The dashboard metrics.                                                  *)

(* Two strides never meet, even when the second falls short of a whole     *)
(* number.                                                                 *)
LEMMA StrideStep ==
    ASSUME NEW N \in Nat, NEW M \in Nat \ {0}, N > M, NEW i \in Nat, NEW j \in Nat, i < j
    PROVE  /\ (i * N) \div M < (j * N) \div M
           /\ (j * N) % M = 0 => (i * N) \div M < (j * N) \div M - 1
<1> DEFINE a == i * N
           b == j * N
           q == a \div M
           r == b \div M
<1>1. a \in Nat /\ b \in Nat /\ b >= a + N
  <2>1. PICK l \in Nat : j = i + 1 + l
    <3>1. j - i - 1 \in Nat /\ j = i + 1 + (j - i - 1)
      OBVIOUS
    <3> QED
      BY <3>1
  <2>2. b = a + N + l * N /\ l * N \in Nat
    BY <2>1
  <2> QED
    BY <2>2
<1> HIDE DEF a, b
<1>2. q \in Nat /\ a % M \in 0 .. M - 1 /\ a = M * q + (a % M)
  BY <1>1, Division
<1>3. r \in Nat /\ b % M \in 0 .. M - 1 /\ b = M * r + (b % M)
  BY <1>1, Division
<1> HIDE DEF q, r
<1>4. M * q \in Nat /\ M * r \in Nat
  BY <1>2, <1>3
<1>5. M * q < M * r
  BY <1>1, <1>2, <1>3, <1>4
<1>6. q < r
  BY <1>2, <1>3, <1>5, Monotone
<1>7. ASSUME b % M = 0 PROVE q < r - 1
  <2>1. M * q < M * r - M
    BY <1>1, <1>2, <1>3, <1>4, <1>7
  <2>2. M * (r - 1) = M * r - M /\ r - 1 \in Int
    BY <1>3
  <2>3. M * q < M * (r - 1)
    BY <2>1, <2>2
  <2> QED
    BY <2>2, <2>3, <1>2, Monotone
<1> QED
  BY <1>6, <1>7 DEF a, b, q, r

(* decimateUniform (repo/mongo/metrics) keeps the last point always and    *)
(* the first one when two or more are allowed, and no point twice: the     *)
(* positions it takes are strictly increasing, for every number n of       *)
(* points and every maxPoints m below it.                                  *)
THEOREM DecimationSound ==
    ASSUME NEW n \in Nat, NEW m \in Nat \ {0}, m < n, NEW f \in Kept(n, m)
    PROVE  /\ f[m] = n - 1
           /\ m > 1 => f[1] = 0
           /\ \A i, j \in 1 .. m : i < j => f[i] < f[j]
<1>1. CASE m = 1
  <2>1. f = <<n - 1>>
    BY <1>1 DEF Kept
  <2> QED
    BY <1>1, <2>1
<1>2. CASE m > 1
  <2> DEFINE N == n - 1
             M == m - 1
             q(i) == (i * N) \div M
  <2>1. N \in Nat /\ M \in Nat \ {0} /\ N > M
    BY <1>2
  <2>2. f \in [1 .. m -> 0 .. n - 1] /\ f[m] = N /\ \A i \in 1 .. m - 1 : f[i] \in Strides(n, m, i - 1)
    BY <1>2 DEF Kept
  <2>3. ASSUME NEW i \in 1 .. m - 1
        PROVE  f[i] \in {q(i - 1)} \cup (IF i > 1 /\ ((i - 1) * N) % M = 0 THEN {q(i - 1) - 1} ELSE {})
    BY <2>2, <2>3 DEF Strides
  <2>4. f[1] = 0
    <3>1. f[1] = q(0)
      BY <2>3, <1>2
    <3>2. 0 * N = 0 /\ 0 \div M = 0
      BY <2>1, Division
    <3> QED
      BY <3>1, <3>2
  <2> HIDE DEF N, M
  <2>5. ASSUME NEW i \in 1 .. m, NEW j \in 1 .. m, i < j PROVE f[i] < f[j]
    <3>1. i - 1 \in Nat /\ j - 1 \in Nat /\ i - 1 < j - 1 /\ i \in 1 .. m - 1
      BY <2>5
    <3>2. q(i - 1) < q(j - 1) /\ (((j - 1) * N) % M = 0 => q(i - 1) < q(j - 1) - 1)
      BY <2>1, <3>1, StrideStep
    <3>3. q(i - 1) \in Nat /\ q(j - 1) \in Nat
      <4>1. (i - 1) * N \in Nat /\ (j - 1) * N \in Nat
        BY <2>1, <3>1
      <4> QED
        BY <4>1, <2>1, Division
    <3>4. f[i] <= q(i - 1)
      BY <2>3, <3>1, <3>3
    <3>5. CASE j = m
      <4>1. j - 1 = M /\ f[j] = N
        BY <3>5, <2>2, <1>2 DEF M
      <4>2. q(j - 1) = N
        <5> DEFINE a == M * N
        <5>0. a \in Nat /\ q(j - 1) = a \div M
          BY <2>1, <4>1
        <5> HIDE DEF a
        <5>1. a = M * (a \div M) + (a % M) /\ a % M \in 0 .. M - 1
          BY <5>0, <2>1, Division
        <5>4. M * N = M * q(j - 1) + (a % M)
          BY <5>0, <5>1 DEF a
        <5>2. M * q(j - 1) < M * (N + 1) /\ M * N < M * (q(j - 1) + 1)
          BY <5>1, <5>4, <2>1, <3>3
        <5>3. q(j - 1) < N + 1 /\ N < q(j - 1) + 1
          BY <5>2, <2>1, <3>3, Monotone
        <5> QED
          BY <5>3, <2>1, <3>3
      <4> QED
        BY <4>1, <4>2, <3>1, <3>2, <3>3, <3>4, <2>1, <2>2
    <3>6. CASE j < m
      <4>1. j \in 1 .. m - 1
        BY <3>6
      <4>2. f[j] = q(j - 1) \/ (((j - 1) * N) % M = 0 /\ f[j] = q(j - 1) - 1)
        BY <4>1, <2>3
      <4> QED
        BY <4>2, <3>1, <3>2, <3>3, <3>4, <2>2
    <3> QED
      BY <3>5, <3>6, <1>2
  <2> QED
    BY <2>2, <2>4, <2>5, <1>2 DEF N
<1> QED
  BY <1>1, <1>2

(* checkBucketCount (domain/metrics) counts the durations that fit in the  *)
(* window, $dateTrunc aligns the buckets to the clock: a window it accepts *)
(* touches at most one bucket more than MaxBuckets, for every window.      *)
THEOREM BucketGuardrail ==
    ASSUME NEW b \in DOMAIN BucketDuration, NEW w, w.from \in Int, w.to \in Int, w.from <= w.to,
           ExpectedBuckets(w, b) <= MaxBuckets
    PROVE  (w.to \div BucketDuration[b]) - (w.from \div BucketDuration[b]) + 1 <= MaxBuckets + 1
<1> DEFINE d == BucketDuration[b]
           x == w.from
           y == w.to
           e == (y - x) \div d
<1>1. d \in Nat \ {0} /\ MaxBuckets \in Nat
  BY RulesAssumption
<1>2. e + 1 <= MaxBuckets
  BY DEF ExpectedBuckets
<1>3. y - x \in Nat /\ x \in Int /\ y \in Int
  OBVIOUS
<1> HIDE DEF d, x, y
<1>4. e \in Nat /\ (y - x) % d \in 0 .. d - 1 /\ y - x = d * e + ((y - x) % d)
  BY <1>1, <1>3, Division
<1>5. x \div d \in Int /\ x % d \in 0 .. d - 1 /\ x = d * (x \div d) + (x % d)
  BY <1>1, <1>3, Quotient
<1>6. y \div d \in Int /\ y % d \in 0 .. d - 1 /\ y = d * (y \div d) + (y % d)
  BY <1>1, <1>3, Quotient
<1>7. d * (y \div d) < d * ((x \div d) + e + 2)
  <2> DEFINE p == x \div d
             r == y \div d
  <2> HIDE DEF p, r, e
  <2>0. e \in Nat /\ p \in Int /\ r \in Int /\ d \in Nat
    BY <1>1, <1>4, <1>5, <1>6 DEF p, r
  <2>1. d * e \in Nat /\ d * p \in Int /\ d * r \in Int
    BY <2>0
  <2>2. d * (p + e + 2) = d * p + d * e + d + d
    BY <1>1, <1>4, <1>5 DEF p
  <2>3. d * r <= y /\ y = x + (y - x) /\ x < d * p + d /\ y - x < d * e + d
    BY <1>1, <1>3, <1>4, <1>5, <1>6, <2>1 DEF p, r
  <2>4. d * r < d * p + d * e + d + d
    BY <2>1, <2>3, <1>1, <1>3
  <2> QED
    BY <2>2, <2>4 DEF p, r
<1>8. y \div d < (x \div d) + e + 2
  BY <1>1, <1>4, <1>5, <1>6, <1>7, Monotone
<1> QED
  BY <1>1, <1>2, <1>4, <1>5, <1>6, <1>8 DEF d, x, y

-----------------------------------------------------------------------------
(* The answers of the dashboard metrics.  What an aggregate returned is    *)
(* judged by the samples it had to see (stored when the request arrived)   *)
(* and those it could see (stored by now).                                 *)

DataAsOf(Req, t) == t \in Int \cup {NONE} /\ \A d \in Req : t # NONE /\ t >= d.ts

Between(Req, S, Avail) == Req \subseteq S /\ S \subseteq Avail

(* The starts of the buckets a window touches.                             *)
Buckets(w) ==
    LET n == BucketDuration[w.q.bucket]
    IN  {c * n : c \in (w.from \div n) .. (w.to \div n)}

ScalarGood(Req, Avail, x) == Between(Req, x.over, Avail) /\ DataAsOf(Req, x.asOf)

SeriesGood(w, Req, Avail, x) ==
    /\ DOMAIN x.points \subseteq Buckets(w)
    /\ \A ts \in DOMAIN x.points : x.points[ts] # {} /\ x.points[ts] \subseteq Avail
    /\ \A d \in Req : \E ts \in DOMAIN x.points : d \in x.points[ts]
    /\ DataAsOf(Req, x.asOf)

(* PointsFaithful of the points p, m of which were asked for.              *)
PointsGood(Req, Avail, m, p) ==
    /\ Len(p) <= MaxRawPoints /\ Cardinality(ToSet(p)) = Len(p)
    /\ \A j, l \in DOMAIN p : j < l => p[j].ts <= p[l].ts
    /\ ToSet(p) \subseteq Avail
    /\ m = 0 \/ Cardinality(Avail) <= m => Req \subseteq ToSet(p)
    /\ m > 0 => /\ Len(p) <= m
                /\ \A d \in Req : /\ \E x \in ToSet(p) : x.ts >= d.ts
                                  /\ m > 1 => \E x \in ToSet(p) : x.ts <= d.ts

RawGood(w, Req, Avail, x) ==
    /\ Len(x.points) > MaxRawPoints => Cardinality(Avail) > MaxRawPoints
    /\ ~(Len(x.points) > MaxRawPoints) =>
          PointsGood(Req, Avail, w.q.maxPoints, x.points) /\ DataAsOf(Req, x.asOf)

GroupsGood(Req, Avail, x) ==
    /\ Cardinality(x.groups) > MaxGroups => Cardinality({d.key : d \in Avail}) > MaxGroups
    /\ ~(Cardinality(x.groups) > MaxGroups) =>
          /\ Cardinality(x.groups) <= MaxGroups
          /\ \A g, h \in x.groups : g # h => g.over \cap h.over = {}
          /\ Between(Req, UNION {g.over : g \in x.groups}, Avail)
          /\ DataAsOf(Req, x.asOf)

SubGood(w, Req, Avail, x) ==
    /\ w.mode = "scalar" => ScalarGood(Req, Avail, x)
    /\ w.mode = "series" => SeriesGood(w, Req, Avail, x)
    /\ w.mode = "raw" => RawGood(w, Req, Avail, x)
    /\ w.mode = "grouped" => GroupsGood(Req, Avail, x)

(* What Validate has left of a query that reaches the repository.          *)
Planned(w) ==
    /\ w.from \in Int /\ w.to \in Int /\ w.from <= w.to
    /\ w.mode \in {"scalar", "series", "raw", "grouped"}
    /\ Len(w.q.specs) \in Nat \ {0} /\ DOMAIN w.sub = 1 .. Len(w.q.specs)
    /\ w.mode \in {"raw", "grouped"} => Len(w.q.specs) = 1
    /\ w.mode = "raw" => w.q.maxPoints \in 0 .. MaxRawPoints
    /\ w.mode = "series" => /\ w.q.bucket \in DOMAIN BucketDuration
                            /\ ExpectedBuckets(w, w.q.bucket) <= MaxBuckets

(* The result r of an item that was served, t being the tenant, S0 and D   *)
(* the collection at the arrival and now.                                  *)
ServedGood(w, r, t, S0, D) ==
    LET Req(k) == Matched(S0, t, w, k)
        Avail(k) == Matched(D, t, w, k)
    IN
    /\ r.mode = "scalar" => \A k \in DOMAIN r.data : Between(Req(k), r.data[k], Avail(k))
    /\ r.mode = "series" =>
          /\ Len(r.data) <= MaxBuckets + 1
          /\ \A j, l \in DOMAIN r.data : j < l => r.data[j].ts < r.data[l].ts
          /\ \A j \in DOMAIN r.data : \A k \in DOMAIN r.data[j].results : r.data[j].results[k] # {}
          /\ \A k \in DOMAIN w.sub :
                Between(Req(k), UNION {r.data[j].results[k] :
                                         j \in {l \in DOMAIN r.data : k \in DOMAIN r.data[l].results}},
                        Avail(k))
    /\ r.mode = "raw" => /\ w.q.maxPoints \in Nat
                         /\ PointsGood(Req(1), Avail(1), w.q.maxPoints, r.data)
    /\ r.mode = "grouped" => /\ Cardinality(r.data) <= MaxGroups
                             /\ \A g, h \in r.data : g # h => g.over \cap h.over = {}
                             /\ Between(Req(1), UNION {g.over : g \in r.data}, Avail(1))
    /\ \A k \in DOMAIN w.sub : \A d \in Req(k) : r.asOf # NONE /\ r.asOf >= d.ts

Failures == {"QUERY_TIMEOUT", "INTERNAL_ERROR"}

(* The error e of an item is its own.                                      *)
OwnError(w, at, t, D, e) ==
    \/ w.hit
    \/ e = Refusal(w.q, at)
    \/ e = "RANGE_TOO_WIDE" /\ Cardinality(Matched(D, t, w, 1)) > MaxRawPoints
    \/ e = "TOO_MANY_GROUPS" /\ Cardinality({d.key : d \in Matched(D, t, w, 1)}) > MaxGroups

(* An item at each stage; g is TRUE when the client has gone.              *)
ItemOK(w, at, t, S0, D, g) ==
    /\ DOMAIN w = {"pc", "q", "mode", "from", "to", "sub", "err", "hit", "result"}
    /\ w.pc \in {"queued", "running", "done"}
    /\ w.q \in Queries
    /\ w.pc = "queued" => w.err = NONE /\ ~w.hit /\ DOMAIN w.sub = {}
    /\ w.pc = "running" => /\ w.hit => w.err \in Failures
                           /\ w.err # NONE => /\ g \/ w.hit \/ w.err = Refusal(w.q, at)
                                              /\ w.err \in Failures \/ DOMAIN w.sub = {}
                           /\ w.err = NONE => /\ Planned(w)
                                              /\ \A k \in DOMAIN w.sub :
                                                    \/ w.sub[k] = NONE
                                                    \/ SubGood(w, Matched(S0, t, w, k),
                                                               Matched(D, t, w, k), w.sub[k])
    /\ w.pc = "done" => /\ w.hit => w.result.err \in Failures
                        /\ w.result.err # NONE => g \/ OwnError(w, at, t, D, w.result.err)
                        /\ w.result.err = NONE => ServedGood(w, w.result, t, S0, D)

(* A batch in progress has one item per query; once it is answered the     *)
(* items have ended and the answer is theirs.                              *)
BatchOK ==
    req.kind = "batch" =>
        /\ answer = NONE => DOMAIN work = DOMAIN req.items
        /\ answer # NONE /\ answer.err = NONE =>
              /\ \A i \in DOMAIN work : work[i].pc = "done"
              /\ DOMAIN work = DOMAIN req.items
              /\ DOMAIN answer.data = DOMAIN req.items
              /\ \A i \in DOMAIN req.items : /\ answer.data[i].id = req.items[i].id
                                             /\ answer.data[i].body = work[i].result

MetricsInv ==
    /\ docs \subseteq Samples /\ start \subseteq docs /\ groupErr = FALSE /\ gone \in BOOLEAN
    /\ req = Idle => DOMAIN work = {}
    /\ req.now \in Int
    /\ \A i \in DOMAIN work : ItemOK(work[i], req.now, req.tenant, start, docs, gone)
    /\ BatchOK

-----------------------------------------------------------------------------
(* The samples of a query.                                                 *)

LEMMA MatchedGrows ==
    ASSUME NEW C, NEW D, C \subseteq D, NEW t, NEW w, NEW k
    PROVE  Matched(C, t, w, k) \subseteq Matched(D, t, w, k)
BY DEF Matched, IsNumberMatch, ApplyValueFilter, BaseMatch

LEMMA MatchedWithin ==
    ASSUME NEW C, NEW t, NEW w, NEW k
    PROVE  /\ Matched(C, t, w, k) \subseteq C
           /\ \A d \in Matched(C, t, w, k) : w.from <= d.ts /\ d.ts <= w.to
BY DEF Matched, IsNumberMatch, ApplyValueFilter, BaseMatch

LEMMA MatchedSame ==
    ASSUME NEW C, NEW t, NEW k, NEW w, NEW v, w.q = v.q, w.from = v.from, w.to = v.to
    PROVE  Matched(C, t, w, k) = Matched(C, t, v, k)
BY DEF Matched, BaseMatch

LEMMA FiniteSamples ==
    ASSUME NEW C, C \subseteq Samples
    PROVE  /\ IsFiniteSet(C) /\ Cardinality(C) \in Nat
           /\ \A S : S \subseteq C => /\ IsFiniteSet(S) /\ Cardinality(S) \in Nat
                                      /\ Cardinality(S) <= Cardinality(C)
           /\ \A d \in C : d.ts \in Int
<1>1. IsFiniteSet(C) /\ \A d \in C : d.ts \in Int
  BY MetricsAssumption, FS_Subset
<1> QED
  BY <1>1, FS_Subset, FS_CardinalityType

(* The keys of a set of samples.                                           *)
LEMMA FiniteKeys ==
    ASSUME NEW C, C \subseteq Samples, NEW S, S \subseteq C
    PROVE  /\ IsFiniteSet({d.key : d \in C}) /\ IsFiniteSet({d.key : d \in S})
           /\ Cardinality({d.key : d \in S}) \in Nat /\ Cardinality({d.key : d \in C}) \in Nat
           /\ Cardinality({d.key : d \in S}) <= Cardinality({d.key : d \in C})
<1> DEFINE K == {d.key : d \in C}
           L == {d.key : d \in S}
           f == [d \in C |-> d.key]
<1>1. f \in Surjection(C, K)
  BY DEF Surjection
<1>2. IsFiniteSet(C)
  BY FiniteSamples
<1> HIDE DEF f
<1>3. IsFiniteSet(K)
  BY <1>1, <1>2, FS_Surjection
<1>4. L \in SUBSET K
  OBVIOUS
<1> HIDE DEF K, L
<1>5. IsFiniteSet(L) /\ Cardinality(L) <= Cardinality(K)
  BY <1>3, <1>4, FS_Subset
<1>6. Cardinality(L) \in Nat /\ Cardinality(K) \in Nat
  BY <1>3, <1>5, FS_CardinalityType
<1> QED
  BY <1>3, <1>5, <1>6 DEF K, L

LEMMA LatestFacts ==
    ASSUME NEW S, S \subseteq Samples, NEW t \in Latest(S), NEW Req, Req \subseteq S
    PROVE  DataAsOf(Req, t)
<1>1. CASE S = {}
  BY <1>1 DEF Latest, DataAsOf
<1>2. CASE S # {}
  <2>1. t \in {d.ts : d \in S} /\ \A d \in S : d.ts <= t
    BY <1>2 DEF Latest
  <2>2. t \in Int /\ \A d \in S : d.ts \in Int
    BY <2>1, FiniteSamples
  <2>3. t # NONE
    BY <2>2, MetricsAssumption
  <2>4. \A d \in Req : t >= d.ts
    BY <2>1, <2>2
  <2> QED
    BY <2>2, <2>3, <2>4 DEF DataAsOf
<1> QED
  BY <1>1, <1>2

-----------------------------------------------------------------------------
(* Series: the buckets of a window are few.                                *)

LEMMA QuotientGrows ==
    ASSUME NEW x \in Int, NEW y \in Int, x <= y, NEW n \in Nat \ {0}
    PROVE  x \div n \in Int /\ y \div n \in Int /\ x \div n <= y \div n
<1> DEFINE p == x \div n
           r == y \div n
<1>1. p \in Int /\ x % n \in 0 .. n - 1 /\ x = n * p + (x % n)
  BY Quotient
<1>2. r \in Int /\ y % n \in 0 .. n - 1 /\ y = n * r + (y % n)
  BY Quotient
<1> HIDE DEF p, r
<1>3. n * p \in Int /\ n * r \in Int /\ n * (r + 1) = n * r + n
  BY <1>1, <1>2
<1>4. n * p < n * (r + 1)
  BY <1>1, <1>2, <1>3
<1>5. p < r + 1
  BY <1>1, <1>2, <1>4, Monotone
<1> QED
  BY <1>1, <1>2, <1>5 DEF p, r

LEMMA FewBuckets ==
    ASSUME NEW w, Planned(w), w.mode = "series"
    PROVE  IsFiniteSet(Buckets(w)) /\ Cardinality(Buckets(w)) <= MaxBuckets + 1 /\ Buckets(w) \subseteq Int
<1> DEFINE n == BucketDuration[w.q.bucket]
           lo == w.from \div n
           hi == w.to \div n
           f == [c \in lo .. hi |-> c * n]
<1>1. /\ w.q.bucket \in DOMAIN BucketDuration /\ w.from \in Int /\ w.to \in Int /\ w.from <= w.to
      /\ ExpectedBuckets(w, w.q.bucket) <= MaxBuckets
  BY DEF Planned
<1>2. n \in Nat \ {0} /\ MaxBuckets \in Nat
  BY <1>1, RulesAssumption
<1>3. hi - lo + 1 <= MaxBuckets + 1
  BY <1>1, BucketGuardrail
<1>4. Buckets(w) = {c * n : c \in lo .. hi}
  BY DEF Buckets
<1> HIDE DEF n
<1>5. lo \in Int /\ hi \in Int /\ lo <= hi
  BY <1>1, <1>2, QuotientGrows
<1> HIDE DEF lo, hi
<1>6. f \in Surjection(lo .. hi, Buckets(w))
  BY <1>4 DEF Surjection
<1>7. IsFiniteSet(lo .. hi) /\ Cardinality(lo .. hi) = hi - lo + 1
  BY <1>5, FS_Interval
<1> HIDE DEF f
<1>8. IsFiniteSet(Buckets(w)) /\ Cardinality(Buckets(w)) <= Cardinality(lo .. hi)
  BY <1>6, <1>7, FS_Surjection
<1>9. Buckets(w) \subseteq Int
  BY <1>2, <1>4, <1>5
<1>10. Cardinality(Buckets(w)) \in Nat
  BY <1>8, FS_CardinalityType
<1> QED
  BY <1>2, <1>3, <1>5, <1>7, <1>8, <1>9, <1>10

LEMMA SeriesIsGood ==
    ASSUME NEW w, Planned(w), w.mode = "series", NEW S, S \subseteq Samples,
           \A d \in S : w.from <= d.ts /\ d.ts <= w.to,
           NEW x \in Series(S, w.q.bucket), NEW Req, Req \subseteq S, NEW Avail, S \subseteq Avail
    PROVE  SeriesGood(w, Req, Avail, x)
<1> DEFINE b == w.q.bucket
           n == BucketDuration[b]
           T == {DateTrunc(d, b) : d \in S}
<1>1. b \in DOMAIN BucketDuration /\ w.from \in Int /\ w.to \in Int
  BY DEF Planned
<1>2. n \in Nat \ {0}
  BY <1>1, RulesAssumption
<1>3. PICK t \in Latest(S) :
         x = [points |-> [ts \in T |-> {d \in S : DateTrunc(d, b) = ts}], asOf |-> t]
  BY DEF Series
<1>4. DataAsOf(Req, x.asOf)
  BY <1>3, LatestFacts
<1>5. DOMAIN x.points = T /\ \A ts \in T : x.points[ts] = {d \in S : DateTrunc(d, b) = ts}
  BY <1>3
<1>6. ASSUME NEW d \in S PROVE DateTrunc(d, b) \in Buckets(w)
  <2>1. d.ts \in Int /\ w.from <= d.ts /\ d.ts <= w.to
    BY <1>6, FiniteSamples
  <2> HIDE DEF n
  <2>2. w.from \div n \in Int /\ d.ts \div n \in Int /\ w.to \div n \in Int
    BY <1>1, <1>2, <2>1, QuotientGrows
  <2>3. w.from \div n <= d.ts \div n /\ d.ts \div n <= w.to \div n
    BY <1>1, <1>2, <2>1, QuotientGrows
  <2>4. d.ts \div n \in (w.from \div n) .. (w.to \div n)
    BY <2>2, <2>3
  <2> QED
    BY <2>4 DEF n, DateTrunc, Buckets
<1>7. T \subseteq Buckets(w)
  BY <1>6
<1>8. \A ts \in T : x.points[ts] # {} /\ x.points[ts] \subseteq Avail
  BY <1>5
<1>9. \A d \in Req : \E ts \in T : d \in x.points[ts]
  BY <1>5
<1> QED
  BY <1>4, <1>5, <1>7, <1>8, <1>9 DEF SeriesGood

-----------------------------------------------------------------------------
(* Raw points.                                                             *)

(* A sequence without repetition has as many members as positions.         *)
LEMMA DistinctCount ==
    ASSUME NEW B, IsFiniteSet(B), NEW s \in Seq(B),
           \A i, j \in 1 .. Len(s) : i < j => s[i] # s[j]
    PROVE  /\ ToSet(s) \subseteq B /\ IsFiniteSet(ToSet(s))
           /\ Cardinality(ToSet(s)) = Len(s) /\ Len(s) <= Cardinality(B)
<1> DEFINE n == Len(s)
           T == ToSet(s)
<1>1. n \in Nat /\ s \in [1 .. n -> B] /\ DOMAIN s = 1 .. n
  OBVIOUS
<1>2. T = {s[i] : i \in 1 .. n}
  BY <1>1 DEF ToSet
<1> HIDE DEF n, T
<1>3. T \in SUBSET B /\ s \in [1 .. n -> T]
  BY <1>1, <1>2
<1>4. \A i, j \in 1 .. n : s[i] = s[j] => i = j
  <2>1. ASSUME NEW i \in 1 .. n, NEW j \in 1 .. n, i # j PROVE s[i] # s[j]
    <3>1. i < j \/ j < i
      BY <1>1, <2>1
    <3> QED
      BY <3>1 DEF n
  <2> QED
    BY <2>1
<1>5. s \in Surjection(1 .. n, T)
  BY <1>2, <1>3 DEF Surjection
<1>6. s \in Injection(1 .. n, T)
  BY <1>3, <1>4 DEF Injection, IsInjective
<1>7. IsFiniteSet(1 .. n) /\ Cardinality(1 .. n) = n
  <2>1. IsFiniteSet(1 .. n) /\ Cardinality(1 .. n) = IF 1 > n THEN 0 ELSE n - 1 + 1
    BY <1>1, FS_Interval
  <2> QED
    BY <1>1, <2>1
<1>8. IsFiniteSet(T) /\ Cardinality(T) = Cardinality(1 .. n)
  BY <1>5, <1>6, <1>7, FS_Surjection
<1>9. Cardinality(T) <= Cardinality(B)
  BY <1>3, FS_Subset
<1> QED
  BY <1>3, <1>7, <1>8, <1>9 DEF n, T

(* f lists S in the order of ts, without repetition.                       *)
Lists(f, S) ==
    /\ f \in Seq(S) /\ ToSet(f) = S
    /\ \A i, j \in 1 .. Len(f) : i < j => f[i] # f[j]
    /\ \A i, j \in 1 .. Len(f) : i < j => f[i].ts <= f[j].ts

(* f lists what was found, of which Req must and Avail may be shown.       *)
Found(f, S, Req, Avail) ==
    /\ S \subseteq Samples /\ Lists(f, S)
    /\ Req \subseteq S /\ S \subseteq Avail /\ Avail \subseteq Samples

LEMMA FetchedFacts ==
    ASSUME NEW S, S \subseteq Samples, NEW limit \in Nat, NEW f \in Fetched(S, limit)
    PROVE  /\ f \in Seq(S) /\ Len(f) \in Nat /\ Len(f) <= limit
           /\ \A i, j \in 1 .. Len(f) : i < j => f[i] # f[j]
           /\ \A i, j \in 1 .. Len(f) : i < j => f[i].ts <= f[j].ts
           /\ ToSet(f) \subseteq S
           /\ Len(f) < limit => ToSet(f) = S
<1>1. PICK m \in 0 .. limit : f \in [1 .. m -> S]
  BY DEF Fetched, SeqOf
<1>2. m \in Nat /\ f \in Seq(S) /\ Len(f) = m /\ DOMAIN f = 1 .. m
  BY <1>1
<1>3. /\ \A i, j \in 1 .. Len(f) : i < j => f[i] # f[j] /\ f[i].ts <= f[j].ts
      /\ \A d \in S \ ToSet(f) : Len(f) = limit
  BY DEF Fetched
<1>4. ToSet(f) \subseteq S
  BY <1>1, <1>2 DEF ToSet
<1>5. ASSUME Len(f) < limit PROVE ToSet(f) = S
  <2>1. Len(f) # limit
    BY <1>2, <1>5
  <2>2. S \subseteq ToSet(f)
    BY <1>3, <2>1
  <2> QED
    BY <1>4, <2>2
<1> QED
  BY <1>1, <1>2, <1>3, <1>4, <1>5

(* All the points, in order, when they are no more than were asked for.    *)
LEMMA WholeIsGood ==
    ASSUME NEW S, NEW f, NEW Req, NEW Avail, Found(f, S, Req, Avail), Len(f) <= MaxRawPoints,
           NEW m \in Nat, m = 0 \/ Len(f) <= m
    PROVE  PointsGood(Req, Avail, m, f)
<1> USE DEF Lists, Found
<1>1. IsFiniteSet(S) /\ \A d \in S : d.ts \in Int
  BY FiniteSamples
<1>2. Cardinality(ToSet(f)) = Len(f)
  BY <1>1, DistinctCount
<1>3. DOMAIN f = 1 .. Len(f)
  OBVIOUS
<1>4. \A d \in Req : d \in ToSet(f) /\ d.ts >= d.ts /\ d.ts <= d.ts
  BY <1>1
<1> QED
  BY <1>2, <1>3, <1>4 DEF PointsGood

LEMMA ThinnedIsGood ==
    ASSUME NEW S, NEW f, NEW Req, NEW Avail, Found(f, S, Req, Avail),
           NEW m \in Nat \ {0}, m < Len(f), m <= MaxRawPoints, NEW p \in DecimateUniform(f, m)
    PROVE  PointsGood(Req, Avail, m, p) /\ Len(p) = m
<1> USE DEF Lists, Found
<1> DEFINE n == Len(f)
<1>1. n \in Nat /\ f \in [1 .. n -> S] /\ DOMAIN f = 1 .. n
  OBVIOUS
<1>2. PICK h \in Kept(n, m) : p = [i \in 1 .. m |-> f[h[i] + 1]]
  BY DEF DecimateUniform
<1>3. /\ h[m] = n - 1
      /\ m > 1 => h[1] = 0
      /\ \A i, j \in 1 .. m : i < j => h[i] < h[j]
  BY <1>1, <1>2, DecimationSound
<1>4. \A i \in 1 .. m : h[i] \in 0 .. n - 1
  <2>1. CASE m = 1
    BY <1>1, <1>2, <2>1 DEF Kept
  <2>2. CASE m # 1
    BY <1>1, <1>2, <2>2 DEF Kept
  <2> QED
    BY <2>1, <2>2
<1> HIDE DEF n
<1>5. \A i \in 1 .. m : h[i] + 1 \in 1 .. n /\ p[i] = f[h[i] + 1]
  BY <1>1, <1>2, <1>4
<1>6. p \in Seq(S) /\ Len(p) = m /\ DOMAIN p = 1 .. m
  BY <1>1, <1>2, <1>5
<1>7. ASSUME NEW i \in 1 .. m, NEW j \in 1 .. m, i < j PROVE p[i] # p[j] /\ p[i].ts <= p[j].ts
  <2>1. h[i] + 1 \in 1 .. n /\ h[j] + 1 \in 1 .. n /\ h[i] + 1 < h[j] + 1
    BY <1>1, <1>3, <1>4, <1>7
  <2> QED
    BY <1>5, <2>1 DEF n
<1>8. /\ IsFiniteSet(S) /\ IsFiniteSet(Avail) /\ Cardinality(S) <= Cardinality(Avail)
      /\ Cardinality(S) \in Nat /\ Cardinality(Avail) \in Nat /\ \A d \in S : d.ts \in Int
  BY FiniteSamples
<1>9. ToSet(p) \subseteq S /\ Cardinality(ToSet(p)) = m
  BY <1>6, <1>7, <1>8, DistinctCount
<1>10. Cardinality(S) = n
  BY <1>8, DistinctCount DEF n
<1>11. ~(m = 0 \/ Cardinality(Avail) <= m)
  BY <1>1, <1>8, <1>10 DEF n
<1>12. ASSUME NEW d \in Req
       PROVE  /\ \E x \in ToSet(p) : x.ts >= d.ts
              /\ m > 1 => \E x \in ToSet(p) : x.ts <= d.ts
  <2>1. PICK i \in 1 .. n : f[i] = d
    BY <1>1 DEF ToSet
  <2>2. p[m] = f[n] /\ p[m] \in ToSet(p) /\ f[n] \in S /\ n \in 1 .. n
    <3>1. m \in 1 .. m /\ h[m] + 1 = n
      BY <1>1, <1>3
    <3>2. n \in 1 .. n
      BY <1>1 DEF n
    <3> QED
      BY <1>1, <1>5, <1>6, <3>1, <3>2 DEF ToSet
  <2>3. f[i].ts <= f[n].ts
    <3>1. i < n \/ i = n
      BY <1>1
    <3> QED
      BY <2>1, <2>2, <3>1, <1>8 DEF n
  <2>4. p[m].ts >= d.ts
    BY <2>1, <2>2, <2>3, <1>8
  <2>5. ASSUME m > 1 PROVE \E x \in ToSet(p) : x.ts <= d.ts
    <3>1. 1 \in 1 .. m /\ h[1] + 1 = 1 /\ 1 \in 1 .. n
      BY <1>1, <1>3, <2>5, <2>1
    <3>2. p[1] = f[1] /\ p[1] \in ToSet(p) /\ f[1] \in S
      BY <1>1, <1>5, <1>6, <3>1 DEF ToSet
    <3>3. f[1].ts <= f[i].ts
      <4>1. 1 < i \/ i = 1
        OBVIOUS
      <4> QED
        BY <3>1, <3>2, <4>1, <1>8 DEF n
    <3> QED
      BY <3>2, <3>3, <2>1
  <2> QED
    BY <2>2, <2>4, <2>5
<1> QED
  BY <1>6, <1>7, <1>9, <1>11, <1>12 DEF PointsGood

LEMMA RawIsGood ==
    ASSUME NEW w, Planned(w), w.mode = "raw", NEW S, S \subseteq Samples,
           NEW x \in Raw(S, MaxRawPoints + 1, w.q.maxPoints),
           NEW Req, Req \subseteq S, NEW Avail, S \subseteq Avail, Avail \subseteq Samples
    PROVE  RawGood(w, Req, Avail, x)
<1> DEFINE m == w.q.maxPoints
           l == MaxRawPoints + 1
<1>1. MaxRawPoints \in Nat /\ m \in 0 .. MaxRawPoints
  BY RulesAssumption DEF Planned
<1>2. PICK f \in Fetched(S, l) :
         \E p \in Decimated(f, l, m), t \in Latest(ToSet(f)) : x = [points |-> p, asOf |-> t]
  BY DEF Raw
<1>3. PICK p \in Decimated(f, l, m), t \in Latest(ToSet(f)) : x = [points |-> p, asOf |-> t]
  BY <1>2
<1>4. x.points = p /\ x.asOf = t
  BY <1>3
<1> HIDE DEF m
<1>5. /\ f \in Seq(S) /\ Len(f) \in Nat /\ Len(f) <= l
      /\ \A i, j \in 1 .. Len(f) : i < j => f[i] # f[j]
      /\ \A i, j \in 1 .. Len(f) : i < j => f[i].ts <= f[j].ts
      /\ ToSet(f) \subseteq S
      /\ Len(f) < l => ToSet(f) = S
  <2>1. l \in Nat
    BY <1>1
  <2> HIDE DEF l
  <2> QED
    BY <1>2, <2>1, FetchedFacts
<1>6. CASE Len(f) = l
  <2>1. p = f
    BY <1>3, <1>5, <1>6 DEF Decimated
  <2>2. IsFiniteSet(S) /\ Cardinality(S) <= Cardinality(Avail) /\ Cardinality(Avail) \in Nat
        /\ Cardinality(S) \in Nat
    BY FiniteSamples
  <2>3. Len(f) <= Cardinality(S)
    BY <1>5, <2>2, DistinctCount
  <2> QED
    BY <1>1, <1>4, <1>5, <1>6, <2>1, <2>2, <2>3 DEF RawGood
<1>7. CASE Len(f) < l
  <2>1. ToSet(f) = S /\ Len(f) <= MaxRawPoints
    BY <1>1, <1>5, <1>7
  <2>l. Found(f, S, Req, Avail)
    BY <1>5, <2>1 DEF Lists, Found
  <2>2. DataAsOf(Req, t)
    BY <1>3, <2>1, LatestFacts
  <2>3. CASE m > 0 /\ Len(f) > m
    <3>1. p \in DecimateUniform(f, m)
      BY <1>3, <1>7, <2>3 DEF Decimated
    <3>2. m \in Nat \ {0} /\ m < Len(f) /\ m <= MaxRawPoints
      BY <1>1, <1>5, <2>3
    <3>3. PointsGood(Req, Avail, m, p) /\ Len(p) = m
      BY <2>l, <3>1, <3>2, ThinnedIsGood
    <3> QED
      BY <1>1, <1>4, <2>2, <3>2, <3>3 DEF RawGood, m
  <2>4. CASE ~(m > 0 /\ Len(f) > m)
    <3>1. p = f
      BY <1>3, <2>4 DEF Decimated
    <3>2. m \in Nat /\ (m = 0 \/ Len(f) <= m)
      BY <1>1, <1>5, <2>4
    <3>3. PointsGood(Req, Avail, m, f)
      BY <2>l, <2>1, <3>2, WholeIsGood
    <3> QED
      BY <1>1, <1>4, <1>5, <2>1, <2>2, <3>1, <3>3 DEF RawGood, m
  <2> QED
    BY <2>3, <2>4
<1> QED
  BY <1>1, <1>5, <1>6, <1>7

-----------------------------------------------------------------------------
(* Groups.                                                                 *)

GroupSet(S) == {[label |-> Label[k], over |-> {d \in S : d.key = k}] : k \in {d.key : d \in S}}

LEMMA GroupSetFacts ==
    ASSUME NEW S, S \subseteq Samples
    PROVE  /\ IsFiniteSet(GroupSet(S)) /\ Cardinality(GroupSet(S)) \in Nat
           /\ Cardinality(GroupSet(S)) <= Cardinality({d.key : d \in S})
           /\ UNION {g.over : g \in GroupSet(S)} = S
           /\ \A g, h \in GroupSet(S) : g # h => g.over \cap h.over = {}
<1> DEFINE K == {d.key : d \in S}
           G(k) == [label |-> Label[k], over |-> {d \in S : d.key = k}]
           f == [k \in K |-> G(k)]
<1>1. GroupSet(S) = {G(k) : k \in K}
  BY DEF GroupSet
<1>2. f \in Surjection(K, GroupSet(S))
  BY <1>1 DEF Surjection
<1>3. IsFiniteSet(K)
  BY FiniteKeys
<1> HIDE DEF f
<1>4. IsFiniteSet(GroupSet(S)) /\ Cardinality(GroupSet(S)) <= Cardinality(K)
  BY <1>2, <1>3, FS_Surjection
<1>5. Cardinality(GroupSet(S)) \in Nat
  BY <1>4, FS_CardinalityType
<1>6. \A g \in GroupSet(S) : g.over \subseteq S
  BY <1>1
<1>7. ASSUME NEW d \in S PROVE \E g \in GroupSet(S) : d \in g.over
  <2>1. d.key \in K /\ G(d.key) \in GroupSet(S) /\ d \in G(d.key).over
    BY <1>1
  <2> QED
    BY <2>1
<1>8. UNION {g.over : g \in GroupSet(S)} = S
  BY <1>6, <1>7
<1>9. ASSUME NEW g \in GroupSet(S), NEW h \in GroupSet(S), g # h PROVE g.over \cap h.over = {}
  <2>1. PICK k \in K : g = G(k)
    BY <1>1
  <2>2. PICK l \in K : h = G(l)
    BY <1>1
  <2>3. k # l
    BY <1>9, <2>1, <2>2
  <2> QED
    BY <2>1, <2>2, <2>3
<1> QED
  BY <1>4, <1>5, <1>8, <1>9

LEMMA GroupsAreGood ==
    ASSUME NEW S, S \subseteq Samples, NEW x \in Grouped(S, MaxGroups + 1),
           NEW Req, Req \subseteq S, NEW Avail, S \subseteq Avail, Avail \subseteq Samples
    PROVE  GroupsGood(Req, Avail, x)
<1> DEFINE H == GroupSet(S)
           n == Cardinality(H)
<1>1. PICK g \in SUBSET H : /\ Cardinality(g) = IF n < MaxGroups + 1 THEN n ELSE MaxGroups + 1
                            /\ \E t \in Latest(UNION {y.over : y \in g}) :
                                  x = [groups |-> g, asOf |-> t]
  BY DEF Grouped, GroupSet
<1>2. PICK t \in Latest(UNION {y.over : y \in g}) : x = [groups |-> g, asOf |-> t]
  BY <1>1
<1>3. x.groups = g /\ x.asOf = t
  BY <1>2
<1>4. /\ IsFiniteSet(H) /\ n \in Nat /\ n <= Cardinality({d.key : d \in S})
      /\ UNION {y.over : y \in H} = S
      /\ \A y, z \in H : y # z => y.over \cap z.over = {}
  BY GroupSetFacts
<1>5. /\ Cardinality({d.key : d \in S}) <= Cardinality({d.key : d \in Avail})
      /\ Cardinality({d.key : d \in S}) \in Nat /\ Cardinality({d.key : d \in Avail}) \in Nat
  BY FiniteKeys
<1>6. MaxGroups \in Nat
  BY RulesAssumption
<1>7. IsFiniteSet(g) /\ Cardinality(g) <= n /\ (n = Cardinality(g) => H = g)
  BY <1>4, FS_Subset
<1> HIDE DEF H, n
<1>8. Cardinality(g) \in Nat
  BY <1>7, FS_CardinalityType
<1>9. CASE Cardinality(g) > MaxGroups
  BY <1>3, <1>4, <1>5, <1>6, <1>7, <1>8, <1>9 DEF GroupsGood
<1>10. CASE ~(Cardinality(g) > MaxGroups)
  <2>1. Cardinality(g) = n
    BY <1>1, <1>4, <1>6, <1>8, <1>10
  <2>2. g = H
    BY <1>7, <2>1
  <2>3. UNION {y.over : y \in g} = S
    BY <1>4, <2>2
  <2>4. DataAsOf(Req, t)
    BY <1>2, <2>3, LatestFacts
  <2>5. Cardinality(g) <= MaxGroups
    BY <1>6, <1>8, <1>10
  <2> QED
    BY <1>3, <1>4, <1>10, <2>2, <2>3, <2>4, <2>5 DEF GroupsGood, Between
<1> QED
  BY <1>9, <1>10

-----------------------------------------------------------------------------
(* One aggregate of an item, over the collection C it sees.                *)

LEMMA ScalarIsGood ==
    ASSUME NEW S, S \subseteq Samples, NEW x \in Scalar(S),
           NEW Req, Req \subseteq S, NEW Avail, S \subseteq Avail
    PROVE  ScalarGood(Req, Avail, x)
<1>1. PICK t \in Latest(S) : x = [over |-> S, asOf |-> t]
  BY DEF Scalar
<1>2. x.over = S /\ x.asOf = t
  BY <1>1
<1>3. DataAsOf(Req, t)
  BY LatestFacts
<1> QED
  BY <1>2, <1>3 DEF ScalarGood, Between

LEMMA AggregateIsGood ==
    ASSUME docs \subseteq Samples, NEW t, NEW w, NEW k, Planned(w), NEW x \in Aggregate(t, w, k),
           NEW Req, Req \subseteq Matched(docs, t, w, k)
    PROVE  SubGood(w, Req, Matched(docs, t, w, k), x)
<1> DEFINE S == Matched(docs, t, w, k)
<1>1. S \subseteq Samples /\ \A d \in S : w.from <= d.ts /\ d.ts <= w.to
  BY MatchedWithin
<1>2. w.mode \in {"scalar", "series", "raw", "grouped"}
  BY DEF Planned
<1>3. /\ w.mode = "scalar" => x \in Scalar(S)
      /\ w.mode = "series" => x \in Series(S, w.q.bucket)
      /\ w.mode = "raw" => x \in Raw(S, MaxRawPoints + 1, w.q.maxPoints)
      /\ w.mode = "grouped" => x \in Grouped(S, MaxGroups + 1)
  BY <1>2 DEF Aggregate
<1>4. Req \subseteq S
  OBVIOUS
<1> HIDE DEF S
<1>5. w.mode = "scalar" => ScalarGood(Req, S, x)
  BY <1>1, <1>3, <1>4, ScalarIsGood
<1>6. w.mode = "series" => SeriesGood(w, Req, S, x)
  BY <1>1, <1>3, <1>4, SeriesIsGood
<1>7. w.mode = "raw" => RawGood(w, Req, S, x)
  BY <1>1, <1>3, <1>4, RawIsGood
<1>8. w.mode = "grouped" => GroupsGood(Req, S, x)
  BY <1>1, <1>3, <1>4, GroupsAreGood
<1> QED
  BY <1>5, <1>6, <1>7, <1>8 DEF SubGood, S

(* Samples that arrive later do not spoil what was good.                   *)
LEMMA PointsStayGood ==
    ASSUME NEW Req, NEW A, NEW B, A \subseteq B, B \subseteq Samples, NEW m \in Nat, NEW p,
           PointsGood(Req, A, m, p)
    PROVE  PointsGood(Req, B, m, p)
<1>1. Cardinality(A) <= Cardinality(B) /\ Cardinality(A) \in Nat /\ Cardinality(B) \in Nat
  BY FiniteSamples
<1>2. m = 0 \/ Cardinality(B) <= m => m = 0 \/ Cardinality(A) <= m
  BY <1>1
<1> QED
  BY <1>2 DEF PointsGood

LEMMA SubStaysGood ==
    ASSUME NEW w, Planned(w), NEW Req, NEW A, NEW B, A \subseteq B, B \subseteq Samples, NEW x,
           SubGood(w, Req, A, x)
    PROVE  SubGood(w, Req, B, x)
<1>1. MaxRawPoints \in Nat /\ MaxGroups \in Nat
  BY RulesAssumption
<1>2. Cardinality(A) <= Cardinality(B) /\ Cardinality(A) \in Nat /\ Cardinality(B) \in Nat
  BY FiniteSamples
<1>3. /\ Cardinality({d.key : d \in A}) <= Cardinality({d.key : d \in B})
      /\ Cardinality({d.key : d \in A}) \in Nat /\ Cardinality({d.key : d \in B}) \in Nat
  BY FiniteKeys
<1>4. w.mode = "scalar" => ScalarGood(Req, B, x)
  BY DEF SubGood, ScalarGood, Between
<1>5. w.mode = "series" => SeriesGood(w, Req, B, x)
  BY DEF SubGood, SeriesGood
<1>6. ASSUME w.mode = "raw" PROVE RawGood(w, Req, B, x)
  <2>1. w.q.maxPoints \in Nat
    BY <1>1, <1>6 DEF Planned
  <2>2. RawGood(w, Req, A, x)
    BY <1>6 DEF SubGood
  <2>3. PointsGood(Req, A, w.q.maxPoints, x.points) => PointsGood(Req, B, w.q.maxPoints, x.points)
    BY <2>1, PointsStayGood
  <2> QED
    BY <1>1, <1>2, <2>2, <2>3 DEF RawGood
<1>7. ASSUME w.mode = "grouped" PROVE GroupsGood(Req, B, x)
  <2>1. GroupsGood(Req, A, x)
    BY <1>7 DEF SubGood
  <2> QED
    BY <1>1, <1>3, <2>1 DEF GroupsGood, Between
<1> QED
  BY <1>4, <1>5, <1>6, <1>7 DEF SubGood

-----------------------------------------------------------------------------
(* The result of an item.                                                  *)

(* The rules of Validate, and the window, leave a plan.                    *)
LEMMA PlanFacts ==
    ASSUME NEW q \in Queries, NEW at \in Int, Refusal(q, at) = NONE, NEW w, w.q = q,
           w.mode = Mode(q), w.from = ResolveWindow(q, at).from, w.to = ResolveWindow(q, at).to,
           DOMAIN w.sub = DOMAIN q.specs
    PROVE  Planned(w)
<1> DEFINE v == ResolveWindow(q, at)
<1>0. /\ NONE \notin Codes /\ NONE \notin Int
      /\ Len(q.specs) \in Nat /\ DOMAIN q.specs = 1 .. Len(q.specs)
      /\ q.from \in Int \cup {NONE} /\ q.to \in Int \cup {NONE}
  BY MetricsAssumption
<1>1. v.err = NONE /\ Validate(q, v) = NONE
  BY DEF Refusal
<1>2. v.from \in Int /\ v.to \in Int /\ v.from <= v.to
  <2>0. Unresolved.err # NONE
    BY <1>0 DEF Unresolved, Codes
  <2>1. CASE q.range # NONE
    <3>1. q.range \in DOMAIN RangeDuration /\ v = Resolved(at - RangeDuration[q.range], at)
      BY <1>1, <2>0, <2>1 DEF ResolveWindow
    <3>2. RangeDuration[q.range] \in Nat
      BY <3>1, RulesAssumption
    <3> QED
      BY <3>1, <3>2 DEF Resolved
  <2>2. CASE q.range = NONE
    <3>1. q.from # NONE /\ q.to # NONE /\ q.to > q.from /\ v = Resolved(q.from, q.to)
      BY <1>1, <2>0, <2>2 DEF ResolveWindow
    <3> QED
      BY <1>0, <3>1 DEF Resolved
  <2> QED
    BY <2>1, <2>2
<1> HIDE DEF v
<1>3. /\ Len(q.specs) # 0 /\ ~IllFormed(q) /\ ~HasRawAmongMultiple(q.specs)
      /\ Mode(q) = "grouped" => Len(q.specs) = 1
      /\ Mode(q) = "series" => ~(ExpectedBuckets(v, q.bucket) > MaxBuckets)
  <2> DEFINE late == IF IllFormed(q) THEN "INVALID_PARAMS"
                     ELSE IF HasRawAmongMultiple(q.specs) THEN "RAW_MODE_CONFLICT"
                     ELSE CASE Mode(q) = "raw" ->
                                 IF q.bucket # NONE \/ q.groupBy # NONE THEN "RAW_MODE_CONFLICT" ELSE NONE
                            [] Mode(q) = "grouped" ->
                                 IF q.bucket # NONE \/ Len(q.specs) # 1 THEN "GROUP_BY_CONFLICT"
                                 ELSE IF Stateful(q.specs) THEN "INVALID_PARAMS" ELSE NONE
                            [] Mode(q) = "series" ->
                                 IF ExpectedBuckets(v, q.bucket) > MaxBuckets THEN "RANGE_TOO_WIDE"
                                 ELSE IF Stateful(q.specs) THEN "INVALID_PARAMS" ELSE NONE
                            [] OTHER -> NONE
  <2>1. NONE \notin {"INVALID_PARAMS", "TOO_MANY_METRICS", "RAW_MODE_CONFLICT", "GROUP_BY_CONFLICT",
                     "RANGE_TOO_WIDE"}
    BY <1>0 DEF Codes
  <2>2. Len(q.specs) # 0 /\ late = NONE
    BY <1>0, <1>1, <2>1, RulesAssumption DEF Validate
  <2>3. ~IllFormed(q) /\ ~HasRawAmongMultiple(q.specs)
    BY <2>1, <2>2
  <2>4. ASSUME Mode(q) = "grouped" PROVE Len(q.specs) = 1
    BY <2>1, <2>2, <2>3, <2>4
  <2>5. ASSUME Mode(q) = "series" PROVE ~(ExpectedBuckets(v, q.bucket) > MaxBuckets)
    BY <2>1, <2>2, <2>3, <2>5
  <2> QED
    BY <2>2, <2>3, <2>4, <2>5
<1>4. Mode(q) \in {"scalar", "series", "raw", "grouped"}
  BY DEF Mode
<1>5. ASSUME Mode(q) = "raw" PROVE Len(q.specs) = 1
  <2>1. q.specs[1].agg = "raw"
    BY <1>5 DEF Mode
  <2>2. 1 \in DOMAIN q.specs
    BY <1>0, <1>3
  <2>3. ~(Len(q.specs) > 1)
    BY <1>3, <2>1, <2>2 DEF HasRawAmongMultiple
  <2>4. PICK n \in Nat : n = Len(q.specs)
    BY <1>0
  <2>5. n # 0 /\ ~(n > 1)
    BY <1>3, <2>3, <2>4
  <2>6. n = 1
    BY <2>5
  <2> QED
    BY <2>4, <2>6
<1>6. q.maxPoints \in 0 .. MaxRawPoints /\ (q.bucket = NONE \/ q.bucket \in DOMAIN BucketDuration)
  BY <1>3 DEF IllFormed
<1>7. ASSUME Mode(q) = "series"
      PROVE  q.bucket \in DOMAIN BucketDuration /\ ExpectedBuckets(w, q.bucket) <= MaxBuckets
  <2>1. q.bucket # NONE
    BY <1>7 DEF Mode
  <2>2. q.bucket \in DOMAIN BucketDuration
    BY <1>6, <2>1
  <2> DEFINE n == BucketDuration[q.bucket]
  <2>3. n \in Nat \ {0} /\ MaxBuckets \in Nat
    BY <2>2, RulesAssumption
  <2>4. ExpectedBuckets(w, q.bucket) = ExpectedBuckets(v, q.bucket)
    BY DEF ExpectedBuckets, v
  <2>5. ExpectedBuckets(v, q.bucket) = (v.to - v.from) \div n + 1
    BY DEF ExpectedBuckets
  <2> HIDE DEF n
  <2>6. v.to - v.from \in Int
    BY <1>2
  <2>7. (v.to - v.from) \div n \in Int
    BY <2>3, <2>6, Quotient
  <2>8. ~(ExpectedBuckets(v, q.bucket) > MaxBuckets)
    BY <1>3, <1>7
  <2> QED
    BY <2>2, <2>3, <2>4, <2>5, <2>7, <2>8
<1> QED
  BY <1>0, <1>2, <1>3, <1>4, <1>5, <1>6, <1>7 DEF Planned, v

(* maxDataAsOf is no older than any of the aggregates'.                    *)
LEMMA NewestAsOf ==
    ASSUME NEW sub, \A k \in DOMAIN sub : sub[k].asOf \in Int \cup {NONE}, NEW u \in MaxDataAsOf(sub),
           NEW k \in DOMAIN sub, NEW Req, Req \subseteq Samples, DataAsOf(Req, sub[k].asOf)
    PROVE  \A d \in Req : u # NONE /\ u >= d.ts
<1> DEFINE known == {sub[l].asOf : l \in DOMAIN sub} \ {NONE}
<1> SUFFICES ASSUME NEW d \in Req PROVE u # NONE /\ u >= d.ts
  OBVIOUS
<1>1. sub[k].asOf # NONE /\ sub[k].asOf >= d.ts /\ sub[k].asOf \in Int /\ d.ts \in Int
  BY FiniteSamples DEF DataAsOf
<1>2. sub[k].asOf \in known /\ known \subseteq Int /\ NONE \notin known
  BY <1>1
<1>3. u \in known /\ sub[k].asOf <= u
  BY <1>2 DEF MaxDataAsOf
<1> QED
  BY <1>1, <1>2, <1>3

(* An item whose aggregates were all good, at its end.                     *)
Ripe(w, t, S0, D) ==
    /\ Planned(w) /\ w.err = NONE
    /\ S0 \subseteq D /\ D \subseteq Samples
    /\ \A k \in DOMAIN w.sub : SubGood(w, Matched(S0, t, w, k), Matched(D, t, w, k), w.sub[k])

LEMMA RipeSamples ==
    ASSUME NEW w, NEW t, NEW S0, NEW D, Ripe(w, t, S0, D), NEW k
    PROVE  Matched(S0, t, w, k) \subseteq Samples /\ Matched(D, t, w, k) \subseteq Samples
BY MatchedWithin DEF Ripe

LEMMA ScalarServed ==
    ASSUME NEW w, NEW t, NEW S0, NEW D, Ripe(w, t, S0, D), w.mode = "scalar", NEW r \in QueryScalar(w)
    PROVE  r.err = NONE /\ ServedGood(w, r, t, S0, D)
<1>1. PICK u \in MaxDataAsOf(w.sub) : r = Ok(w, [k \in DOMAIN w.sub |-> w.sub[k].over], u)
  BY DEF QueryScalar
<1>2. /\ r.err = NONE /\ r.mode = "scalar" /\ r.asOf = u
      /\ r.data = [k \in DOMAIN w.sub |-> w.sub[k].over]
  BY <1>1 DEF Ok
<1>3. \A k \in DOMAIN w.sub : ScalarGood(Matched(S0, t, w, k), Matched(D, t, w, k), w.sub[k])
  BY DEF Ripe, SubGood
<1>4. \A k \in DOMAIN w.sub : DataAsOf(Matched(S0, t, w, k), w.sub[k].asOf)
  BY <1>3 DEF ScalarGood
<1>5. \A k \in DOMAIN w.sub : w.sub[k].asOf \in Int \cup {NONE}
  BY <1>4 DEF DataAsOf
<1>6. ASSUME NEW k \in DOMAIN w.sub
      PROVE  \A d \in Matched(S0, t, w, k) : u # NONE /\ u >= d.ts
  BY <1>4, <1>5, NewestAsOf, RipeSamples
<1>7. \A k \in DOMAIN r.data : Between(Matched(S0, t, w, k), r.data[k], Matched(D, t, w, k))
  BY <1>2, <1>3 DEF ScalarGood
<1> QED
  BY <1>2, <1>6, <1>7 DEF ServedGood

LEMMA SeriesServed ==
    ASSUME NEW w, NEW t, NEW S0, NEW D, Ripe(w, t, S0, D), w.mode = "series", NEW r \in QuerySeries(w)
    PROVE  r.err = NONE /\ ServedGood(w, r, t, S0, D)
<1> DEFINE sub == w.sub
           times == UNION {DOMAIN sub[k].points : k \in DOMAIN sub}
           At(k, ts) == k \in DOMAIN sub /\ ts \in DOMAIN sub[k].points
           Point(ts) == [ts |-> ts, results |-> [k \in {j \in DOMAIN sub : ts \in DOMAIN sub[j].points}
                                                     |-> sub[k].points[ts]]]
<1>1. PICK m \in MergeSeries(w.sub), u \in MaxDataAsOf(w.sub) : r = Ok(w, m, u)
  BY DEF QuerySeries
<1>2. r.err = NONE /\ r.mode = "series" /\ r.asOf = u /\ r.data = m
  BY <1>1 DEF Ok
<1>3. PICK o \in InOrder(times) : m = [i \in 1 .. Len(o) |-> Point(o[i])]
  BY DEF MergeSeries
<1>4. /\ o \in SeqOf(times, Cardinality(times)) /\ ToSet(o) = times
      /\ \A i, j \in 1 .. Len(o) : i < j => o[i] < o[j]
  BY DEF InOrder
<1>5. \A k \in DOMAIN sub : SeriesGood(w, Matched(S0, t, w, k), Matched(D, t, w, k), sub[k])
  BY DEF Ripe, SubGood
<1>6. times \subseteq Buckets(w)
  BY <1>5 DEF SeriesGood
<1>7. /\ IsFiniteSet(times) /\ Cardinality(times) \in Nat /\ Cardinality(times) <= MaxBuckets + 1
  <2>1. Planned(w)
    BY DEF Ripe
  <2>2. IsFiniteSet(Buckets(w)) /\ Cardinality(Buckets(w)) <= MaxBuckets + 1
    BY <2>1, FewBuckets
  <2> HIDE DEF times
  <2>3. IsFiniteSet(times) /\ Cardinality(times) <= Cardinality(Buckets(w))
    BY <1>6, <2>2, FS_Subset
  <2>4. Cardinality(times) \in Nat /\ Cardinality(Buckets(w)) \in Nat /\ MaxBuckets \in Nat
    BY <2>2, <2>3, FS_CardinalityType, RulesAssumption
  <2> QED
    BY <2>2, <2>3, <2>4
<1>8. PICK n \in 0 .. Cardinality(times) : o \in [1 .. n -> times]
  BY <1>4 DEF SeqOf
<1>9. n \in Nat /\ Len(o) = n /\ DOMAIN o = 1 .. n /\ n <= MaxBuckets + 1
  <2>1. n \in Nat /\ n <= MaxBuckets + 1 /\ MaxBuckets \in Nat
    BY <1>7, RulesAssumption
  <2> QED
    BY <1>8, <2>1
<1>10. Len(m) = n /\ DOMAIN m = 1 .. n /\ \A i \in 1 .. n : m[i] = Point(o[i])
  BY <1>3, <1>9
<1>11. \A ts \in times : \E i \in 1 .. n : o[i] = ts
  BY <1>4, <1>9 DEF ToSet
<1> HIDE DEF times
<1>12. ASSUME NEW i \in 1 .. n
       PROVE  /\ m[i].ts = o[i]
              /\ DOMAIN m[i].results = {j \in DOMAIN sub : o[i] \in DOMAIN sub[j].points}
              /\ \A k \in DOMAIN m[i].results : m[i].results[k] = sub[k].points[o[i]]
  <2> DEFINE J == {j \in DOMAIN sub : o[i] \in DOMAIN sub[j].points}
             f == [k \in J |-> sub[k].points[o[i]]]
  <2>1. m[i] = [ts |-> o[i], results |-> f]
    BY <1>10
  <2>2. DOMAIN f = J /\ \A k \in J : f[k] = sub[k].points[o[i]]
    OBVIOUS
  <2> HIDE DEF f, J
  <2>3. m[i].ts = o[i] /\ m[i].results = f
    BY <2>1
  <2>4. DOMAIN m[i].results = J /\ \A k \in DOMAIN m[i].results : m[i].results[k] = sub[k].points[o[i]]
    BY <2>2, <2>3
  <2> QED
    BY <2>3, <2>4 DEF J
<1> HIDE DEF Point
<1>13. \A j, l \in DOMAIN m : j < l => m[j].ts < m[l].ts
  BY <1>4, <1>9, <1>10, <1>12
<1>14. \A j \in DOMAIN m : \A k \in DOMAIN m[j].results : m[j].results[k] # {}
  BY <1>5, <1>10, <1>12 DEF SeriesGood
<1>15. ASSUME NEW k \in DOMAIN sub
       PROVE  Between(Matched(S0, t, w, k),
                      UNION {m[j].results[k] : j \in {l \in DOMAIN m : k \in DOMAIN m[l].results}},
                      Matched(D, t, w, k))
  <2>1. SeriesGood(w, Matched(S0, t, w, k), Matched(D, t, w, k), sub[k])
    BY <1>5
  <2>2. ASSUME NEW d \in Matched(S0, t, w, k)
        PROVE  \E j \in DOMAIN m : k \in DOMAIN m[j].results /\ d \in m[j].results[k]
    <3>1. PICK ts \in DOMAIN sub[k].points : d \in sub[k].points[ts]
      BY <2>1 DEF SeriesGood
    <3>2. ts \in times
      BY DEF times
    <3>3. PICK i \in 1 .. n : o[i] = ts
      BY <1>11, <3>2
    <3> QED
      BY <1>10, <1>12, <3>1, <3>3
  <2>3. ASSUME NEW j \in DOMAIN m, k \in DOMAIN m[j].results
        PROVE  m[j].results[k] \subseteq Matched(D, t, w, k)
    BY <1>10, <1>12, <2>1, <2>3 DEF SeriesGood
  <2> QED
    BY <2>2, <2>3 DEF Between
<1>16. \A k \in DOMAIN sub : DataAsOf(Matched(S0, t, w, k), sub[k].asOf)
  BY <1>5 DEF SeriesGood
<1>17. \A k \in DOMAIN sub : sub[k].asOf \in Int \cup {NONE}
  BY <1>16 DEF DataAsOf
<1>18. ASSUME NEW k \in DOMAIN sub
       PROVE  \A d \in Matched(S0, t, w, k) : u # NONE /\ u >= d.ts
  BY <1>16, <1>17, NewestAsOf, RipeSamples
<1> QED
  BY <1>2, <1>9, <1>10, <1>13, <1>14, <1>15, <1>18 DEF ServedGood

(* The guardrails: a refusal is given for what is there.                   *)
Within(w, t, S0, D, r) ==
    /\ r.err = NONE => ServedGood(w, r, t, S0, D)
    /\ r.err # NONE => \/ r.err = "RANGE_TOO_WIDE" /\ Cardinality(Matched(D, t, w, 1)) > MaxRawPoints
                       \/ /\ r.err = "TOO_MANY_GROUPS"
                          /\ Cardinality({d.key : d \in Matched(D, t, w, 1)}) > MaxGroups

LEMMA RawServed ==
    ASSUME NEW w, NEW t, NEW S0, NEW D, Ripe(w, t, S0, D), w.mode = "raw", NEW r \in QueryRaw(w)
    PROVE  Within(w, t, S0, D, r)
<1>1. DOMAIN w.sub = {1}
  <2>1. DOMAIN w.sub = 1 .. 1
    BY DEF Ripe, Planned
  <2> QED
    BY <2>1
<1>2. RawGood(w, Matched(S0, t, w, 1), Matched(D, t, w, 1), w.sub[1])
  BY <1>1 DEF Ripe, SubGood
<1>3. CASE Len(w.sub[1].points) > MaxRawPoints
  <2>1. r = Err("RANGE_TOO_WIDE") /\ "RANGE_TOO_WIDE" # NONE
    BY <1>3, MetricsAssumption DEF QueryRaw, Codes
  <2> QED
    BY <1>2, <1>3, <2>1 DEF RawGood, Within, Err
<1>4. CASE ~(Len(w.sub[1].points) > MaxRawPoints)
  <2>1. r = Ok(w, w.sub[1].points, w.sub[1].asOf)
    BY <1>4 DEF QueryRaw
  <2>2. r.err = NONE /\ r.mode = "raw" /\ r.data = w.sub[1].points /\ r.asOf = w.sub[1].asOf
    BY <2>1 DEF Ok
  <2>3. PointsGood(Matched(S0, t, w, 1), Matched(D, t, w, 1), w.q.maxPoints, r.data)
    BY <1>2, <1>4, <2>2 DEF RawGood
  <2>4. \A d \in Matched(S0, t, w, 1) : r.asOf # NONE /\ r.asOf >= d.ts
    BY <1>2, <1>4, <2>2 DEF RawGood, DataAsOf
  <2>5. w.q.maxPoints \in Nat
    BY RulesAssumption DEF Ripe, Planned
  <2>6. ServedGood(w, r, t, S0, D)
    BY <1>1, <2>2, <2>3, <2>4, <2>5 DEF ServedGood
  <2> QED
    BY <2>2, <2>6 DEF Within
<1> QED
  BY <1>3, <1>4

LEMMA GroupsServed ==
    ASSUME NEW w, NEW t, NEW S0, NEW D, Ripe(w, t, S0, D), w.mode = "grouped", NEW r \in QueryGrouped(w)
    PROVE  Within(w, t, S0, D, r)
<1>1. DOMAIN w.sub = {1}
  <2>1. DOMAIN w.sub = 1 .. 1
    BY DEF Ripe, Planned
  <2> QED
    BY <2>1
<1>2. GroupsGood(Matched(S0, t, w, 1), Matched(D, t, w, 1), w.sub[1])
  BY <1>1 DEF Ripe, SubGood
<1>3. CASE Cardinality(w.sub[1].groups) > MaxGroups
  <2>1. r = Err("TOO_MANY_GROUPS") /\ "TOO_MANY_GROUPS" # NONE
    BY <1>3, MetricsAssumption DEF QueryGrouped, Codes
  <2> QED
    BY <1>2, <1>3, <2>1 DEF GroupsGood, Within, Err
<1>4. CASE ~(Cardinality(w.sub[1].groups) > MaxGroups)
  <2>1. r = Ok(w, w.sub[1].groups, w.sub[1].asOf)
    BY <1>4 DEF QueryGrouped
  <2>2. r.err = NONE /\ r.mode = "grouped" /\ r.data = w.sub[1].groups /\ r.asOf = w.sub[1].asOf
    BY <2>1 DEF Ok
  <2>3. /\ Cardinality(r.data) <= MaxGroups
        /\ \A g, h \in r.data : g # h => g.over \cap h.over = {}
        /\ Between(Matched(S0, t, w, 1), UNION {g.over : g \in r.data}, Matched(D, t, w, 1))
    BY <1>2, <1>4, <2>2 DEF GroupsGood
  <2>4. \A d \in Matched(S0, t, w, 1) : r.asOf # NONE /\ r.asOf >= d.ts
    BY <1>2, <1>4, <2>2 DEF GroupsGood, DataAsOf
  <2>5. ServedGood(w, r, t, S0, D)
    BY <1>1, <2>2, <2>3, <2>4 DEF ServedGood
  <2> QED
    BY <2>2, <2>5 DEF Within
<1> QED
  BY <1>3, <1>4

LEMMA RipeResult ==
    ASSUME NEW w, NEW t, NEW S0, NEW D, Ripe(w, t, S0, D), NEW r \in Results(w)
    PROVE  Within(w, t, S0, D, r)
<1>1. w.mode \in {"scalar", "series", "raw", "grouped"} /\ w.err = NONE
  BY DEF Ripe, Planned
<1>2. /\ w.mode = "scalar" => r \in QueryScalar(w)
      /\ w.mode = "series" => r \in QuerySeries(w)
      /\ w.mode = "raw" => r \in QueryRaw(w)
      /\ w.mode = "grouped" => r \in QueryGrouped(w)
  BY <1>1 DEF Results
<1> QED
  BY <1>1, <1>2, ScalarServed, SeriesServed, RawServed, GroupsServed DEF Within

-----------------------------------------------------------------------------
(* Items and the collection.                                               *)

(* Samples that come later, and a client that leaves, take nothing away.   *)
LEMMA ItemStaysOK ==
    ASSUME NEW w, NEW at, NEW t, NEW S0, NEW C, NEW D, C \subseteq D, D \subseteq Samples,
           NEW g \in BOOLEAN, NEW h \in BOOLEAN, g => h, ItemOK(w, at, t, S0, C, g)
    PROVE  ItemOK(w, at, t, S0, D, h)
<1>1. \A k : Matched(C, t, w, k) \subseteq Matched(D, t, w, k) /\ Matched(D, t, w, k) \subseteq Samples
  BY MatchedGrows, MatchedWithin
<1>2. MaxRawPoints \in Nat /\ MaxGroups \in Nat
  BY RulesAssumption
<1>3. ASSUME w.pc = "running", w.err = NONE, NEW k \in DOMAIN w.sub, w.sub[k] # NONE
      PROVE  SubGood(w, Matched(S0, t, w, k), Matched(D, t, w, k), w.sub[k])
  <2>1. Planned(w) /\ SubGood(w, Matched(S0, t, w, k), Matched(C, t, w, k), w.sub[k])
    BY <1>3 DEF ItemOK
  <2> QED
    BY <1>1, <2>1, SubStaysGood
<1>4. ASSUME w.pc = "done", w.result.err = NONE
      PROVE  ServedGood(w, w.result, t, S0, D)
  <2>1. ServedGood(w, w.result, t, S0, C)
    BY <1>4 DEF ItemOK
  <2>2. ASSUME w.result.mode = "raw"
        PROVE  /\ w.q.maxPoints \in Nat
               /\ PointsGood(Matched(S0, t, w, 1), Matched(D, t, w, 1), w.q.maxPoints, w.result.data)
    <3>1. /\ w.q.maxPoints \in Nat
          /\ PointsGood(Matched(S0, t, w, 1), Matched(C, t, w, 1), w.q.maxPoints, w.result.data)
      BY <2>1, <2>2 DEF ServedGood
    <3> QED
      BY <1>1, <3>1, PointsStayGood
  <2> QED
    BY <1>1, <2>1, <2>2 DEF ServedGood, Between
<1>5. ASSUME w.pc = "done", w.result.err # NONE, ~h
      PROVE  OwnError(w, at, t, D, w.result.err)
  <2>1. OwnError(w, at, t, C, w.result.err)
    BY <1>5 DEF ItemOK
  <2>2. /\ Cardinality(Matched(C, t, w, 1)) \in Nat /\ Cardinality(Matched(D, t, w, 1)) \in Nat
        /\ Cardinality(Matched(C, t, w, 1)) <= Cardinality(Matched(D, t, w, 1))
    BY <1>1, FiniteSamples
  <2>3. /\ Cardinality({d.key : d \in Matched(C, t, w, 1)}) \in Nat
        /\ Cardinality({d.key : d \in Matched(D, t, w, 1)}) \in Nat
        /\ Cardinality({d.key : d \in Matched(C, t, w, 1)}) <= Cardinality({d.key : d \in Matched(D, t, w, 1)})
    BY <1>1, FiniteKeys
  <2> QED
    BY <1>2, <2>1, <2>2, <2>3 DEF OwnError
<1> QED
  BY <1>3, <1>4, <1>5 DEF ItemOK

(* A step of one item's goroutine: the request, the collection and the     *)
(* other items stay, and the answer has not been given.                    *)
LEMMA OneItem ==
    ASSUME MetricsInv, NEW i \in DOMAIN work, work[i].pc # "done", NEW v,
           ItemOK(v, req.now, req.tenant, start, docs, gone),
           work' = [work EXCEPT ![i] = v], groupErr' = FALSE,
           UNCHANGED <<docs, start, up, req, gone, answer>>
    PROVE  MetricsInv'
<1>1. DOMAIN work' = DOMAIN work /\ \A j \in DOMAIN work : work'[j] = IF j = i THEN v ELSE work[j]
  OBVIOUS
<1>2. \A j \in DOMAIN work : ItemOK(work'[j], req.now, req.tenant, start, docs, gone)
  BY <1>1 DEF MetricsInv
<1>3. ~(req.kind = "batch" /\ answer # NONE /\ answer.err = NONE)
  BY DEF MetricsInv, BatchOK
<1>4. BatchOK'
  BY <1>1, <1>3 DEF MetricsInv, BatchOK
<1> QED
  BY <1>1, <1>2, <1>4 DEF MetricsInv

LEMMA QueueIsOK ==
    ASSUME NEW q \in Queries, NEW at, NEW t, NEW S0, NEW D, NEW g
    PROVE  ItemOK(Queued(q), at, t, S0, D, g)
<1> DEFINE w == Queued(q)
<1>1. /\ DOMAIN w = {"pc", "q", "mode", "from", "to", "sub", "err", "hit", "result"}
      /\ w.pc = "queued" /\ w.q = q /\ w.err = NONE /\ w.hit = FALSE /\ w.sub = <<>>
  BY DEF Queued
<1>2. DOMAIN w.sub = {}
  BY <1>1
<1> HIDE DEF w
<1>3. ItemOK(w, at, t, S0, D, g)
  BY <1>1, <1>2 DEF ItemOK
<1> QED
  BY <1>3 DEF w

-----------------------------------------------------------------------------
(* The steps.                                                              *)

LEMMA InitMetrics == MetricsInit => MetricsInv
<1> SUFFICES ASSUME MetricsInit PROVE MetricsInv
  OBVIOUS
<1>1. docs \subseteq Samples /\ start = {} /\ req = Idle /\ work = <<>> /\ groupErr = FALSE /\ gone = FALSE
  BY MetricsAssumption DEF MetricsInit
<1>2. req.kind = "idle" /\ req.now = 0
  BY <1>1 DEF Idle
<1>3. DOMAIN work = {}
  BY <1>1
<1>4. start \subseteq docs /\ req.now \in Int
  BY <1>1, <1>2
<1>5. BatchOK
  BY <1>2 DEF BatchOK
<1>6. gone \in BOOLEAN
  BY <1>1, Zenon
<1> QED
  BY <1>1, <1>3, <1>4, <1>5, <1>6 DEF MetricsInv

LEMMA AcceptQuery ==
    ASSUME MetricsInv, NEW t, NEW at \in Clocks, NEW q \in Queries, QueryMetrics(t, q, at)
    PROVE  MetricsInv'
<1>1. /\ req' = [kind |-> "query", tenant |-> t, items |-> <<[id |-> NONE, q |-> q]>>, now |-> at]
      /\ start' = docs /\ docs' = docs /\ groupErr' = groupErr /\ gone' = gone /\ work' = <<Queued(q)>>
  BY DEF QueryMetrics, Arrive
<1>2. req'.kind = "query" /\ req'.now = at /\ at \in Int /\ req' # Idle
  <2>1. req'.kind = "query" /\ req'.now = at /\ at \in Int
    BY <1>1, MetricsAssumption
  <2>2. Idle.kind = "idle"
    BY DEF Idle
  <2> QED
    BY <2>1, <2>2
<1>3. \A i \in DOMAIN work' : work'[i] = Queued(q)
  BY <1>1
<1>4. \A i \in DOMAIN work' : ItemOK(work'[i], req'.now, req'.tenant, start', docs', gone')
  BY <1>3, QueueIsOK
<1> QED
  BY <1>1, <1>2, <1>4 DEF MetricsInv, BatchOK

LEMMA BatchIDs ==
    ASSUME NEW ids
    PROVE  ValidateBatchIDs(ids) \in Codes \cup {NONE}
BY DEF ValidateBatchIDs, Codes

LEMMA AcceptBatch ==
    ASSUME MetricsInv, NEW t, NEW at \in Clocks, NEW items \in BatchItems, BatchQueryMetrics(t, items, at)
    PROVE  MetricsInv'
<1> DEFINE refused == ValidateBatchIDs([i \in DOMAIN items |-> items[i].id])
<1>0. refused \in Codes \cup {NONE}
  BY BatchIDs
<1>1. /\ req' = [kind |-> "batch", tenant |-> t, items |-> items, now |-> at]
      /\ start' = docs /\ docs' = docs /\ groupErr' = groupErr /\ gone' = gone
      /\ work' = IF refused = NONE THEN [i \in DOMAIN items |-> Queued(items[i].q)] ELSE <<>>
      /\ answer' = IF refused = NONE THEN NONE ELSE Err(refused)
  BY DEF BatchQueryMetrics, Arrive
<1> HIDE DEF refused
<1>2. req'.kind = "batch" /\ req'.now = at /\ at \in Int /\ req' # Idle /\ req'.items = items
  <2>1. req'.kind = "batch" /\ req'.now = at /\ at \in Int /\ req'.items = items
    BY <1>1, MetricsAssumption
  <2>2. Idle.kind = "idle"
    BY DEF Idle
  <2> QED
    BY <2>1, <2>2
<1>3. CASE refused = NONE
  <2>1. work' = [i \in DOMAIN items |-> Queued(items[i].q)] /\ answer' = NONE
    BY <1>1, <1>3
  <2>2. DOMAIN work' = DOMAIN items /\ \A i \in DOMAIN items : work'[i] = Queued(items[i].q)
    BY <2>1
  <2>3. \A i \in DOMAIN items : items[i].q \in Queries
    BY MetricsAssumption
  <2>4. \A i \in DOMAIN work' : ItemOK(work'[i], req'.now, req'.tenant, start', docs', gone')
    BY <2>2, <2>3, QueueIsOK
  <2>5. BatchOK'
    BY <1>2, <2>1, <2>2 DEF BatchOK
  <2> QED
    BY <1>1, <1>2, <2>4, <2>5 DEF MetricsInv
<1>4. CASE refused # NONE
  <2>1. DOMAIN work' = {} /\ answer' = Err(refused)
    BY <1>1, <1>4
  <2>2. answer' # NONE /\ answer'.err # NONE
    BY <1>0, <1>4, <2>1, ErrAssumption DEF Err
  <2>3. BatchOK'
    BY <2>2 DEF BatchOK
  <2> QED
    BY <1>1, <1>2, <2>1, <2>3 DEF MetricsInv
<1> QED
  BY <1>3, <1>4

LEMMA AcceptCatalog ==
    ASSUME MetricsInv, NEW t, NEW m, CatalogMetrics(t, m)
    PROVE  MetricsInv'
<1>1. /\ req = Idle /\ req' = [kind |-> "catalog", tenant |-> t, items |-> <<>>, now |-> 0]
      /\ start' = docs /\ docs' = docs /\ groupErr' = groupErr /\ gone' = gone /\ work' = work
  BY DEF CatalogMetrics, Arrive
<1>2. req'.kind = "catalog" /\ req'.now = 0
  BY <1>1
<1>3. DOMAIN work' = {}
  BY <1>1 DEF MetricsInv
<1> QED
  BY <1>1, <1>2, <1>3 DEF MetricsInv, BatchOK

(* The item as its goroutine finds it.                                     *)
LEMMA AnItem ==
    ASSUME MetricsInv, NEW i \in DOMAIN work
    PROVE  /\ ItemOK(work[i], req.now, req.tenant, start, docs, gone)
           /\ DOMAIN work[i] = {"pc", "q", "mode", "from", "to", "sub", "err", "hit", "result"}
           /\ work[i].q \in Queries
           /\ NONE \notin Failures
<1>1. ItemOK(work[i], req.now, req.tenant, start, docs, gone)
  BY DEF MetricsInv
<1>2. NONE \notin Failures
  BY MetricsAssumption DEF Failures, Codes
<1> QED
  BY <1>1, <1>2 DEF ItemOK

LEMMA PlanItem ==
    ASSUME MetricsInv, NEW i \in DOMAIN work, Query(i)
    PROVE  MetricsInv'
<1> DEFINE w == work[i]
           q == w.q
           span == ResolveWindow(q, req.now)
           bad == [w EXCEPT !.pc = "running", !.err = Refusal(q, req.now)]
           good == [w EXCEPT !.pc = "running", !.mode = Mode(q), !.from = span.from, !.to = span.to,
                             !.sub = [k \in DOMAIN q.specs |-> NONE]]
<1>0. /\ DOMAIN w = {"pc", "q", "mode", "from", "to", "sub", "err", "hit", "result"}
      /\ q \in Queries /\ w.pc = "queued" /\ w.err = NONE /\ ~w.hit /\ DOMAIN w.sub = {}
      /\ req.now \in Int /\ groupErr = FALSE
  BY AnItem DEF Query, ItemOK, MetricsInv
<1>1. /\ work' = [work EXCEPT ![i] = IF Refusal(q, req.now) # NONE THEN bad ELSE good]
      /\ UNCHANGED <<docs, start, up, req, gone, answer>> /\ groupErr' = groupErr
  BY DEF Query
<1>2. CASE Refusal(q, req.now) # NONE
  <2>1. work' = [work EXCEPT ![i] = bad]
    BY <1>1, <1>2
  <2>2. /\ DOMAIN bad = DOMAIN w /\ bad.pc = "running" /\ bad.err = Refusal(q, req.now)
        /\ bad.q = q /\ bad.sub = w.sub /\ bad.hit = w.hit
    BY <1>0
  <2> HIDE DEF bad
  <2>3. ItemOK(bad, req.now, req.tenant, start, docs, gone)
    BY <1>0, <1>2, <2>2 DEF ItemOK
  <2> QED
    BY <1>0, <1>1, <2>1, <2>3, OneItem
<1>3. CASE Refusal(q, req.now) = NONE
  <2>1. work' = [work EXCEPT ![i] = good]
    BY <1>1, <1>3
  <2>2. /\ DOMAIN good = DOMAIN w /\ good.pc = "running" /\ good.err = NONE
        /\ good.q = q /\ good.hit = w.hit /\ good.mode = Mode(q)
        /\ good.from = span.from /\ good.to = span.to
        /\ good.sub = [k \in DOMAIN q.specs |-> NONE]
    BY <1>0
  <2>3. DOMAIN good.sub = DOMAIN q.specs /\ \A k \in DOMAIN good.sub : good.sub[k] = NONE
    BY <2>2
  <2> HIDE DEF good
  <2>4. Planned(good)
    BY <1>0, <1>3, <2>2, <2>3, PlanFacts
  <2>5. ItemOK(good, req.now, req.tenant, start, docs, gone)
    BY <1>0, <2>2, <2>3, <2>4 DEF ItemOK
  <2> QED
    BY <1>0, <1>1, <2>1, <2>5, OneItem
<1> QED
  BY <1>2, <1>3

LEMMA AggregateItem ==
    ASSUME MetricsInv, NEW i \in DOMAIN work, NEW k, SubQuery(i, k)
    PROVE  MetricsInv'
<1> DEFINE w == work[i]
<1>0. /\ DOMAIN w = {"pc", "q", "mode", "from", "to", "sub", "err", "hit", "result"}
      /\ ItemOK(w, req.now, req.tenant, start, docs, gone)
      /\ w.pc = "running" /\ k \in DOMAIN w.sub /\ w.sub[k] = NONE
      /\ docs \subseteq Samples /\ start \subseteq docs /\ groupErr = FALSE
  BY AnItem DEF SubQuery, Open, MetricsInv
<1>1. PICK r \in Aggregate(req.tenant, w, k) : work' = [work EXCEPT ![i].sub[k] = r]
  BY DEF SubQuery
<1> DEFINE s == [w.sub EXCEPT ![k] = r]
           v == [w EXCEPT !.sub = s]
<1>2. work' = [work EXCEPT ![i] = v]
  BY <1>1
<1>3. DOMAIN s = DOMAIN w.sub /\ s[k] = r /\ \A l \in DOMAIN w.sub : l # k => s[l] = w.sub[l]
  BY <1>0
<1> HIDE DEF s
<1>4. /\ DOMAIN v = DOMAIN w /\ v.sub = s /\ v.pc = w.pc /\ v.q = w.q /\ v.mode = w.mode
      /\ v.from = w.from /\ v.to = w.to /\ v.err = w.err /\ v.hit = w.hit
  BY <1>0
<1> HIDE DEF v
<1>5. \A C, l : Matched(C, req.tenant, v, l) = Matched(C, req.tenant, w, l)
  BY <1>4, MatchedSame
<1>6. ASSUME w.err = NONE
      PROVE  Planned(v) /\ \A l \in DOMAIN v.sub :
               \/ v.sub[l] = NONE
               \/ SubGood(v, Matched(start, req.tenant, v, l), Matched(docs, req.tenant, v, l), v.sub[l])
  <2>1. Planned(w)
    BY <1>0, <1>6 DEF ItemOK
  <2>2. Planned(v)
    BY <1>3, <1>4, <2>1 DEF Planned, ExpectedBuckets
  <2>3. \A l, x : SubGood(w, Matched(start, req.tenant, w, l), Matched(docs, req.tenant, w, l), x)
                  => SubGood(v, Matched(start, req.tenant, v, l), Matched(docs, req.tenant, v, l), x)
    BY <1>4, <1>5 DEF SubGood, SeriesGood, RawGood, Buckets
  <2>4. SubGood(w, Matched(start, req.tenant, w, k), Matched(docs, req.tenant, w, k), r)
    BY <1>0, <1>1, <2>1, MatchedGrows, AggregateIsGood
  <2> QED
    BY <1>0, <1>3, <1>4, <1>6, <2>2, <2>3, <2>4 DEF ItemOK
<1>7. ItemOK(v, req.now, req.tenant, start, docs, gone)
  BY <1>0, <1>3, <1>4, <1>6 DEF ItemOK
<1> QED
  BY <1>0, <1>2, <1>7, OneItem DEF SubQuery

(* An aggregate that did not return one: the item has an error from now    *)
(* on, its own or, when the client has gone, the cancellation's.           *)
LEMMA BrokenItem ==
    ASSUME MetricsInv, NEW i \in DOMAIN work, NEW k, Open(i, k), NEW code \in Failures, NEW v,
           DOMAIN v = DOMAIN work[i], v.pc = work[i].pc, v.q = work[i].q,
           v.err = FirstError(work[i], code),
           v.hit = TRUE \/ (v.hit = work[i].hit /\ (gone \/ work[i].err # NONE))
    PROVE  ItemOK(v, req.now, req.tenant, start, docs, gone)
<1> DEFINE w == work[i]
           e == FirstError(w, code)
<1>0. /\ DOMAIN w = {"pc", "q", "mode", "from", "to", "sub", "err", "hit", "result"}
      /\ ItemOK(w, req.now, req.tenant, start, docs, gone) /\ NONE \notin Failures
      /\ w.pc = "running" /\ k \in DOMAIN w.sub
  BY AnItem DEF Open, MetricsInv
<1>1. e \in Failures
  <2>1. CASE w.err = NONE
    BY <2>1 DEF FirstError
  <2>2. CASE w.err # NONE
    <3>1. DOMAIN w.sub # {}
      BY <1>0
    <3>2. w.err \in Failures
      BY <1>0, <2>2, <3>1 DEF ItemOK
    <3> QED
      BY <2>2, <3>2 DEF FirstError
  <2> QED
    BY <2>1, <2>2
<1>2. w.err # NONE => e = w.err
  BY DEF FirstError
<1> HIDE DEF e
<1>4. gone \/ v.hit \/ e = Refusal(w.q, req.now)
  BY <1>0, <1>2 DEF ItemOK
<1> QED
  BY <1>0, <1>1, <1>4 DEF ItemOK, e

LEMMA FailedItem ==
    ASSUME MetricsInv, NEW i \in DOMAIN work, NEW k, NEW code \in Failures, SubQueryFails(i, k, code)
    PROVE  MetricsInv'
<1> DEFINE w == work[i]
           v == [w EXCEPT !.sub = [w.sub EXCEPT ![k] = BAD], !.err = FirstError(w, code), !.hit = TRUE]
<1>1. /\ Open(i, k) /\ UNCHANGED <<docs, start, up, req, groupErr, gone, answer>>
      /\ work' = [work EXCEPT ![i].sub[k] = BAD, ![i].err = FirstError(work[i], code), ![i].hit = TRUE]
  BY DEF SubQueryFails
<1>2. DOMAIN w = {"pc", "q", "mode", "from", "to", "sub", "err", "hit", "result"}
  BY AnItem
<1>3. work' = [work EXCEPT ![i] = v]
  BY <1>1, <1>2
<1>4. /\ DOMAIN v = DOMAIN w /\ v.pc = w.pc /\ v.q = w.q /\ v.err = FirstError(w, code)
      /\ v.hit = TRUE
  BY <1>2
<1> HIDE DEF v
<1>5. v.hit = TRUE \/ (v.hit = w.hit /\ (gone \/ w.err # NONE))
  BY <1>4
<1>6. ItemOK(v, req.now, req.tenant, start, docs, gone)
  BY <1>1, <1>4, <1>5, BrokenItem
<1>7. groupErr' = FALSE /\ w.pc # "done"
  BY <1>1 DEF Open, MetricsInv
<1> QED
  BY <1>1, <1>3, <1>6, <1>7, OneItem

LEMMA CancelledItem ==
    ASSUME MetricsInv, NEW i \in DOMAIN work, NEW k, SubQueryCancelled(i, k)
    PROVE  MetricsInv'
<1> DEFINE w == work[i]
           v == [w EXCEPT !.sub = [w.sub EXCEPT ![k] = BAD], !.err = FirstError(w, "INTERNAL_ERROR")]
<1>1. /\ Open(i, k) /\ UNCHANGED <<docs, start, up, req, groupErr, gone, answer>>
      /\ work' = [work EXCEPT ![i].sub[k] = BAD, ![i].err = FirstError(work[i], "INTERNAL_ERROR")]
  BY DEF SubQueryCancelled
<1>2. DOMAIN w = {"pc", "q", "mode", "from", "to", "sub", "err", "hit", "result"}
  BY AnItem
<1>3. work' = [work EXCEPT ![i] = v]
  BY <1>1, <1>2
<1>4. gone \/ w.err # NONE
  BY DEF SubQueryCancelled, Cancelled, MetricsInv
<1>5. "INTERNAL_ERROR" \in Failures
  BY DEF Failures
<1>6. /\ DOMAIN v = DOMAIN w /\ v.pc = w.pc /\ v.q = w.q /\ v.err = FirstError(w, "INTERNAL_ERROR")
      /\ v.hit = w.hit
  BY <1>2
<1> HIDE DEF v
<1>7. v.hit = TRUE \/ (v.hit = w.hit /\ (gone \/ w.err # NONE))
  BY <1>4, <1>6
<1>8. ItemOK(v, req.now, req.tenant, start, docs, gone)
  BY <1>1, <1>5, <1>6, <1>7, BrokenItem
<1>9. groupErr' = FALSE /\ w.pc # "done"
  BY <1>1 DEF Open, MetricsInv
<1> QED
  BY <1>1, <1>3, <1>8, <1>9, OneItem

LEMMA FinishedItem ==
    ASSUME MetricsInv, NEW i \in DOMAIN work, Finish(i)
    PROVE  MetricsInv'
<1> DEFINE w == work[i]
<1>0. /\ DOMAIN w = {"pc", "q", "mode", "from", "to", "sub", "err", "hit", "result"}
      /\ ItemOK(w, req.now, req.tenant, start, docs, gone) /\ NONE \notin Failures
      /\ w.pc = "running" /\ \A k \in DOMAIN w.sub : w.sub[k] # NONE
      /\ docs \subseteq Samples /\ start \subseteq docs /\ groupErr = FALSE
  BY AnItem DEF Finish, MetricsInv
<1>1. PICK r \in Results(w) : /\ work' = [work EXCEPT ![i].pc = "done", ![i].result = r]
                              /\ groupErr' = (groupErr \/ Propagated(r))
  BY DEF Finish
<1> DEFINE v == [w EXCEPT !.pc = "done", !.result = r]
<1>2. work' = [work EXCEPT ![i] = v]
  BY <1>1
<1>3. groupErr' = FALSE
  BY <1>0, <1>1 DEF Propagated
<1>4. /\ DOMAIN v = DOMAIN w /\ v.pc = "done" /\ v.result = r /\ v.q = w.q /\ v.sub = w.sub
      /\ v.from = w.from /\ v.to = w.to /\ v.hit = w.hit
  BY <1>0
<1> HIDE DEF v
<1>5. \A C, k : Matched(C, req.tenant, v, k) = Matched(C, req.tenant, w, k)
  BY <1>4, MatchedSame
<1> SUFFICES ItemOK(v, req.now, req.tenant, start, docs, gone)
  BY <1>0, <1>2, <1>3, OneItem DEF Finish
<1>6. CASE w.err # NONE
  <2>1. r = Err(w.err)
    BY <1>6 DEF Results
  <2>2. r.err = w.err
    BY <2>1 DEF Err
  <2>3. gone \/ OwnError(v, req.now, req.tenant, docs, r.err)
    BY <1>0, <1>4, <1>6, <2>2 DEF ItemOK, OwnError
  <2> QED
    BY <1>0, <1>4, <1>6, <2>2, <2>3 DEF ItemOK
<1>7. CASE w.err = NONE
  <2>1. ~w.hit
    BY <1>0, <1>7 DEF ItemOK
  <2>2. Ripe(w, req.tenant, start, docs)
    BY <1>0, <1>7 DEF ItemOK, Ripe
  <2>3. Within(w, req.tenant, start, docs, r)
    BY <2>2, RipeResult
  <2>4. ASSUME r.err = NONE PROVE ServedGood(v, r, req.tenant, start, docs)
    <3>1. ServedGood(w, r, req.tenant, start, docs)
      BY <2>3, <2>4 DEF Within
    <3> QED
      BY <1>4, <1>5, <3>1 DEF ServedGood
  <2>5. ASSUME r.err # NONE PROVE OwnError(v, req.now, req.tenant, docs, r.err)
    BY <1>5, <2>3, <2>5 DEF Within, OwnError
  <2> QED
    BY <1>0, <1>4, <2>1, <2>4, <2>5 DEF ItemOK
<1> QED
  BY <1>6, <1>7

LEMMA GiveReply ==
    ASSUME MetricsInv, Reply
    PROVE  MetricsInv'
<1>1. /\ answer = NONE /\ \A i \in DOMAIN work : work[i].pc = "done"
      /\ UNCHANGED <<docs, start, up, req, work, groupErr, gone>>
  BY DEF Reply
<1>2. ASSUME req.kind = "batch"
      PROVE  /\ DOMAIN work = DOMAIN req.items /\ DOMAIN answer'.data = DOMAIN req.items
             /\ \A i \in DOMAIN req.items : /\ answer'.data[i].id = req.items[i].id
                                            /\ answer'.data[i].body = work[i].result
  <2>1. DOMAIN work = DOMAIN req.items
    BY <1>1, <1>2 DEF MetricsInv, BatchOK
  <2>2. answer' = [err |-> NONE, mode |-> NONE, data |-> BatchResultsToResponse, asOf |-> NONE]
    BY <1>2 DEF Reply
  <2>3. answer'.data = BatchResultsToResponse
    BY <2>2
  <2>4. /\ DOMAIN BatchResultsToResponse = DOMAIN work
        /\ \A i \in DOMAIN work :
              BatchResultsToResponse[i] = [id |-> req.items[i].id, body |-> work[i].result]
    BY DEF BatchResultsToResponse
  <2>5. ASSUME NEW i \in DOMAIN req.items
        PROVE  /\ BatchResultsToResponse[i].id = req.items[i].id
               /\ BatchResultsToResponse[i].body = work[i].result
    <3>1. BatchResultsToResponse[i] = [id |-> req.items[i].id, body |-> work[i].result]
      BY <2>1, <2>4
    <3> QED
      BY <3>1
  <2> QED
    BY <2>1, <2>3, <2>4, <2>5
<1>3. BatchOK'
  BY <1>1, <1>2 DEF BatchOK
<1> QED
  BY <1>1, <1>3 DEF MetricsInv

LEMMA LeftAlone ==
    ASSUME MetricsInv, ClientGone
    PROVE  MetricsInv'
<1>1. gone' = TRUE /\ UNCHANGED <<docs, start, up, req, work, groupErr, answer>>
  BY DEF ClientGone
<1>2. docs \subseteq Samples /\ gone \in BOOLEAN
  BY DEF MetricsInv
<1>3. \A i \in DOMAIN work : ItemOK(work[i], req.now, req.tenant, start, docs, TRUE)
  BY <1>2, ItemStaysOK DEF MetricsInv
<1>4. BatchOK'
  BY <1>1 DEF MetricsInv, BatchOK
<1> QED
  BY <1>1, <1>3, <1>4 DEF MetricsInv

LEMMA SampleStored ==
    ASSUME MetricsInv, NEW d, Insert(d)
    PROVE  MetricsInv'
<1>1. d \in Samples /\ docs' = docs \cup {d} /\ UNCHANGED <<start, up, req, work, groupErr, gone, answer>>
  BY DEF Insert
<1>2. docs \subseteq docs' /\ docs' \subseteq Samples /\ gone \in BOOLEAN
  BY <1>1 DEF MetricsInv
<1>3. \A i \in DOMAIN work : ItemOK(work[i], req.now, req.tenant, start, docs', gone)
  BY <1>2, ItemStaysOK DEF MetricsInv
<1>4. BatchOK'
  BY <1>1 DEF MetricsInv, BatchOK
<1> QED
  BY <1>1, <1>2, <1>3, <1>4 DEF MetricsInv

LEMMA MetricsStep == MetricsInv /\ [MetricsNext]_metricsVars => MetricsInv'
<1> SUFFICES ASSUME MetricsInv, [MetricsNext]_metricsVars PROVE MetricsInv'
  OBVIOUS
<1>1. ASSUME NEW t \in Askers, NEW at \in Clocks, NEW q \in Queries, QueryMetrics(t, q, at)
      PROVE  MetricsInv'
  BY <1>1, AcceptQuery
<1>2. ASSUME NEW t \in Askers, NEW at \in Clocks, NEW items \in BatchItems,
             BatchQueryMetrics(t, items, at)
      PROVE  MetricsInv'
  BY <1>2, AcceptBatch
<1>3. ASSUME NEW t \in Askers, NEW m \in Machines \cup {NONE}, CatalogMetrics(t, m)
      PROVE  MetricsInv'
  BY <1>3, AcceptCatalog
<1>4. ASSUME NEW i \in DOMAIN work, Query(i) \/ Finish(i) PROVE MetricsInv'
  BY <1>4, PlanItem, FinishedItem
<1>5. ASSUME NEW i \in DOMAIN work, NEW k \in 1 .. MaxSpecs,
             SubQuery(i, k) \/ SubQueryCancelled(i, k)
      PROVE  MetricsInv'
  BY <1>5, AggregateItem, CancelledItem
<1>6. ASSUME NEW i \in DOMAIN work, NEW k \in 1 .. MaxSpecs,
             NEW code \in {"QUERY_TIMEOUT", "INTERNAL_ERROR"}, SubQueryFails(i, k, code)
      PROVE  MetricsInv'
  BY <1>6, FailedItem DEF Failures
<1>7. ASSUME Reply PROVE MetricsInv'
  BY <1>7, GiveReply
<1>8. ASSUME ClientGone PROVE MetricsInv'
  BY <1>8, LeftAlone
<1>9. ASSUME NEW d \in Samples, Insert(d) PROVE MetricsInv'
  BY <1>9, SampleStored
<1>10. CASE UNCHANGED metricsVars
  BY <1>10 DEF metricsVars, MetricsInv, BatchOK
<1> QED
  BY <1>1, <1>2, <1>3, <1>4, <1>5, <1>6, <1>7, <1>8, <1>9, <1>10 DEF MetricsNext, Step

LEMMA MetricsInvariant == MetricsSpec => []MetricsInv
<1>1. MetricsInit => MetricsInv
  BY InitMetrics
<1>2. MetricsInv /\ [MetricsNext]_metricsVars => MetricsInv'
  BY MetricsStep
<1> QED
  BY <1>1, <1>2, PTL DEF MetricsSpec

LEMMA FaithfulFromInv == MetricsInv => AnswersFaithful
<1> SUFFICES ASSUME MetricsInv, NEW i \in Served
             PROVE  LET r == work[i].result IN
                    /\ r.mode = "scalar"  => \A k \in DOMAIN r.data : Covers(i, k, r.data[k])
                    /\ r.mode = "series"  => SeriesFaithful(i, r.data)
                    /\ r.mode = "raw"     => PointsFaithful(i, r.data)
                    /\ r.mode = "grouped" => GroupsFaithful(i, r.data)
                    /\ \A k \in DOMAIN work[i].sub : \A d \in Must(i, k) : r.asOf # NONE /\ r.asOf >= d.ts
  BY DEF AnswersFaithful
<1> DEFINE w == work[i]
           r == w.result
<1>1. ServedGood(w, r, req.tenant, start, docs)
  BY DEF MetricsInv, ItemOK, Served
<1>2. \A k, S : Between(Matched(start, req.tenant, w, k), S, Matched(docs, req.tenant, w, k))
                <=> Covers(i, k, S)
  BY DEF Between, Covers, Must, May
<1> HIDE DEF r
<1>3. r.mode = "scalar" => \A k \in DOMAIN r.data : Covers(i, k, r.data[k])
  BY <1>1, <1>2 DEF ServedGood
<1>4. r.mode = "series" => SeriesFaithful(i, r.data)
  BY <1>1, <1>2 DEF ServedGood, SeriesFaithful
<1>5. r.mode = "raw" => PointsFaithful(i, r.data)
  <2> SUFFICES ASSUME r.mode = "raw" PROVE PointsFaithful(i, r.data)
    OBVIOUS
  <2>1. PointsGood(Must(i, 1), May(i, 1), w.q.maxPoints, r.data)
    BY <1>1 DEF ServedGood, Must, May
  <2>2. ToSet(r.data) = {r.data[j] : j \in DOMAIN r.data}
    BY DEF ToSet
  <2> QED
    BY <2>1, <2>2 DEF PointsGood, PointsFaithful
<1>6. r.mode = "grouped" => GroupsFaithful(i, r.data)
  BY <1>1, <1>2 DEF ServedGood, GroupsFaithful
<1>7. \A k \in DOMAIN w.sub : \A d \in Must(i, k) : r.asOf # NONE /\ r.asOf >= d.ts
  BY <1>1 DEF ServedGood, Must
<1> QED
  BY <1>3, <1>4, <1>5, <1>6, <1>7 DEF r

LEMMA IndependentFromInv == MetricsInv => ItemsIndependent
<1> SUFFICES ASSUME MetricsInv PROVE ItemsIndependent
  OBVIOUS
<1>1. ASSUME ~gone, NEW i \in DOMAIN work, work[i].pc = "done"
      PROVE  LET e == work[i].result.err IN
             /\ work[i].hit => e \in {"QUERY_TIMEOUT", "INTERNAL_ERROR"}
             /\ e # NONE => \/ work[i].hit
                            \/ e = Refusal(work[i].q, req.now)
                            \/ e = "RANGE_TOO_WIDE" /\ Cardinality(May(i, 1)) > MaxRawPoints
                            \/ e = "TOO_MANY_GROUPS" /\ Cardinality({d.key : d \in May(i, 1)}) > MaxGroups
  <2>1. ItemOK(work[i], req.now, req.tenant, start, docs, gone)
    BY DEF MetricsInv
  <2> QED
    BY <1>1, <2>1 DEF ItemOK, OwnError, Failures, May
<1>2. answer # NONE /\ req.kind = "batch" /\ answer.err = NONE =>
          /\ DOMAIN answer.data = DOMAIN req.items
          /\ \A i \in DOMAIN req.items : /\ answer.data[i].id = req.items[i].id
                                         /\ answer.data[i].body = work[i].result
  BY DEF MetricsInv, BatchOK
<1> QED
  BY <1>1, <1>2 DEF ItemsIndependent

(* Whatever is stored while a request runs and in whatever order its       *)
(* aggregates return: an answer covers every sample of its window that was *)
(* there when the request arrived, none that is not of its tenant, machine *)
(* and window, keeps within the guardrails, and is dated no earlier than   *)
(* any of those samples (QueryMetrics, BatchQueryMetrics and the           *)
(* repository's pipelines).                                                *)
THEOREM MetricsFaithful == MetricsSpec => []AnswersFaithful
<1>1. MetricsInv => AnswersFaithful
  BY FaithfulFromInv
<1> QED
  BY <1>1, MetricsInvariant, PTL

(* An item of BatchQueryMetrics fails only by its own query or its own     *)
(* aggregates as long as the client waits, never hides its failure, and is *)
(* answered under its own id.                                              *)
THEOREM MetricsIndependent == MetricsSpec => []ItemsIndependent
<1>1. MetricsInv => ItemsIndependent
  BY IndependentFromInv
<1> QED
  BY <1>1, MetricsInvariant, PTL
=============================================================================
