---------------------------- MODULE TokenBucket -----------------------------
(***************************************************************************)
(* The rate limit of one key: a token bucket in Redis, read and written by *)
(* one Lua script (internal/consumers for API keys; the dashboards carry a *)
(* copy of it for users, with a fractional rate).                          *)
(*                                                                         *)
(* Allow reads the clock of its replica and then runs the script with that *)
(* reading, so the script may run later than the reading and after scripts *)
(* with later readings.  Time is in milliseconds.  Tokens are counted in   *)
(* Unit-ths so that a millisecond is worth the whole number Refill of      *)
(* them: a rate of 200/s is Refill = 1, Unit = 5; 15/min is Refill = 1,    *)
(* Unit = 4000.                                                            *)
(***************************************************************************)
EXTENDS Integers

CONSTANTS
    Requests,   \* slots for calls of Allow in progress, on any replica
    Skews,      \* offsets of the replicas' clocks from that of Redis
    MaxSkew,    \* the greatest of them
    Unit,       \* units in a token
    Refill,     \* units the bucket gains in a millisecond
    Burst,      \* capacity, in tokens
    Second,     \* milliseconds in a second
    Lag,        \* longest time from a clock reading to its script
    MaxTime,    \* bound on the clock
    MaxBack     \* bound on win.back

ASSUME BucketAssumption ==
    /\ Skews \subseteq 0..MaxSkew
    /\ {Unit, Refill, Burst, Second} \subseteq Nat \ {0}
    /\ {Lag, MaxSkew, MaxTime, MaxBack} \subseteq Nat

VARIABLES
    now,       \* Redis's clock
    bucket,    \* the hash: present or not, tokens, ts, and when it expires
    read,      \* slot -> clock reading of the call, or -1
    promise,   \* the last script's Retry-After: when to come back, or -1
    win        \* a window of observation: its start, or -1, its grants and
               \* the milliseconds by which its scripts set ts back

vars == <<now, bucket, read, promise, win>>

Full == Burst * Unit

Lesser(a, b)  == IF a <= b THEN a ELSE b
Greater(a, b) == IF a <= b THEN b ELSE a
CeilDiv(a, b) == (a + b - 1) \div b

NoBucket == [on |-> FALSE, tokens |-> 0, ts |-> 0, dies |-> 0]

Init ==
    /\ now = 0
    /\ bucket = NoBucket
    /\ read = [q \in Requests |-> -1]
    /\ promise = -1
    /\ win = [start |-> -1, grants |-> 0, back |-> 0]

-----------------------------------------------------------------------------
(* The script.                                                             *)

(* Mutant: the time elapsed is taken without its sign.                     *)
RefilledUnsigned(t) ==
    IF bucket.on
    THEN Lesser(Full, bucket.tokens + Greater(bucket.ts - t, t - bucket.ts) * Refill)
    ELSE Full

(* tokens after the refill, for a script that carries the reading t.       *)
Refilled(t) ==
    IF bucket.on
    THEN Lesser(Full, bucket.tokens + Greater(0, t - bucket.ts) * Refill)
    ELSE Full

(* The argument of PEXPIRE: the time to fill the bucket and a second more. *)
PExpire == CeilDiv(Full, Refill) + Second

(* Mutant: the quotient is rounded down.                                   *)
RetryAfterFloor(tokens) == Greater(1, (Unit - tokens) \div (Refill * Second))

(* retry_after, in seconds, when tokens are left and one is requested.     *)
RetryAfter(tokens) == Greater(1, CeilDiv(Unit - tokens, Refill * Second))

Enough(tokens) == tokens >= Unit

(* How far a script that carries the reading t sets ts back.               *)
Rewind(t) == IF bucket.on THEN Greater(0, bucket.ts - t) ELSE 0

Allow(q) ==
    LET t       == read[q]
        allowed == Enough(Refilled(t))
        left    == IF allowed THEN Refilled(t) - Unit ELSE Refilled(t)
    IN  /\ t # -1
        /\ bucket' = [on |-> TRUE, tokens |-> left, ts |-> t, dies |-> now + PExpire]
        /\ promise' = IF allowed THEN -1 ELSE t + RetryAfter(left) * Second
        /\ win' = IF win.start = -1 THEN win
                  ELSE [start  |-> win.start,
                        grants |-> IF allowed THEN win.grants + 1 ELSE win.grants,
                        back   |-> win.back + Rewind(t)]
        /\ win'.back <= MaxBack
        /\ read' = [read EXCEPT ![q] = -1]
        /\ UNCHANGED now

-----------------------------------------------------------------------------
(* Allow reads the clock of the replica that serves the request.           *)
ReadClock(q) ==
    /\ read[q] = -1
    /\ \E s \in Skews : read' = [read EXCEPT ![q] = now + s]
    /\ UNCHANGED <<now, bucket, promise, win>>

(* Redis fails or answers in another shape: the request passes and the     *)
(* bucket does not know.  A script that ran and whose answer was lost is   *)
(* an Allow as far as the bucket is concerned.                             *)
FailOpen(q) ==
    /\ read[q] # -1
    /\ read' = [read EXCEPT ![q] = -1]
    /\ UNCHANGED <<now, bucket, promise, win>>

(* A millisecond; Redis drops the hash when its time has come.             *)
Tick ==
    /\ now < MaxTime
    /\ \A q \in Requests : read[q] # -1 => now - read[q] < Lag
    /\ now' = now + 1
    /\ bucket' = IF bucket.on /\ now + 1 >= bucket.dies THEN NoBucket ELSE bucket
    /\ UNCHANGED <<read, promise, win>>

(* Observation only: somebody starts to count grants.                      *)
OpenWindow ==
    /\ win.start = -1
    /\ win' = [start |-> now, grants |-> 0, back |-> 0]
    /\ UNCHANGED <<now, bucket, read, promise>>

Next ==
    \/ Tick
    \/ OpenWindow
    \/ \E q \in Requests : ReadClock(q) \/ Allow(q) \/ FailOpen(q)

Spec == Init /\ [][Next]_vars

-----------------------------------------------------------------------------
(* Properties.                                                             *)

(* Every variable keeps its shape; the balance is never negative and never *)
(* above the burst.                                                        *)
TypeOK ==
    /\ now \in Nat
    /\ bucket \in [on : BOOLEAN, tokens : 0..Full, ts : Nat, dies : Nat]
    /\ read \in [Requests -> Nat \cup {-1}]
    /\ promise \in Nat \cup {-1}
    /\ win \in [start : Nat \cup {-1}, grants : Nat, back : Nat]

(* RF-006: in any window the bucket grants no more than the burst and what *)
(* the rate adds, the time a request may spend between the clock and the   *)
(* script included.  An expired bucket restarts full, and that must not    *)
(* buy anything.                                                           *)
RateBound ==
    win.start # -1 => win.grants * Unit <= Full + (now - win.start + Lag) * Refill

(* The same for callers that overlap, on replicas whose clocks differ.  A  *)
(* script that runs after one with a later reading sets ts back, and the   *)
(* next one is credited that time once more; that is all the disorder can  *)
(* buy, whatever it does to the expiry of the hash.                        *)
OverlapBound ==
    win.start # -1 =>
        win.grants * Unit <= Full + (now - win.start + Lag + MaxSkew + win.back) * Refill

(* The Retry-After of a refusal is honest: whoever comes back then, or     *)
(* later, finds a token if nobody took it, and a second earlier would have *)
(* been too early (unless a second is the least the header can say).       *)
RetryHonest ==
    promise # -1 =>
        /\ \A t \in promise..(promise + PExpire) : Enough(Refilled(t))
        /\ bucket.on /\ promise - bucket.ts > Second => ~Enough(Refilled(promise - Second))
=============================================================================
