---------------------------- MODULE MetricsRules ----------------------------
(***************************************************************************)
(* What POST /dashboards/metrics/query decides before it touches MongoDB   *)
(* (internal/domain/metrics): the window, the mode and the guardrails; and *)
(* the decimation of raw points.  A field the client leaves out is NONE,   *)
(* BAD is a value of it that no rule accepts.  Time is counted in the unit *)
(* of the shortest bucket or finer.                                        *)
(***************************************************************************)
EXTENDS Integers, Sequences

CONSTANTS
    NONE, BAD,
    BucketDuration,    \* bucket name -> its duration
    RangeDuration,     \* range name -> its duration
    MaxSpecs, MaxBuckets, MaxRawPoints, MaxGroups, MaxBatchQueries

ASSUME RulesAssumption ==
    /\ {NONE, BAD} \cap (DOMAIN BucketDuration \cup DOMAIN RangeDuration) = {}
    /\ \A b \in DOMAIN BucketDuration : BucketDuration[b] \in Nat \ {0}
    /\ \A r \in DOMAIN RangeDuration : RangeDuration[r] \in Nat
    /\ {MaxSpecs, MaxBuckets, MaxRawPoints, MaxGroups, MaxBatchQueries} \subseteq Nat

Numeric == {"avg", "sum", "min", "max"}
Agg == Numeric \cup {"last", "count", "delta", "raw"}

-----------------------------------------------------------------------------
(* ResolveWindow: a range or both ends, never a mixture.                   *)

Resolved(from, to) == [err |-> NONE, from |-> from, to |-> to]
Unresolved == [err |-> "INVALID_PARAMS", from |-> 0, to |-> 0]

ResolveWindow(q, at) ==
    CASE q.range # NONE ->
           IF q.from = NONE /\ q.to = NONE /\ q.range \in DOMAIN RangeDuration
           THEN Resolved(at - RangeDuration[q.range], at) ELSE Unresolved
      [] q.range = NONE ->
           IF q.from # NONE /\ q.to # NONE /\ q.to > q.from
           THEN Resolved(q.from, q.to) ELSE Unresolved

-----------------------------------------------------------------------------
(* Validate: the first rule that fails names the error; otherwise a mode.  *)

ExpectedBuckets(w, b) == (w.to - w.from) \div BucketDuration[b] + 1

HasRawAmongMultiple(specs) == Len(specs) > 1 /\ \E k \in DOMAIN specs : specs[k].agg = "raw"

IllFormed(q) ==
    \/ \E k \in DOMAIN q.specs : q.specs[k].path = NONE \/ q.specs[k].agg \notin Agg
    \/ q.bucket # NONE /\ q.bucket \notin DOMAIN BucketDuration
    \/ q.groupBy = BAD
    \/ q.filter = BAD
    \/ q.maxPoints \notin 0 .. MaxRawPoints

Stateful(specs) == \E k \in DOMAIN specs : specs[k].agg \in {"last", "delta"}

Mode(q) ==
    CASE q.specs[1].agg = "raw" -> "raw"
      [] q.specs[1].agg # "raw" /\ q.groupBy # NONE -> "grouped"
      [] q.specs[1].agg # "raw" /\ q.groupBy = NONE /\ q.bucket # NONE -> "series"
      [] OTHER -> "scalar"

Validate(q, w) ==
    CASE q.machine = NONE \/ Len(q.specs) = 0 -> "INVALID_PARAMS"
      [] q.machine # NONE /\ Len(q.specs) > MaxSpecs -> "TOO_MANY_METRICS"
      [] OTHER ->
           IF IllFormed(q) THEN "INVALID_PARAMS"
           ELSE IF HasRawAmongMultiple(q.specs) THEN "RAW_MODE_CONFLICT"
           ELSE CASE Mode(q) = "raw" ->
                       IF q.bucket # NONE \/ q.groupBy # NONE THEN "RAW_MODE_CONFLICT" ELSE NONE
                  [] Mode(q) = "grouped" ->
                       IF q.bucket # NONE \/ Len(q.specs) # 1 THEN "GROUP_BY_CONFLICT"
                       ELSE IF Stateful(q.specs) THEN "INVALID_PARAMS" ELSE NONE
                  [] Mode(q) = "series" ->
                       IF ExpectedBuckets(w, q.bucket) > MaxBuckets THEN "RANGE_TOO_WIDE"
                       ELSE IF Stateful(q.specs) THEN "INVALID_PARAMS" ELSE NONE
                  [] OTHER -> NONE

(* The error a query meets before any aggregate, or NONE.                  *)
Refusal(q, at) ==
    LET w == ResolveWindow(q, at) IN IF w.err # NONE THEN w.err ELSE Validate(q, w)

ValidateBatchIDs(ids) ==
    CASE ids = <<>> -> "INVALID_PARAMS"
      [] Len(ids) > MaxBatchQueries -> "TOO_MANY_QUERIES"
      [] OTHER -> IF \E i \in DOMAIN ids : \/ ids[i] = NONE
                                           \/ \E j \in DOMAIN ids : j # i /\ ids[j] = ids[i]
                  THEN "INVALID_PARAMS" ELSE NONE

-----------------------------------------------------------------------------
(* decimateUniform.  int(float64(i) * step) is the integer part, or, where *)
(* the product is a whole number, possibly one less: the float may fall    *)
(* just short of it.                                                       *)

Strides(n, m, i) ==
    LET e == i * (n - 1) IN
    {e \div (m - 1)} \cup (IF i > 0 /\ e % (m - 1) = 0 THEN {e \div (m - 1) - 1} ELSE {})

(* The 0-based positions kept, the last one forced; every outcome.         *)
Kept(n, m) ==
    IF m = 1 THEN {<<n - 1>>}
    ELSE {f \in [1 .. m -> 0 .. n - 1] :
             f[m] = n - 1 /\ \A i \in 1 .. m - 1 : f[i] \in Strides(n, m, i - 1)}

DecimateUniform(points, m) ==
    IF Len(points) <= m \/ m < 1 THEN {points}
    ELSE {[i \in 1 .. m |-> points[f[i] + 1]] : f \in Kept(Len(points), m)}
=============================================================================
