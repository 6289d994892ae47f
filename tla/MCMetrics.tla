----------------------------- MODULE MCMetrics -----------------------------
(* Instances of MetricsQuery for TLC.                                      *)
EXTENDS MetricsQuery

CONSTANTS t1, t2, m1, m2, weight, temp, a, b

MCBucketDuration == [two |-> 2]
MCRangeDuration == [long |-> 4, short |-> 1]

Sample(id, t, m, p, ts, v, k) ==
    [id |-> id, tenant |-> t, machine |-> m, path |-> p, ts |-> ts, value |-> v, key |-> k]

(* Two samples of one instant, one that is not a number, two keys that     *)
(* print alike, one of another metric, one of another tenant, one of       *)
(* another machine.                                                        *)
MCSamples ==
    {Sample(1, t1, m1, weight, 1, "10", "1"), Sample(2, t1, m1, weight, 3, "20", "one"),
     Sample(3, t1, m1, weight, 3, "10", "1"), Sample(4, t1, m1, weight, 4, "text", "2"),
     Sample(5, t1, m1, temp, 2, "10", "1"), Sample(6, t2, m1, weight, 2, "10", "1"),
     Sample(7, t1, m2, weight, 2, "10", "1"), Sample(8, t1, m1, weight, 5, "20", "one")}
MCInitial == {{d \in MCSamples : d.id \notin X} : X \in {{2}, {2, 4, 5}, {1, 3, 4, 7}}}
MCNumbers == {"10", "20"}
MCLabel == [k \in {"1", "one", "2"} |-> IF k = "one" THEN "1" ELSE k]

Spec1(p, agg) == [path |-> p, agg |-> agg]
Q(specs) == [machine |-> m1, range |-> "long", from |-> NONE, to |-> NONE, bucket |-> NONE,
             specs |-> specs, groupBy |-> NONE, filter |-> NONE, maxPoints |-> 0]

(* Queries that every mode serves, among them at and past each guardrail.  *)
Good ==
    {Q(<<Spec1(weight, "avg"), Spec1(temp, "last")>>),
     [Q(<<Spec1(weight, "count"), Spec1(temp, "max")>>) EXCEPT
         !.bucket = "two", !.range = NONE, !.from = 1, !.to = 4],
     Q(<<Spec1(weight, "raw")>>),
     [Q(<<Spec1(weight, "raw")>>) EXCEPT !.maxPoints = 1],
     [Q(<<Spec1(weight, "raw")>>) EXCEPT !.maxPoints = 2],
     [Q(<<Spec1(weight, "raw")>>) EXCEPT !.filter = "10"],
     [Q(<<Spec1(weight, "count")>>) EXCEPT !.groupBy = "key"]}

(* One query for each rule of ResolveWindow and Validate.                  *)
Refusable ==
    LET avg == Q(<<Spec1(weight, "avg")>>) IN
    {[avg EXCEPT !.to = 4], [avg EXCEPT !.range = "no"], [avg EXCEPT !.range = NONE],
     [avg EXCEPT !.range = NONE, !.from = 2],
     [avg EXCEPT !.range = NONE, !.from = 2, !.to = 2],
     [avg EXCEPT !.machine = NONE], Q(<<>>),
     Q(<<Spec1(weight, "avg"), Spec1(temp, "avg"), Spec1(temp, "max")>>),
     Q(<<Spec1(NONE, "avg")>>), Q(<<Spec1(weight, "median")>>),
     [avg EXCEPT !.bucket = BAD], [avg EXCEPT !.groupBy = BAD], [avg EXCEPT !.filter = BAD],
     [avg EXCEPT !.maxPoints = MaxRawPoints + 1],
     Q(<<Spec1(weight, "avg"), Spec1(weight, "raw")>>),
     [Q(<<Spec1(weight, "raw")>>) EXCEPT !.bucket = "two"],
     [Q(<<Spec1(weight, "raw")>>) EXCEPT !.groupBy = "key"],
     [avg EXCEPT !.groupBy = "key", !.bucket = "two"],
     [Q(<<Spec1(weight, "delta")>>) EXCEPT !.groupBy = "key"],
     [Q(<<Spec1(weight, "last")>>) EXCEPT !.bucket = "two"],
     [avg EXCEPT !.bucket = "two"]}

Item(id, q) == [id |-> id, q |-> q]

(* Batches of two queries that are served, of a refused and a served one,  *)
(* of three, and batches that ValidateBatchIDs refuses.                    *)
MCBatches ==
    {<<Item(a, x), Item(b, y)>> : x \in Good, y \in Good} \cup
    {<<Item(a, [y EXCEPT !.machine = NONE]), Item(b, y)>> : y \in Good} \cup
    {<<>>, <<Item(NONE, Q(<<>>))>>, <<Item(a, Q(<<>>)), Item(a, Q(<<>>))>>,
     [i \in 1 .. 4 |-> Item(<<a, b, t1, t2>>[i], Q(<<>>))],
     <<Item(a, Q(<<Spec1(weight, "sum")>>)), Item(b, Q(<<Spec1(weight, "raw")>>)),
       Item(t1, Q(<<Spec1(temp, "delta")>>))>>}

MCQueries == Good \cup Refusable \cup {x.q : x \in UNION {{b1[i] : i \in DOMAIN b1} : b1 \in MCBatches}}
MCClocks == {5}
============================================================================
