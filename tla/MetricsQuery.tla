---------------------------- MODULE MetricsQuery ----------------------------
(***************************************************************************)
(* The dashboard metrics engine (internal/app/dashboards, internal/repo/   *)
(* mongo/metrics, internal/api/handler/dashboards): one request, single,   *)
(* batch or catalog, over a measurements collection that grows meanwhile.  *)
(*                                                                         *)
(* A batch runs its items in goroutines of an errgroup with a limit; each  *)
(* item runs one aggregate per metric in an errgroup of its own.  Every    *)
(* aggregate sees the collection of its own instant and may fail or time   *)
(* out.  A value that is computed from samples (avg, sum, last, a group,   *)
(* a bucket) is abstracted to the set of samples it is computed from.      *)
(***************************************************************************)
EXTENDS MetricsRules, SequencesExt

CONSTANTS
    Samples,       \* documents [id, tenant, machine, path, ts, value, key]
    Initial,       \* the collections a request may find
    Numbers,       \* the values for which $isNumber holds
    Label,         \* group key -> what fmt.Sprintf("%v") makes of it
    BatchLimit,    \* g.SetLimit
    Askers,        \* tenants whose users ask
    Queries,       \* the queries asked, alone or in a batch
    BatchItems,    \* the batches: sequences of [id, q]
    Machines,      \* the machineId parameters of the catalog
    Clocks,        \* what time.Now may be
    MaxInserts     \* bound: samples stored while the request runs

(* The error codes a query may be answered with.                           *)
Codes == {"INVALID_PARAMS", "TOO_MANY_METRICS", "RAW_MODE_CONFLICT", "GROUP_BY_CONFLICT",
          "RANGE_TOO_WIDE", "TOO_MANY_GROUPS", "TOO_MANY_QUERIES", "QUERY_TIMEOUT", "INTERNAL_ERROR"}

ASSUME MetricsAssumption ==
    /\ IsFiniteSet(Samples) /\ Initial \subseteq SUBSET Samples
    /\ \A d \in Samples : d.ts \in Int
    /\ NONE \notin Codes /\ NONE \notin Int
    /\ Clocks \subseteq Int
    /\ \A q \in Queries : /\ Len(q.specs) \in Nat /\ DOMAIN q.specs = 1 .. Len(q.specs)
                          /\ {q.from, q.to} \subseteq Int \cup {NONE}
    /\ \A items \in BatchItems : \A i \in DOMAIN items : items[i].q \in Queries

VARIABLES
    docs,      \* the measurements collection
    start,     \* the collection when the request arrived
    up,        \* FALSE: MongoDB was down at start, the repository is Unavailable
    req,       \* the request: kind, tenant, items, now
    work,      \* item -> its goroutine
    groupErr,  \* the batch's errgroup has received an error: its context is cancelled
    gone,      \* the client went away: the request's context is cancelled
    answer     \* the response, NONE until it is written

metricsVars == <<docs, start, up, req, work, groupErr, gone, answer>>

Idle == [kind |-> "idle", tenant |-> NONE, items |-> <<>>, now |-> 0]

MetricsInit ==
    /\ docs \in Initial
    /\ start = {} /\ up \in BOOLEAN /\ req = Idle /\ work = <<>>
    /\ groupErr = FALSE /\ gone = FALSE /\ answer = NONE

-----------------------------------------------------------------------------
(* The repository.                                                         *)

(* $match of tenant, machine, aasPath and a window closed at both ends,    *)
(* with filter.valueEquals when it was given.                              *)
BaseMatch(C, t, q, path, from, to) ==
    {d \in C : /\ d.tenant = t /\ d.machine = q.machine /\ d.path = path
               /\ from <= d.ts /\ d.ts <= to}

ApplyValueFilter(S, filter) == IF filter = NONE THEN S ELSE {d \in S : d.value = filter}

IsNumberMatch(S, agg) == IF agg \in {"count", "raw"} THEN S ELSE {d \in S : d.value \in Numbers}

Matched(C, t, w, k) ==
    LET spec == w.q.specs[k] IN
    IsNumberMatch(ApplyValueFilter(BaseMatch(C, t, w.q, spec.path, w.from, w.to), w.q.filter),
                  spec.agg)

(* The newest ts of S, NONE when there is none: what dataAsOf may be.      *)
Latest(S) == IF S = {} THEN {NONE} ELSE {t \in {d.ts : d \in S} : \A d \in S : d.ts <= t}

Scalar(S) == {[over |-> S, asOf |-> t] : t \in Latest(S)}

(* $dateTrunc: the bucket a sample falls in starts at a multiple of its    *)
(* duration, wherever the window starts.                                   *)
DateTrunc(d, b) == (d.ts \div BucketDuration[b]) * BucketDuration[b]

Series(S, b) ==
    {[points |-> [ts \in {DateTrunc(d, b) : d \in S} |-> {d \in S : DateTrunc(d, b) = ts}],
      asOf |-> t] : t \in Latest(S)}

(* $sort by ts, $limit: documents of the same ts come in any order, and    *)
(* one that is left out has limit documents before it.                     *)
Fetched(S, limit) ==
    {f \in SeqOf(S, limit) :
        /\ \A i, j \in 1 .. Len(f) : i < j => f[i] # f[j] /\ f[i].ts <= f[j].ts
        /\ \A d \in S \ ToSet(f) : Len(f) = limit /\ \A i \in 1 .. Len(f) : f[i].ts <= d.ts}

(* Mistake: decimate even when the fetch stopped at the limit.              *)
DecimatedCapped(f, limit, m) == IF m > 0 /\ Len(f) > m THEN DecimateUniform(f, m) ELSE {f}

(* if maxPoints > 0 && len(points) > maxPoints && len(points) < limit.     *)
Decimated(f, limit, m) ==
    IF m > 0 /\ Len(f) > m /\ Len(f) < limit THEN DecimateUniform(f, m) ELSE {f}

Raw(S, limit, m) ==
    UNION {{[points |-> p, asOf |-> t] : p \in Decimated(f, limit, m), t \in Latest(ToSet(f))} :
              f \in Fetched(S, limit)}

(* $group, $sort by value, $limit: values are abstracted, so any groups    *)
(* may be the ones a limit cuts off.                                       *)
Grouped(S, limit) ==
    LET groups == {[label |-> Label[k], over |-> {d \in S : d.key = k}] : k \in {d.key : d \in S}}
    IN  UNION {{[groups |-> g, asOf |-> t] : t \in Latest(UNION {x.over : x \in g})} :
                 g \in {h \in SUBSET groups : Cardinality(h) = IF Cardinality(groups) < limit
                                                               THEN Cardinality(groups) ELSE limit}}

Aggregate(t, w, k) ==
    LET S == Matched(docs, t, w, k)
    IN  CASE w.mode = "scalar"  -> Scalar(S)
          [] w.mode = "series"  -> Series(S, w.q.bucket)
          [] w.mode = "raw"     -> Raw(S, MaxRawPoints + 1, w.q.maxPoints)
          [] w.mode = "grouped" -> Grouped(S, MaxGroups + 1)

Distinct(t, m) == {d.path : d \in {x \in docs : x.tenant = t /\ x.machine = m}}

-----------------------------------------------------------------------------
(* Assembling an item's result.                                            *)

(* maxDataAsOf: the newest of the aggregates', NONE when all are empty.    *)
MaxDataAsOf(sub) ==
    LET known == {sub[k].asOf : k \in DOMAIN sub} \ {NONE} IN
    IF known = {} THEN {NONE} ELSE {t \in known : \A u \in known : u <= t}

(* sort.Slice over the keys of a map.                                      *)
InOrder(T) == {s \in SeqOf(T, Cardinality(T)) :
                  ToSet(s) = T /\ \A i, j \in 1 .. Len(s) : i < j => s[i] < s[j]}

(* One point per bucket, in order; in it the metrics that have samples.    *)
MergeSeries(sub) ==
    LET times == UNION {DOMAIN sub[k].points : k \in DOMAIN sub}
        point(ts) == [ts |-> ts,
                      results |-> [k \in {j \in DOMAIN sub : ts \in DOMAIN sub[j].points}
                                         |-> sub[k].points[ts]]]
    IN  {[i \in 1 .. Len(order) |-> point(order[i])] : order \in InOrder(times)}

Ok(w, data, asOf) == [err |-> NONE, mode |-> w.mode, data |-> data, asOf |-> asOf]
Err(code) == [err |-> code, mode |-> NONE, data |-> NONE, asOf |-> NONE]

(* NONE is no response.                                                    *)
ASSUME ErrAssumption == \A code \in Codes : Err(code) # NONE

QueryScalar(w) == {Ok(w, [k \in DOMAIN w.sub |-> w.sub[k].over], t) : t \in MaxDataAsOf(w.sub)}

QuerySeries(w) == {Ok(w, merged, t) : merged \in MergeSeries(w.sub), t \in MaxDataAsOf(w.sub)}

QueryRaw(w) ==
    IF Len(w.sub[1].points) > MaxRawPoints THEN {Err("RANGE_TOO_WIDE")}
    ELSE {Ok(w, w.sub[1].points, w.sub[1].asOf)}

QueryGrouped(w) ==
    IF Cardinality(w.sub[1].groups) > MaxGroups THEN {Err("TOO_MANY_GROUPS")}
    ELSE {Ok(w, w.sub[1].groups, w.sub[1].asOf)}

(* What an item may come to.                                               *)
Results(w) ==
    IF w.err # NONE THEN {Err(w.err)}
    ELSE CASE w.mode = "scalar"  -> QueryScalar(w)
           [] w.mode = "series"  -> QuerySeries(w)
           [] w.mode = "raw"     -> QueryRaw(w)
           [] w.mode = "grouped" -> QueryGrouped(w)

-----------------------------------------------------------------------------
(* Requests.  now is read once, in the handler, for all the items.         *)

Queued(q) == [pc |-> "queued", q |-> q, mode |-> NONE, from |-> 0, to |-> 0, sub |-> <<>>,
              err |-> NONE, hit |-> FALSE, result |-> NONE]

Arrive(kind, t, items, at) ==
    /\ req = Idle
    /\ req' = [kind |-> kind, tenant |-> t, items |-> items, now |-> at]
    /\ start' = docs
    /\ UNCHANGED <<docs, up, groupErr, gone>>

QueryMetrics(t, q, at) ==
    /\ Arrive("query", t, <<[id |-> NONE, q |-> q]>>, at)
    /\ work' = <<Queued(q)>>
    /\ UNCHANGED answer

BatchQueryMetrics(t, items, at) ==
    LET refused == ValidateBatchIDs([i \in DOMAIN items |-> items[i].id]) IN
    /\ Arrive("batch", t, items, at)
    /\ work' = IF refused = NONE THEN [i \in DOMAIN items |-> Queued(items[i].q)] ELSE <<>>
    /\ answer' = IF refused = NONE THEN NONE ELSE Err(refused)

(* What the catalog may answer: Distinct, too, times out or fails.         *)
Catalog(t, m) ==
    IF m = NONE THEN {Err("INVALID_PARAMS")}
    ELSE IF ~up THEN {Err("INTERNAL_ERROR")}
    ELSE {Err("QUERY_TIMEOUT"), Err("INTERNAL_ERROR"),
          [err |-> NONE, mode |-> m, data |-> Distinct(t, m), asOf |-> NONE]}

CatalogMetrics(t, m) ==
    /\ Arrive("catalog", t, <<>>, 0)
    /\ answer' \in Catalog(t, m)
    /\ UNCHANGED work

Running == {i \in DOMAIN work : work[i].pc = "running"}

(* g.Go blocks until a slot is free, so the items start in order.          *)
Query(i) ==
    LET q == work[i].q
        w == ResolveWindow(q, req.now)
    IN
    /\ work[i].pc = "queued" /\ \A j \in 1 .. i - 1 : work[j].pc # "queued"
    /\ Cardinality(Running) < BatchLimit
    /\ work' = [work EXCEPT ![i] =
          IF Refusal(q, req.now) # NONE
          THEN [@ EXCEPT !.pc = "running", !.err = Refusal(q, req.now)]
          ELSE [@ EXCEPT !.pc = "running", !.mode = Mode(q), !.from = w.from, !.to = w.to,
                         !.sub = [k \in DOMAIN q.specs |-> NONE]]]
    /\ UNCHANGED <<docs, start, up, req, groupErr, gone, answer>>

Open(i, k) == work[i].pc = "running" /\ k \in DOMAIN work[i].sub /\ work[i].sub[k] = NONE

SubQuery(i, k) ==
    /\ Open(i, k) /\ up
    /\ \E r \in Aggregate(req.tenant, work[i], k) : work' = [work EXCEPT ![i].sub[k] = r]
    /\ UNCHANGED <<docs, start, up, req, groupErr, gone, answer>>

Cancelled(i) == gone \/ groupErr \/ work[i].err # NONE

FirstError(w, code) == IF w.err = NONE THEN code ELSE w.err

(* The aggregate times out (maxTime) or MongoDB fails: wrapTimeoutErr.     *)
SubQueryFails(i, k, code) ==
    /\ Open(i, k) /\ (~up => code = "INTERNAL_ERROR")
    /\ work' = [work EXCEPT ![i].sub[k] = BAD, ![i].err = FirstError(work[i], code), ![i].hit = TRUE]
    /\ UNCHANGED <<docs, start, up, req, groupErr, gone, answer>>

(* Its context was cancelled: context.Canceled, which no rule translates.  *)
SubQueryCancelled(i, k) ==
    /\ Open(i, k) /\ Cancelled(i)
    /\ work' = [work EXCEPT ![i].sub[k] = BAD, ![i].err = FirstError(work[i], "INTERNAL_ERROR")]
    /\ UNCHANGED <<docs, start, up, req, groupErr, gone, answer>>

(* Mistake: the goroutine of an item returns the item's error.              *)
PropagatedItsError(r) == r.err # NONE

(* return nil: the failure stays in the item.                              *)
Propagated(r) == FALSE

Finish(i) ==
    /\ work[i].pc = "running" /\ \A k \in DOMAIN work[i].sub : work[i].sub[k] # NONE
    /\ \E r \in Results(work[i]) :
          /\ work' = [work EXCEPT ![i].pc = "done", ![i].result = r]
          /\ groupErr' = (groupErr \/ Propagated(r))
    /\ UNCHANGED <<docs, start, up, req, gone, answer>>

BatchResultsToResponse ==
    [i \in DOMAIN work |-> [id |-> req.items[i].id, body |-> work[i].result]]

Reply ==
    /\ req # Idle /\ answer = NONE /\ \A i \in DOMAIN work : work[i].pc = "done"
    /\ answer' = IF req.kind = "query" THEN work[1].result
                 ELSE [err |-> NONE, mode |-> NONE, data |-> BatchResultsToResponse, asOf |-> NONE]
    /\ UNCHANGED <<docs, start, up, req, work, groupErr, gone>>

ClientGone ==
    /\ req # Idle /\ answer = NONE /\ ~gone /\ gone' = TRUE
    /\ UNCHANGED <<docs, start, up, req, work, groupErr, answer>>

(* The ingest path (module Ingest) stores a sample; its ts is the          *)
(* device's, so it may be older than samples already there.                *)
Insert(d) ==
    /\ req # Idle /\ answer = NONE
    /\ d \in Samples \ docs /\ Cardinality(docs \ start) < MaxInserts
    /\ docs' = docs \cup {d}
    /\ UNCHANGED <<start, up, req, work, groupErr, gone, answer>>

Step ==
    \/ \E i \in DOMAIN work : Query(i) \/ Finish(i)
    \/ \E i \in DOMAIN work, k \in 1 .. MaxSpecs :
          \/ SubQuery(i, k)
          \/ SubQueryCancelled(i, k)
          \/ \E code \in {"QUERY_TIMEOUT", "INTERNAL_ERROR"} : SubQueryFails(i, k, code)
    \/ Reply
    \/ ClientGone
    \/ \E d \in Samples : Insert(d)

MetricsNext ==
    \/ \E t \in Askers, at \in Clocks :
          \/ \E q \in Queries : QueryMetrics(t, q, at)
          \/ \E items \in BatchItems : BatchQueryMetrics(t, items, at)
    \/ \E t \in Askers, m \in Machines \cup {NONE} : CatalogMetrics(t, m)
    \/ Step
    \/ answer # NONE /\ UNCHANGED metricsVars   \* the request is over

MetricsSpec == MetricsInit /\ [][MetricsNext]_metricsVars

-----------------------------------------------------------------------------
(* Properties.                                                             *)

Served == {i \in DOMAIN work : work[i].pc = "done" /\ work[i].result.err = NONE}

(* The samples metric k of item i must and may be about: the ones stored   *)
(* when the request arrived, the ones stored by now.                       *)
Must(i, k) == Matched(start, req.tenant, work[i], k)
May(i, k) == Matched(docs, req.tenant, work[i], k)

Covers(i, k, S) == Must(i, k) \subseteq S /\ S \subseteq May(i, k)

PointsFaithful(i, points) ==
    LET shown == {points[j] : j \in DOMAIN points}
        m == work[i].q.maxPoints
    IN  /\ Len(points) <= MaxRawPoints /\ Cardinality(shown) = Len(points)
        /\ \A j, l \in DOMAIN points : j < l => points[j].ts <= points[l].ts
        /\ shown \subseteq May(i, 1)
        /\ m = 0 \/ Cardinality(May(i, 1)) <= m => Must(i, 1) \subseteq shown
        /\ m > 0 => /\ Len(points) <= m
                    /\ \A d \in Must(i, 1) : /\ \E p \in shown : p.ts >= d.ts
                                             /\ m > 1 => \E p \in shown : p.ts <= d.ts

SeriesFaithful(i, series) ==
    /\ Len(series) <= MaxBuckets + 1
    /\ \A j, l \in DOMAIN series : j < l => series[j].ts < series[l].ts
    /\ \A j \in DOMAIN series : \A k \in DOMAIN series[j].results : series[j].results[k] # {}
    /\ \A k \in DOMAIN work[i].sub :
          Covers(i, k, UNION {series[j].results[k] :
                                 j \in {l \in DOMAIN series : k \in DOMAIN series[l].results}})

GroupsFaithful(i, groups) ==
    /\ Cardinality(groups) <= MaxGroups
    /\ \A g, h \in groups : g # h => g.over \cap h.over = {}
    /\ Covers(i, 1, UNION {g.over : g \in groups})

(* What a query answers covers every sample of its window that was stored  *)
(* when it arrived and none of another window, tenant or machine: an       *)
(* aggregate, a series of at most one bucket more than the guardrail, all  *)
(* the groups, all the points, or a decimation that repeats no point and   *)
(* reaches both ends; and dataAsOf is no older than any of them.           *)
AnswersFaithful ==
    \A i \in Served :
        LET r == work[i].result IN
        /\ r.mode = "scalar"  => \A k \in DOMAIN r.data : Covers(i, k, r.data[k])
        /\ r.mode = "series"  => SeriesFaithful(i, r.data)
        /\ r.mode = "raw"     => PointsFaithful(i, r.data)
        /\ r.mode = "grouped" => GroupsFaithful(i, r.data)
        /\ \A k \in DOMAIN work[i].sub : \A d \in Must(i, k) : r.asOf # NONE /\ r.asOf >= d.ts

(* While the client is there, an item of a batch fails only by its own     *)
(* query or its own aggregates, whatever happens to the others and in      *)
(* whatever order they end, never hides a failure of its own, and is       *)
(* found under its own id.                                                 *)
ItemsIndependent ==
    /\ ~gone => \A i \in DOMAIN work : work[i].pc = "done" =>
          LET e == work[i].result.err IN
          /\ work[i].hit => e \in {"QUERY_TIMEOUT", "INTERNAL_ERROR"}
          /\ e # NONE => \/ work[i].hit
                         \/ e = Refusal(work[i].q, req.now)
                         \/ e = "RANGE_TOO_WIDE" /\ Cardinality(May(i, 1)) > MaxRawPoints
                         \/ e = "TOO_MANY_GROUPS" /\ Cardinality({d.key : d \in May(i, 1)}) > MaxGroups
    /\ answer # NONE /\ req.kind = "batch" /\ answer.err = NONE =>
          /\ DOMAIN answer.data = DOMAIN req.items
          /\ \A i \in DOMAIN req.items : /\ answer.data[i].id = req.items[i].id
                                         /\ answer.data[i].body = work[i].result
=============================================================================
