CONSTANTS
    NONE = NONE
    BAD = BAD
    t1 = t1
    t2 = t2
    m1 = m1
    m2 = m2
    weight = weight
    temp = temp
    a = a
    b = b
    BucketDuration <- MCBucketDuration
    RangeDuration <- MCRangeDuration
    MaxSpecs = 2
    MaxBuckets = 2
    MaxRawPoints = 3
    MaxGroups = 2
    MaxBatchQueries = 3
    Samples <- MCSamples
    Initial <- MCInitial
    Numbers <- MCNumbers
    Label <- MCLabel
    BatchLimit = 2
    Askers = {t1}
    Queries <- MCQueries
    BatchItems <- MCBatches
    Machines = {m1, m2}
    Clocks <- MCClocks
    MaxInserts = 1
SPECIFICATION MetricsSpec
INVARIANTS
    AnswersFaithful
    ItemsIndependent
