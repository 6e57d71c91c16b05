CONSTANTS
    t1 = t1
    t2 = t2
    k1 = k1
    k2 = k2
    v1 = v1
    v2 = v2
    e1 = e1
    e2 = e2
    h1 = h1
    TableOwner = TableOwner
    OtherTable = OtherTable
    None = None
    Threads <- MCThreads
    Keys <- MCKeys
    Values <- MCValues
    Buckets <- MCBuckets
    BucketOf <- MCBucketOf
    Chunks <- MCChunks
    HeapPtrs <- MCHeapPtrs
    MallocMayFail = TRUE
SPECIFICATION Spec
INVARIANTS TypeOK UniqueKeys
INVARIANT PoolConsistent
PROPERTIES Refinement PoolRefinement
