CONSTANTS
    Root = Root
    D = D
    F = F
    G = G
    w1 = w1
    w2 = w2
    Objs = {Root, D, F}
    Workers <- MCWorkers
    Journals <- RmdirCancel
    MaxOps <- FanoutMaxOps
    OutstandingOps = 5
    WorkerInitMayFail = FALSE
    NoRec = NoRec
    NoWorker = NoWorker
    Absent = Absent
SPECIFICATION Spec
INVARIANT FinalStateMatches
