CONSTANTS
    Root = Root
    D = D
    F = F
    G = G
    w1 = w1
    w2 = w2
    Objs = {Root, D, F, G}
    Workers <- MCWorkers
    Journals <- FanoutJournals
    MaxOps <- FanoutMaxOps
    OutstandingOps = 5
    WorkerInitMayFail = TRUE
    NoRec = NoRec
    NoWorker = NoWorker
    Absent = Absent
SPECIFICATION Spec
INVARIANTS NoLostWakeup ExitDrained
PROPERTY WorkersExit
