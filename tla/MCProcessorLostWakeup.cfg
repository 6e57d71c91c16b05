CONSTANTS
    Root = Root
    D = D
    F = F
    G = G
    w1 = w1
    w2 = w2
    Objs = {Root, D}
    Workers <- MCWorkers
    Journals <- MkdirSetattrs
    MaxOps <- MCMaxOps
    OutstandingOps = 2
    WorkerInitMayFail = FALSE
    NoRec = NoRec
    NoWorker = NoWorker
    Absent = Absent
SPECIFICATION Spec
INVARIANT NoLostWakeup
