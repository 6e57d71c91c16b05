CONSTANTS
    Root = Root
    D = D
    F = F
    G = G
    w1 = w1
    w2 = w2
    Objs = {Root, F}
    Workers <- MCWorkers
    Journals <- RenameJournal
    MaxOps <- MCMaxOps
    OutstandingOps = 4
    WorkerInitMayFail = FALSE
    NoRec = NoRec
    NoWorker = NoWorker
    Absent = Absent
SPECIFICATION Spec
INVARIANT PayloadReclaimed
