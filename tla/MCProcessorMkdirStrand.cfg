CONSTANTS
    Root = Root
    D = D
    F = F
    G = G
    w1 = w1
    w2 = w2
    Objs = {Root, D}
    Workers <- MCWorkers
    Journals <- MkdirSetattr
    MaxOps <- MkdirSetattrMaxOps
    OutstandingOps = 3
    WorkerInitMayFail = FALSE
    NoRec = NoRec
    NoWorker = NoWorker
    Absent = Absent
SPECIFICATION Spec
INVARIANT ExitDrained
SYMMETRY WorkerSymmetry
