CONSTANTS
    Root = Root
    D = D
    F = F
    G = G
    w1 = w1
    w2 = w2
    Objs = {Root, D, F}
    Workers <- MCWorkers
    Journals <- MCJournals
    MaxOps <- MCMaxOps
    OutstandingOps <- MCMaxOps
    WorkerInitMayFail = FALSE
    NoRec = NoRec
    NoWorker = NoWorker
    Absent = Absent
SPECIFICATION Spec
INVARIANTS TypeOK RefCountExact DeletingChildrenExact CreditConservation CausalOrder
SYMMETRY WorkerSymmetry
