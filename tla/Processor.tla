----------------------------- MODULE Processor -----------------------------
(***************************************************************************)
(* The operation pipeline of src/common/processor.c, driven by the stage   *)
(* table of the standard processor plugin (src/processor/standard/         *)
(* standard.c): stage 0 (STAGE_DB_APPLY) validates with entry_valid_op,    *)
(* applies the change to the database and finishes with entry_post_op;     *)
(* stage 1 (STAGE_RECLAIM_LOG) has no validator, releases the journal      *)
(* entry and finishes with entry_stage_cmplt.                              *)
(*                                                                         *)
(* One producer (the log reader thread of src/hunter/hunter.c) pushes the  *)
(* entries of a journal in order; a set of worker threads run              *)
(* entry_proc_worker.  The engine lock pl->lock, the condition variable    *)
(* pl->cond and the credit semaphore are modelled explicitly; every step   *)
(* that runs under one stage mutex is one atomic action.                   *)
(***************************************************************************)
EXTENDS Naturals, Sequences, FiniteSets, SequencesExt, Xlist

CONSTANTS
    Workers,            \* the worker threads (pl->workercnt of them)
    Objs,               \* inode numbers that journal entries name
    Journals,           \* the journals the reader may deliver, each a sequence of entries
    MaxOps,             \* length of the longest journal: bounds the operations
    OutstandingOps,     \* pl->outstanding_ops: initial value of the credit semaphore
    WorkerInitMayFail,  \* whether pl->worker_init (database_connect) may fail
    NoRec,              \* model value: rbthash_get found no op_obj_t
    NoWorker,           \* model value: nobody holds pl->lock
    Absent              \* model value: the database has no row for an inode

Ops == 1..MaxOps            \* an operation is named by its position in the journal

CreateKinds == {"create", "mkdir"}
DeleteKinds == {"unlink", "rmdir"}
Kinds == CreateKinds \cup DeleteKinds \cup {"rename", "setattr", "init"}   \* op_type_t
Entry == [op : Kinds, id : Objs, pid : Objs]                              \* journal_entry_t

ASSUME /\ OutstandingOps \in Nat \ {0}
       /\ MaxOps \in Nat
       /\ Journals \subseteq Seq(Entry)
       /\ \A j \in Journals : Len(j) <= MaxOps /\ \A i \in 1..Len(j) : j[i].id # j[i].pid \/ j[i].op = "init"

Flags == {"wait_parent_add", "wait_chld_del", "wait_obj_proc", "woke_up",
          "can_skip", "invalid", "no_release"}        \* bit fields of entry_proc_op_t
WaitFlags == {"wait_parent_add", "wait_chld_del", "wait_obj_proc"}

(* The stage table of standard.c lines 165-172. *)
StageCount == 2
Stages == 0..(StageCount - 1)
Top == StageCount - 1
HasValidator(s) == s = 0
PostFn(s) == IF s = 0 THEN "entry_post_op" ELSE "entry_stage_cmplt"

VARIABLES
    journal,        \* the entries the reader thread delivers
    pushed,         \* how many of them queue_log_entry has pushed
    prod,           \* reader thread: "push", "signal" (after entry_push), "done"
    credit,         \* value of the semaphore pl->credit
    opStage,        \* op->stage
    opLoc,          \* "new", "queued" (on stage->entries), "held" (by a worker), "released"
    flags,          \* the flag bits of each op
    entries,        \* stage->entries: the in-flight list of each stage
    tbl,            \* stage->obj_tbl: inode -> op_obj_t, or NoRec
    wk,             \* per worker: pc, op taken, stage being scanned, local wait, wakeup
    plLock,         \* holder of pl->lock while it scans the stages
    waitingWorkers, \* pl->waiting_workers
    exiting,        \* pl->exiting
    db,             \* database row of each inode: the op that wrote it, or Absent
    dbParent,       \* the op that last updated each inode's attributes as a parent
    lastApplied,    \* history: the last op applied to each inode's row (0: none)
    reclaimed       \* history: ops whose journal entry was released to the filesystem

vars == <<journal, pushed, prod, credit, opStage, opLoc, flags, entries, tbl,
          wk, plLock, waitingWorkers, exiting, db, dbParent, lastApplied, reclaimed>>
dbVars == <<db, dbParent, lastApplied, reclaimed>>

Kind(o) == journal[o].op
Id(o)   == journal[o].id
Pid(o)  == journal[o].pid

-----------------------------------------------------------------------------
(* The object tracking records (op_obj_t). *)

NewRec == [ref |-> 0, being_proceed |-> FALSE, being_created |-> FALSE,
           being_removed |-> FALSE, deleting_children |-> 0, pending |-> <<>>]

\* rbthash_get, or mem_get0 + INIT_XLIST_HEAD + rbthash_insert when absent
GetOrNew(t, x) == IF t[x] = NoRec THEN NewRec ELSE t[x]

\* a record whose count drops to zero is removed from the table and freed
Unref(r) == IF r.ref = 1 THEN NoRec ELSE [r EXCEPT !.ref = @ - 1]

\* mutant: the parent of a deletion is not referenced
EntryPushTblNoParentRef(t, o) ==
    LET t1 == [t EXCEPT ![Id(o)] = [GetOrNew(t, Id(o)) EXCEPT
                  !.ref = @ + 1,
                  !.being_created = @ \/ Kind(o) \in CreateKinds,
                  !.being_removed = @ \/ Kind(o) \in DeleteKinds]]
    IN IF Kind(o) \in DeleteKinds
       THEN [t1 EXCEPT ![Pid(o)] = [GetOrNew(t1, Pid(o)) EXCEPT !.deleting_children = @ + 1]]
       ELSE t1

\* mutant: a deletion does not count itself as a deleting child
EntryPushTblNoChildCount(t, o) ==
    LET t1 == [t EXCEPT ![Id(o)] = [GetOrNew(t, Id(o)) EXCEPT
                  !.ref = @ + 1,
                  !.being_created = @ \/ Kind(o) \in CreateKinds,
                  !.being_removed = @ \/ Kind(o) \in DeleteKinds]]
    IN IF Kind(o) \in DeleteKinds
       THEN [t1 EXCEPT ![Pid(o)] = [GetOrNew(t1, Pid(o)) EXCEPT !.ref = @ + 1]]
       ELSE t1

\* entry_push: reference the object's record and mark it by the op kind; a
\* deletion also references its parent's record and counts a deleting child.
EntryPushTbl(t, o) ==
    LET t1 == [t EXCEPT ![Id(o)] = [GetOrNew(t, Id(o)) EXCEPT
                  !.ref = @ + 1,
                  !.being_created = @ \/ Kind(o) \in CreateKinds,
                  !.being_removed = @ \/ Kind(o) \in DeleteKinds]]
    IN IF Kind(o) \in DeleteKinds
       THEN [t1 EXCEPT ![Pid(o)] = [GetOrNew(t1, Pid(o)) EXCEPT
                  !.deleting_children = @ + 1, !.ref = @ + 1]]
       ELSE t1

-----------------------------------------------------------------------------
(* Validation (entry_valid_op, entry_proc_pending).  A scan state st is a  *)
(* record [fl |-> flags, t |-> table of the stage being scanned].          *)

AddFlag(st, o, f) == [st EXCEPT !.fl[o] = @ \cup {f}]

\* entry_valid_op's busy test without the being_proceed term
BusyNoProceed(r) == r.being_created \/ ~XlistEmpty(r.pending)

\* entry_valid_op's busy test: the object is being created, has ops
\* waiting, or one of its ops is being processed
Busy(r) == r.being_created \/ ~XlistEmpty(r.pending) \/ r.being_proceed

\* the merge rule of entry_proc_pending: the flags after o joins pend
Merge(fl, pend, o) ==
    IF XlistEmpty(pend) THEN fl
    ELSE CASE Kind(o) \in DeleteKinds ->
                LET P == Range(pend)
                    cancel == \E q \in P : "wait_parent_add" \in fl[q]
                IN [q \in Ops |->
                      IF \/ q \in P /\ fl[q] \cap {"wait_parent_add", "wait_obj_proc"} # {}
                         \/ q = o /\ cancel
                      THEN fl[q] \cup {"can_skip"} ELSE fl[q]]
           [] Kind(o) \in CreateKinds -> fl
           [] OTHER -> IF "wait_obj_proc" \in fl[XlistGetTail(pend)]
                       THEN [fl EXCEPT ![XlistGetTail(pend)] = @ \cup {"can_skip"}]
                       ELSE fl

\* entry_proc_pending: merge, then queue o on its object's pending list
EntryProcPending(st, o) ==
    [fl |-> Merge(st.fl, st.t[Id(o)].pending, o),
     t  |-> [st.t EXCEPT ![Id(o)].pending = XlistAddTail(@, o)]]

\* entry_valid_op: the new scan state and whether o may be taken now
EntryValidOp(st, o) ==
    LET obj == st.t[Id(o)]
        par == st.t[Pid(o)]
        st1 == CASE Kind(o) \in CreateKinds ->
                      IF par # NoRec /\ Pid(o) # Id(o) /\ par.being_created
                      THEN [fl |-> [st.fl EXCEPT ![o] = @ \cup {"wait_parent_add"}],
                            t  |-> [st.t EXCEPT ![Pid(o)].pending = XlistAddTail(@, o)]]
                      ELSE st
                 [] Kind(o) \in {"unlink", "setattr", "init"} ->
                      LET st0 == IF Kind(o) = "init" THEN AddFlag(st, o, "no_release") ELSE st
                      IN IF Busy(obj) THEN EntryProcPending(AddFlag(st0, o, "wait_obj_proc"), o)
                                      ELSE st0
                 [] Kind(o) = "rmdir" ->
                      IF Busy(obj) THEN EntryProcPending(AddFlag(st, o, "wait_obj_proc"), o)
                      ELSE IF obj.deleting_children > 0
                           THEN EntryProcPending(AddFlag(st, o, "wait_chld_del"), o)
                           ELSE st
                 [] OTHER -> AddFlag(st, o, "invalid")
        ok == st1.fl[o] \cap (WaitFlags \cup {"can_skip"}) = {}
    IN [fl |-> st1.fl,
        t  |-> IF ok THEN [st1.t EXCEPT ![Id(o)].being_proceed = TRUE] ELSE st1.t,
        ok |-> ok]

\* the loop of entry_next_op over one stage's in-flight list: the scan state
\* after it and the op it takes (0 for none)
RECURSIVE ScanEntries(_, _, _)
ScanEntries(s, st, es) ==
    IF es = <<>> THEN [fl |-> st.fl, t |-> st.t, pick |-> 0]
    ELSE LET o == Head(es) IN
         IF ~HasValidator(s) \/ "can_skip" \in st.fl[o]
         THEN [fl |-> st.fl, t |-> st.t, pick |-> o]
         ELSE IF st.fl[o] \cap WaitFlags # {} THEN ScanEntries(s, st, Tail(es))
         ELSE IF "woke_up" \in st.fl[o] THEN [fl |-> st.fl, t |-> st.t, pick |-> o]
         ELSE LET v == EntryValidOp(st, o) IN
              IF v.ok THEN [fl |-> v.fl, t |-> v.t, pick |-> o]
              ELSE ScanEntries(s, [fl |-> v.fl, t |-> v.t], Tail(es))

-----------------------------------------------------------------------------
(* Completion of a stage (entry_post_op, entry_stage_cmplt).  A completion *)
(* state cs is a record [fl, t, wakeup] for the table of the op's stage.   *)

\* wake the first op on x's pending list that carries flag f
WakeOne(cs, x, f) ==
    LET pend == cs.t[x].pending
        i == SelectInSeq(pend, LAMBDA q : f \in cs.fl[q])
    IN IF i = 0 THEN cs
       ELSE [fl |-> [cs.fl EXCEPT ![pend[i]] = (@ \ {f}) \cup {"woke_up"}],
             t  |-> [cs.t EXCEPT ![x].pending = XlistDel(@, pend[i])],
             wakeup |-> 1]

\* wake every op on x's pending list that carries flag f
WakeAll(cs, x, f) ==
    LET W == {q \in Range(cs.t[x].pending) : f \in cs.fl[q]}
    IN [fl |-> [q \in Ops |-> IF q \in W THEN (cs.fl[q] \ {f}) \cup {"woke_up"} ELSE cs.fl[q]],
        t  |-> [cs.t EXCEPT ![x].pending = SelectSeq(@, LAMBDA q : q \notin W)],
        wakeup |-> Cardinality(W)]

\* entry_post_op up to the release of its stage lock
PostOpTbl(o, t) ==
    LET x == Id(o)
        p == Pid(o)
        cs0 == [fl |-> [flags EXCEPT ![o] = @ \ {"can_skip"}], t |-> t, wakeup |-> 0]
        cs1 == CASE Kind(o) = "mkdir" ->
                      WakeAll([cs0 EXCEPT !.t[x].being_created = FALSE], x, "wait_parent_add")
                 [] Kind(o) \in DeleteKinds /\ t[p] = NoRec ->
                      [cs0 EXCEPT !.t[x].being_removed = FALSE]
                 [] Kind(o) \in DeleteKinds ->
                      LET c == [cs0 EXCEPT !.t[x].being_removed = FALSE,
                                           !.t[p].deleting_children = @ - 1,
                                           !.t[p].ref = @ - 1]
                          cw == IF c.t[p].deleting_children = 0 /\ c.t[p].being_removed
                                THEN WakeOne(c, p, "wait_chld_del") ELSE c
                      IN IF cw.t[p].ref = 0 THEN [cw EXCEPT !.t[p] = NoRec] ELSE cw
                 [] Kind(o) \in {"create", "setattr", "init"} ->
                      WakeOne([cs0 EXCEPT !.t[x].being_created =
                                 IF Kind(o) = "create" THEN FALSE ELSE @], x, "wait_obj_proc")
                 [] OTHER -> cs0
    IN [cs1 EXCEPT !.t[x] = Unref([@ EXCEPT !.being_proceed = FALSE])]

\* entry_stage_cmplt up to the release of its stage lock
StageCmpltTbl(o, t) ==
    LET t1 == [t EXCEPT ![Id(o)] = Unref(@)]
    IN IF Kind(o) \in DeleteKinds /\ t1[Pid(o)] # NoRec
       THEN [t1 EXCEPT ![Pid(o)] = Unref(@)] ELSE t1

\* mutant: sem_post on every stage advance instead of only at release
AdvancePostEarly(o, ts) ==
    LET s == opStage[o] IN
    /\ opStage' = [opStage EXCEPT ![o] = s + 1]
    /\ credit' = credit + 1
    /\ \/ /\ "invalid" \in flags[o] \/ s + 1 = StageCount
          /\ opLoc' = [opLoc EXCEPT ![o] = "released"]
          /\ tbl' = [tbl EXCEPT ![s] = ts]
          /\ UNCHANGED entries
       \/ /\ "invalid" \notin flags[o] /\ s + 1 < StageCount
          /\ opLoc' = [opLoc EXCEPT ![o] = "queued"]
          /\ tbl' = [tbl EXCEPT ![s] = ts, ![s + 1] = EntryPushTbl(tbl[s + 1], o)]
          /\ entries' = [entries EXCEPT ![s + 1] = XlistAddTail(@, o)]

\* _entry_stage_cmplt: move o to the next stage, or, after the last stage or
\* when o is invalid, post the credit and release o.  ts is the table of
\* o's stage once its completion has run.
Advance(o, ts) ==
    LET s == opStage[o] IN
    /\ opStage' = [opStage EXCEPT ![o] = s + 1]
    /\ \/ /\ "invalid" \in flags[o] \/ s + 1 = StageCount
          /\ credit' = credit + 1
          /\ opLoc' = [opLoc EXCEPT ![o] = "released"]
          /\ tbl' = [tbl EXCEPT ![s] = ts]
          /\ UNCHANGED entries
       \/ /\ "invalid" \notin flags[o] /\ s + 1 < StageCount
          /\ opLoc' = [opLoc EXCEPT ![o] = "queued"]
          /\ tbl' = [tbl EXCEPT ![s] = ts, ![s + 1] = EntryPushTbl(tbl[s + 1], o)]
          /\ entries' = [entries EXCEPT ![s + 1] = XlistAddTail(@, o)]
          /\ UNCHANGED credit

-----------------------------------------------------------------------------
(* The condition variable pl->cond. *)

Waiters == {v \in Workers : wk[v].pc = "wait"}

\* the workers in S, and the caller c, go back to the top of the worker loop
Resume(S, c) == [v \in Workers |-> IF v \in S \cup {c} THEN [wk[v] EXCEPT !.pc = "scan", !.stage = Top]
                                   ELSE wk[v]]

\* the sets of waiters one COND_SIGNAL may wake
SignalSets == IF Waiters = {} THEN {{}} ELSE {{v} : v \in Waiters}

-----------------------------------------------------------------------------
(* The reader thread: queue_log_entry and entry_proc_push. *)

\* mutant: the op is queued without taking a credit
PushNoCredit ==
    /\ prod = "push"
    /\ pushed < Len(journal)
    /\ LET o == pushed + 1 IN
       /\ pushed' = o
       /\ opLoc' = [opLoc EXCEPT ![o] = "queued"]
       /\ tbl' = [tbl EXCEPT ![0] = EntryPushTbl(@, o)]
       /\ entries' = [entries EXCEPT ![0] = XlistAddTail(@, o)]
    /\ prod' = "signal"
    /\ UNCHANGED <<journal, credit, opStage, flags, wk, plLock, waitingWorkers, exiting, dbVars>>

Push ==
    /\ prod = "push"
    /\ pushed < Len(journal)
    /\ credit > 0
    /\ LET o == pushed + 1 IN
       /\ pushed' = o
       /\ credit' = credit - 1
       /\ opLoc' = [opLoc EXCEPT ![o] = "queued"]
       /\ tbl' = [tbl EXCEPT ![0] = EntryPushTbl(@, o)]
       /\ entries' = [entries EXCEPT ![0] = XlistAddTail(@, o)]
    /\ prod' = "signal"
    /\ UNCHANGED <<journal, opStage, flags, wk, plLock, waitingWorkers, exiting, dbVars>>

\* mutant: the reader never signals pl->cond after a push
PushSignalNone ==
    /\ prod = "signal"
    /\ plLock = NoWorker
    /\ prod' = IF pushed = Len(journal) THEN "done" ELSE "push"
    /\ UNCHANGED <<journal, pushed, credit, opStage, opLoc, flags, entries, tbl, wk,
                   plLock, waitingWorkers, exiting, dbVars>>

PushSignal ==
    /\ prod = "signal"
    /\ plLock = NoWorker
    /\ \E S \in IF waitingWorkers > 0 THEN SignalSets ELSE {{}} :
          wk' = [v \in Workers |-> IF v \in S THEN [wk[v] EXCEPT !.pc = "scan", !.stage = Top]
                                   ELSE wk[v]]
    /\ prod' = IF pushed = Len(journal) THEN "done" ELSE "push"
    /\ UNCHANGED <<journal, pushed, credit, opStage, opLoc, flags, entries, tbl,
                   plLock, waitingWorkers, exiting, dbVars>>

\* mutant: processor_cleanup sets pl->exiting without the broadcast
CleanupNoBroadcast ==
    /\ prod = "done"
    /\ ~exiting
    /\ plLock = NoWorker
    /\ exiting' = TRUE
    /\ UNCHANGED <<journal, pushed, prod, credit, opStage, opLoc, flags, entries, tbl,
                   wk, plLock, waitingWorkers, dbVars>>

\* processor_cleanup, called once the reader thread has stopped
Cleanup ==
    /\ prod = "done"
    /\ ~exiting
    /\ plLock = NoWorker
    /\ exiting' = TRUE
    /\ wk' = [v \in Workers |-> IF v \in Waiters THEN [wk[v] EXCEPT !.pc = "scan", !.stage = Top]
                                ELSE wk[v]]
    /\ UNCHANGED <<journal, pushed, prod, credit, opStage, opLoc, flags, entries, tbl,
                   plLock, waitingWorkers, dbVars>>

-----------------------------------------------------------------------------
(* A worker thread: entry_proc_worker. *)

\* worker_init: database_connect succeeds, or the thread returns at once
WorkerInit(w) ==
    /\ wk[w].pc = "init"
    /\ \/ wk' = [wk EXCEPT ![w].pc = "scan", ![w].stage = Top]
       \/ WorkerInitMayFail /\ wk' = [wk EXCEPT ![w].pc = "exited"]
    /\ UNCHANGED <<journal, pushed, prod, credit, opStage, opLoc, flags, entries, tbl,
                   plLock, waitingWorkers, exiting, dbVars>>

\* entry_next_op scans the stages from the highest down, each under its
\* mutex, while the worker holds pl->lock (taken before the highest stage)
ScanOf(w) == ScanEntries(wk[w].stage, [fl |-> flags, t |-> tbl[wk[w].stage]],
                         entries[wk[w].stage])

Scanning(w) ==
    /\ wk[w].pc = "scan"
    /\ IF wk[w].stage = Top THEN plLock = NoWorker ELSE plLock = w
    /\ flags' = ScanOf(w).fl
    /\ tbl' = [tbl EXCEPT ![wk[w].stage] = ScanOf(w).t]

\* an op is found: detach it, leave pl->lock, undo this round's wait count
ScanTake(w) ==
    LET i == wk[w].stage
        o == ScanOf(w).pick
    IN /\ Scanning(w)
       /\ o # 0
       /\ entries' = [entries EXCEPT ![i] = Remove(@, o)]
       /\ opLoc' = [opLoc EXCEPT ![o] = "held"]
       /\ waitingWorkers' = IF wk[w].waited THEN waitingWorkers - 1 ELSE waitingWorkers
       /\ wk' = [wk EXCEPT ![w].pc = "process", ![w].op = o, ![w].waited = FALSE]
       /\ plLock' = NoWorker
       /\ UNCHANGED <<journal, pushed, prod, credit, opStage, exiting, dbVars>>

ScanNextStage(w) ==
    /\ Scanning(w)
    /\ ScanOf(w).pick = 0
    /\ wk[w].stage > 0
    /\ wk' = [wk EXCEPT ![w].stage = @ - 1]
    /\ plLock' = w
    /\ UNCHANGED <<journal, pushed, prod, credit, opStage, opLoc, entries,
                   waitingWorkers, exiting, dbVars>>

\* nothing eligible: count itself waiting, then exit if pl->exiting or
\* COND_WAIT (which releases pl->lock)
ScanIdle(w) ==
    /\ Scanning(w)
    /\ ScanOf(w).pick = 0
    /\ wk[w].stage = 0
    /\ waitingWorkers' = waitingWorkers + 1
    /\ wk' = [wk EXCEPT ![w].pc = IF exiting THEN "exited" ELSE "wait", ![w].waited = TRUE]
    /\ plLock' = NoWorker
    /\ UNCHANGED <<journal, pushed, prod, credit, opStage, opLoc, entries, exiting, dbVars>>

\* the stage function: entry_db_apply at stage 0, entry_reclaim_log at stage 1
EntryDbApply(o) ==
    /\ db' = [db EXCEPT ![Id(o)] = IF Kind(o) \in DeleteKinds THEN Absent ELSE o]
    /\ dbParent' = IF Kind(o) \in CreateKinds \cup DeleteKinds
                   THEN [dbParent EXCEPT ![Pid(o)] = o] ELSE dbParent
    /\ lastApplied' = [lastApplied EXCEPT ![Id(o)] = o]
    /\ UNCHANGED reclaimed

EntryReclaimLog(o) ==
    /\ reclaimed' = IF "no_release" \in flags[o] THEN reclaimed ELSE reclaimed \cup {o}
    /\ UNCHANGED <<db, dbParent, lastApplied>>

Process(w) ==
    LET o == wk[w].op IN
    /\ wk[w].pc = "process"
    /\ \/ /\ flags[o] \cap {"can_skip", "invalid"} = {}
          /\ IF opStage[o] = 0 THEN EntryDbApply(o) ELSE EntryReclaimLog(o)
       \/ /\ flags[o] \cap {"can_skip", "invalid"} # {}
          /\ UNCHANGED dbVars
    /\ wk' = [wk EXCEPT ![w].pc = "post"]
    /\ UNCHANGED <<journal, pushed, prod, credit, opStage, opLoc, flags, entries, tbl,
                   plLock, waitingWorkers, exiting>>

\* entry_post_op: update the dependencies, wake waiters, advance the op; the
\* worker then signals pl->cond if it woke anybody
PostOp(w) ==
    LET o == wk[w].op
        cs == PostOpTbl(o, tbl[opStage[o]])
    IN /\ wk[w].pc = "post"
       /\ PostFn(opStage[o]) = "entry_post_op"
       /\ flags' = cs.fl
       /\ Advance(o, cs.t)
       /\ wk' = [wk EXCEPT ![w].pc = IF cs.wakeup > 0 THEN "signal" ELSE "scan",
                           ![w].stage = Top, ![w].wakeup = cs.wakeup]
       /\ UNCHANGED <<journal, pushed, prod, plLock, waitingWorkers, exiting, dbVars>>

PostSignal(w) ==
    /\ wk[w].pc = "signal"
    /\ plLock = NoWorker
    /\ \/ /\ waitingWorkers > 0 /\ wk[w].wakeup = 1
          /\ \E S \in SignalSets : wk' = Resume(S, w)
       \/ /\ waitingWorkers > 1 /\ wk[w].wakeup > 1
          /\ wk' = Resume(Waiters, w)
       \/ /\ ~(waitingWorkers > 0 /\ wk[w].wakeup = 1)
          /\ ~(waitingWorkers > 1 /\ wk[w].wakeup > 1)
          /\ wk' = Resume({}, w)
    /\ UNCHANGED <<journal, pushed, prod, credit, opStage, opLoc, flags, entries, tbl,
                   plLock, waitingWorkers, exiting, dbVars>>

\* entry_stage_cmplt: drop the references and advance the op
StageCmplt(w) ==
    LET o == wk[w].op IN
    /\ wk[w].pc = "post"
    /\ PostFn(opStage[o]) = "entry_stage_cmplt"
    /\ Advance(o, StageCmpltTbl(o, tbl[opStage[o]]))
    /\ wk' = [wk EXCEPT ![w].pc = "scan", ![w].stage = Top]
    /\ UNCHANGED <<journal, pushed, prod, flags, plLock, waitingWorkers, exiting, dbVars>>

-----------------------------------------------------------------------------

Init ==
    /\ journal \in Journals
    /\ pushed = 0
    /\ prod = "push"
    /\ credit = OutstandingOps
    /\ opStage = [o \in Ops |-> 0]
    /\ opLoc = [o \in Ops |-> "new"]
    /\ flags = [o \in Ops |-> {}]
    /\ entries = [s \in Stages |-> <<>>]
    /\ tbl = [s \in Stages |-> [x \in Objs |-> NoRec]]
    /\ wk = [w \in Workers |-> [pc |-> "init", op |-> 0, stage |-> Top,
                                waited |-> FALSE, wakeup |-> 0]]
    /\ plLock = NoWorker
    /\ waitingWorkers = Cardinality(Workers)       \* processor_init, line 829
    /\ exiting = FALSE
    /\ db = [x \in Objs |-> Absent]
    /\ dbParent = [x \in Objs |-> 0]
    /\ lastApplied = [x \in Objs |-> 0]
    /\ reclaimed = {}

Worker(w) ==
    \/ WorkerInit(w) \/ ScanTake(w) \/ ScanNextStage(w) \/ ScanIdle(w)
    \/ Process(w) \/ PostOp(w) \/ PostSignal(w) \/ StageCmplt(w)

Reader == Push \/ PushSignal

\* the main thread has joined every worker: the program ends
Terminated ==
    /\ prod = "done" /\ exiting
    /\ \A w \in Workers : wk[w].pc = "exited"
    /\ UNCHANGED vars

Next == Reader \/ Cleanup \/ (\E w \in Workers : Worker(w)) \/ Terminated

\* threads are scheduled by the OS: every runnable thread eventually runs
Fairness == WF_vars(Reader) /\ WF_vars(Cleanup) /\ \A w \in Workers : WF_vars(Worker(w))

Spec == Init /\ [][Next]_vars /\ Fairness

-----------------------------------------------------------------------------
(* Properties. *)

Rec == [ref : Nat, being_proceed : BOOLEAN, being_created : BOOLEAN,
        being_removed : BOOLEAN, deleting_children : Nat, pending : Seq(Ops)]
Pcs == {"init", "scan", "wait", "process", "post", "signal", "exited"}

TypeOK ==
    /\ journal \in Journals
    /\ pushed \in 0..Len(journal)
    /\ prod \in {"push", "signal", "done"}
    /\ credit \in 0..OutstandingOps
    /\ opStage \in [Ops -> 0..StageCount]
    /\ opLoc \in [Ops -> {"new", "queued", "held", "released"}]
    /\ flags \in [Ops -> SUBSET Flags]
    /\ entries \in [Stages -> Seq(Ops)]
    /\ tbl \in [Stages -> [Objs -> Rec \cup {NoRec}]]
    /\ wk \in [Workers -> [pc : Pcs, op : 0..MaxOps, stage : Stages,
                           waited : BOOLEAN, wakeup : Nat]]
    /\ plLock \in Workers \cup {NoWorker}
    /\ waitingWorkers \in Nat
    /\ exiting \in BOOLEAN
    /\ db \in [Objs -> Ops \cup {Absent}]
    /\ dbParent \in [Objs -> 0..MaxOps]
    /\ lastApplied \in [Objs -> 0..MaxOps]
    /\ reclaimed \in SUBSET Ops

\* ops in flight at stage s: pushed there and not yet completed there
AtStage(s) == {o \in Ops : opStage[o] = s /\ opLoc[o] \in {"queued", "held"}}

\* the references the code takes on x's record at stage s: one per op on x,
\* one per deletion whose parent is x
Refs(s, x) == Cardinality({o \in AtStage(s) : Id(o) = x})
              + Cardinality({o \in AtStage(s) : Kind(o) \in DeleteKinds /\ Pid(o) = x})

(* Reference counting of the object tracking records (entry_push,          *)
(* entry_post_op, entry_stage_cmplt): at every stage an inode has a record *)
(* exactly when some in-flight op references it, and its count equals the  *)
(* number of those references, so no record leaks or is freed while used.  *)
RefCountExact ==
    \A s \in Stages, x \in Objs :
        IF Refs(s, x) = 0 THEN tbl[s][x] = NoRec
        ELSE tbl[s][x] # NoRec /\ tbl[s][x].ref = Refs(s, x)

(* The deleting-children counter that rmdir validation reads (entry_push   *)
(* increments it, entry_post_op decrements it) equals, at the validated    *)
(* stage, the number of in-flight unlink/rmdir ops under that directory.   *)
DeletingChildrenExact ==
    \A x \in Objs :
        tbl[0][x] # NoRec =>
            tbl[0][x].deleting_children =
                Cardinality({o \in AtStage(0) : Kind(o) \in DeleteKinds /\ Pid(o) = x})

(* Admission control (sem_wait in entry_proc_push, sem_post in            *)
(* _entry_stage_cmplt): the credit left plus the ops pushed and not yet    *)
(* released is always pl->outstanding_ops, so at most that many are in    *)
(* flight.                                                                 *)
CreditConservation ==
    credit + Cardinality({o \in Ops : opLoc[o] \in {"queued", "held"}}) = OutstandingOps

\* the op a worker's entry_next_op would take from stage s now
Eligible(s) == ScanEntries(s, [fl |-> flags, t |-> tbl[s]], entries[s]).pick # 0

(* No lost wake-up (entry_proc_push, entry_post_op, the wait loop of       *)
(* entry_proc_worker): when some worker sleeps on pl->cond, every other    *)
(* one sleeps or has exited, and the reader is not about to signal, no     *)
(* stage holds an op a worker would take.                                  *)
NoLostWakeup ==
    (/\ Waiters # {}
     /\ \A w \in Workers : wk[w].pc \in {"wait", "exited"}
     /\ prod # "signal")
    => \A s \in Stages : ~Eligible(s)

(* Spec section 5: within one stage at most one op on an inode is being    *)
(* processed, so two entry_db_apply calls on one inode never run at once.  *)
ExclusiveProcessing ==
    \A w, v \in Workers :
        /\ w # v
        /\ wk[w].pc = "process" /\ wk[v].pc = "process"
        /\ opStage[wk[w].op] = 0 /\ opStage[wk[v].op] = 0
        /\ flags[wk[w].op] \cap {"can_skip", "invalid"} = {}
        /\ flags[wk[v].op] \cap {"can_skip", "invalid"} = {}
        => Id(wk[w].op) # Id(wk[v].op)

\* an earlier op of the journal that op o must follow: one on the same
\* inode, the mkdir of the directory o creates in, or for an rmdir the
\* removal of an entry of the directory
DependsOn(p, o) ==
    /\ p < o
    /\ \/ Id(p) = Id(o)
       \/ Kind(p) = "mkdir" /\ Id(p) = Pid(o) /\ Kind(o) \in CreateKinds
       \/ Kind(o) = "rmdir" /\ Kind(p) \in DeleteKinds /\ Pid(p) = Id(o)

\* op p has been through entry_db_apply, or will skip it
Stage0Done(p) ==
    \/ opStage[p] > 0 \/ opLoc[p] = "released"
    \/ \E v \in Workers : wk[v].op = p /\ wk[v].pc = "post"
    \/ flags[p] \cap {"can_skip", "invalid"} # {}

(* Spec section 1: ops on one inode, or on a parent and its child, are    *)
(* applied in journal order.  When a worker calls entry_db_apply on an op, *)
(* every earlier op it depends on (same inode; the mkdir of its directory  *)
(* for a create; the removals under it for an rmdir) has been applied or   *)
(* cancelled: entry_valid_op's waits and entry_post_op's wake-ups must     *)
(* hold each op back until then, whichever worker runs what.               *)
CausalOrder ==
    \A w \in Workers :
        LET o == wk[w].op IN
        wk[w].pc = "process" /\ opStage[o] = 0
            /\ flags[o] \cap {"can_skip", "invalid"} = {}
            => \A p \in 1 .. pushed : DependsOn(p, o) => Stage0Done(p)

(* An op sits on a pending list only while it is in flight at that list's *)
(* stage: once entry_post_op has advanced or released it, no object record *)
(* (entry_proc_pending, entry_valid_op) still links it.                    *)
PendingOnlyCurrent ==
    \A s \in Stages, x \in Objs :
        tbl[s][x] # NoRec =>
            \A q \in Range(tbl[s][x].pending) : q \in AtStage(s)

\* the database a sequential replay of the journal produces; renames are
\* invalid ops, drained without side effects
RefDb == FoldLeft(LAMBDA d, o : CASE journal[o].op \in DeleteKinds -> [d EXCEPT ![journal[o].id] = Absent]
                                  [] journal[o].op = "rename" -> d
                                  [] OTHER -> [d EXCEPT ![journal[o].id] = o],
                  [x \in Objs |-> Absent], [i \in 1..Len(journal) |-> i])

AllReleased == pushed = Len(journal) /\ \A o \in 1..Len(journal) : opLoc[o] = "released"

(* Spec section 8: once every entry has left the pipeline, the database    *)
(* rows written by entry_db_apply equal those of applying the journal in   *)
(* order, whatever was skipped by the merge rules.                         *)
FinalStateMatches == AllReleased => db = RefDb

(* Every released op's journal entry was handed back by entry_reclaim_log, *)
(* except the root entry (no_release), so the journal can be trimmed.      *)
PayloadReclaimed ==
    \A o \in Ops : opLoc[o] = "released" /\ "no_release" \notin flags[o] => o \in reclaimed

(* Once processor_cleanup has set pl->exiting, every worker thread leaves  *)
(* its loop, so the pthread_join calls return.                             *)
WorkersExit == exiting ~> \A w \in Workers : wk[w].pc = "exited"

\* a worker whose worker_init failed: it returned without ever scanning
\* (a worker that exits from its loop has counted itself waiting first)
InitFailed(w) == wk[w].pc = "exited" /\ ~wk[w].waited

(* The workers drain the pipeline before they exit: once every worker     *)
(* thread has returned, every journal entry the reader queued has been    *)
(* processed through both stages and released, unless every worker failed *)
(* worker_init.  processor_cleanup joins the workers and then destroys the *)
(* stage tables and pools (hunter), and the scanner tool destroys its     *)
(* entry pools right after it: an op left in flight would be lost or used *)
(* after it is freed.                                                      *)
ExitDrained ==
    (\A w \in Workers : wk[w].pc = "exited") /\ ~(\A w \in Workers : InitFailed(w))
        => \A o \in 1..pushed : opLoc[o] = "released"

=============================================================================
