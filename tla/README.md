# TLA+ models of MetaHunter

MetaHunter follows a file system's metadata journal (Ceph MDS) and applies
each entry to a metadata database (Robinhood) through a multi-stage pipeline
run by a pool of worker threads. Operations on the same inode, or on a parent
and its child, must be applied in journal order. Unrelated operations run in
parallel.

This directory holds the TLA+ modules, the TLC configurations and
`PROJECT.json`. `PROJECT.json` lists:

- the components and what is modelled of each;
- every run and what it checks;
- a mutant for every checked property;
- the source lines each definition translates ("map");
- the findings and the hazards.

All source paths are relative to the repository root (`src/src/...`).

## 1. Inventory

### Components, their state and their operations

| Component | Source | State | Operations |
|---|---|---|---|
| Pipeline engine | `common/processor.c`, `include/processor.h` | credit semaphore `pl->credit`; engine lock `pl->lock`, condition `pl->cond`, `pl->waiting_workers`, `pl->exiting`; per stage: mutex, in-flight list `entries`, `outstanding`, object table `obj_tbl` (inode → `op_obj_t` with `ref`, `being_proceed`, `being_created`, `being_removed`, `deleting_children`, `pending` list); per op: `stage` and the flag bits `wait_parent_add`, `wait_chld_del`, `wait_obj_proc`, `woke_up`, `can_skip`, `invalid`, `no_release` | `entry_proc_push` (`sem_wait`, `entry_push`, signal); `entry_next_op` with `entry_valid_op` and `entry_proc_pending`; `entry_proc_worker`; `entry_post_op`; `entry_stage_cmplt`; `_entry_stage_cmplt`; `processor_init`; `processor_cleanup` |
| Standard processor plugin | `processor/standard/standard.c` | stage table: stage 0 `STAGE_DB_APPLY` (validator `entry_valid_op`, `entry_db_apply`, `entry_post_op`); stage 1 `STAGE_RECLAIM_LOG` (no validator, `entry_reclaim_log`, `entry_stage_cmplt`) | `entry_db_apply` (insert/remove/update rows, update the parent's row); `entry_reclaim_log` (`filesystem_release_jentry` unless `no_release`); `worker_init` (database connect) |
| iRODS plugin | `processor/irods/mh_irods.c` | the same two-stage table; per worker a connection `priv->conn` | `entry_db_apply` (rc* call, tolerated errors, `goto retry`, the `rcReconnect` loop); `worker_init` (connect, login); `worker_fini` |
| Scanner plugin | `processor/scanner/scanner.c` | the same two-stage table | stage functions that call an external client |
| Log reader and shutdown | `hunter/hunter.c`, `fs/ceph/ceph-api.c` | `force_stop`, `thr_id`, reader thread, signal thread | `main`; `xt_signals_setup`; `log_reader_thr` (queue the root `op_init` entry, then every journal entry `ceph_hold_journal_entry` returns); `xt_log_reader_start` (init, join, cleanup); `xt_sigwaiter` and `xt_log_reader_terminate` (signal path) |
| Slab pool | `common/mem.c` | free list, hot/cold counts, per-slot `in_use` | `mem_pool_new`, `mem_get`, `mem_get0`, `mem_put` (with `__is_member`), `mem_pool_destroy` |
| Hash table | `common/rbthash.c` | buckets, each with a lock and a red-black tree | `rbthash_insert`, `rbthash_get`, `rbthash_remove`, `rbthash_table_destroy` |
| Scanner tool | `scanner/scanner.c` | `scan_list` (open directories, head first), `stbuf`, the entry and attribute pools | `xt_start_scanner` (mount, database and processor init, `goto err`, cleanup); `xt_traverse_tree` (readdir, skip `.`/`..`, lstat, `xt_new_scan`, `xlist_add`, `queue_log_entry`, `xt_del_scan`) |
| Linked lists | `include/xlist.h` | circular doubly linked lists threaded through the ops, records, chunks and scan dirs | `xlist_add`, `xlist_add_tail`, `xlist_del`, `xlist_del_init`, `xlist_empty`, `xlist_get_tail`; splice/append/move (thread pool only) |
| Thread pool | `common/thread-pool.c` | a job queue and threads | not called by any other file |
| Loaders, journal reader, database backend, configuration, logging | `common/filesystem.c`, `common/database.c`, `fs/ceph/*`, `db/robinhood/*`, `cfg_parser/*`, `common/logging.c` | handles and I/O | external I/O |

### How the components interact

The reader thread takes an op from the op pool (`entry_proc_get`). It fills
the op from the journal entry and calls `entry_proc_push`. That waits for a
credit, enters the op in stage 0's list and table, and signals a waiting
worker under `pl->lock`.

A worker holds `pl->lock` while `entry_next_op` scans the stages from the
highest down, each under its stage mutex, and takes the first eligible op.
If no op is eligible, the worker counts itself waiting and sleeps on
`pl->cond`. It exits instead if `pl->exiting` is set.

Once a worker has an op, it runs the stage function unless the op is
`can_skip` or `invalid`, and then the stage's completion. The completion
updates the object records, may wake ops parked on a `pending` list, and
moves the op to the next stage (`entry_push` again). After the last stage,
or when the op is invalid, the completion releases the op and posts the
credit.

The three pools and the hash tables are shared by all threads.

### Hard behaviours

- **Many threads:** one reader and N workers. Each worker's scan, its
  validation and the completions interleave under three kinds of lock.
- **Flags changed during a scan:** a validation changes the flags of ops
  other than the one validated. The merge rules of `entry_proc_pending` mark
  earlier ops `can_skip` after the scan may already have passed them.
- **Wake-ups by flags:** a woken op is taken without validation. Wake-ups go
  through `pl->cond` with a waiting count that is not the number of sleeping
  threads.
- **Shutdown:** it relies on the broadcast in `processor_cleanup` and on
  workers finding no work.
- **Credit:** the reader blocks on the credit, so a stalled pipeline also
  stalls the reader and with it shutdown.

### What makes each component correct

- **Pipeline engine**
  - Ordering: at most one op per inode and stage is processed at a time
    (spec.md §5). The final database equals applying each inode's ops in
    journal order (§8).
  - Records: each stage's object records are referenced exactly by the ops
    in flight there and freed when the last one leaves (§8.3).
  - `deleting_children` counts the outstanding deletions under a directory.
  - Credit: credit plus in-flight ops equals `outstanding_ops`.
  - Workers: no worker sleeps while an op is eligible, and every worker
    exits after cleanup.
  - Pending lists: an op is on a pending list only while it is in flight.
- **Standard plugin:** every journal entry except the root's is released
  exactly once.
- **Slab pool:** a slot is handed out at most once before it is put back,
  and the counts match the free list.
- **Hash table:** it behaves as a map from key to value.

## 2. Plan

Modules, in order of importance:

1. **`Processor`** (done). The pipeline engine driven by the standard
   stage table, with one reader, N workers, `pl->lock`/`pl->cond`, the
   credit and the per-stage tables. The database is abstracted to one row
   per inode.
2. **`MCProcessor`** (done). Model values for the inodes and the
   journals the reader may deliver:
   - every consistent journal over a directory and a file;
   - fixed scenarios.
3. **`MemPool`** (done: `MemPool`, `Allocator`; checked inside `MCRbtHash`). `mem.c` as a set of slots with a free list and
   hot/cold counts. An abstract pool (a set of free slots) is shown to be
   implemented by it through `INSTANCE ... WITH` a refinement mapping.
   Still to do: `Processor` composes it for the op pool and the object
   pool, so that `entry_proc_get` failing (`hunter.c:127`) becomes reachable.
4. **`RbtHash`** (done: `RbtHash`, `Map`, `MCRbtHash`). Per-bucket locks and insert/get/remove, refining an
   abstract map. `Processor`'s `tbl[s]` is that abstract map.
5. **`Hunter`** (done, §3b). Start-up, the reader, the signal thread and
   the main thread at shutdown: the double join and double
   `processor_cleanup` (`hunter.c:235`, `:251`, `:252`).
5a. **`Irods`** (done, §3c). One worker of the iRODS plugin applying ops
   against an abstract catalogue over an unreliable connection.
6. **`Scanner`** (done, §3d). The scanner tool's start-up and tree walk
   against a tree that changes under it.
7. **Later additions to `Processor`:**
   - a run where all workers fail `worker_init`;
   - database failures in `entry_db_apply`;
   - an abstract per-inode ordering specification that `Processor` is
     checked against (expected to fail for the findings below).

## 3. Module `Processor` (the pipeline engine)

The lists of `xlist.h` are sequences read from `head->next` on. Module
`Xlist` names their operations after the code (`XlistAdd`, `XlistAddTail`,
`XlistDel`, `XlistEmpty`, `XlistGetTail`). `Processor`, `MemPool` and
`Scanner` use them for the in-flight and pending lists, the pool's free
list and `scan_list`.

### State

| Variable | Code |
|---|---|
| `journal`, `pushed`, `prod` | the reader thread: the entries it delivers, how many it queued, and where it is (`"push"`, `"signal"` after `entry_push`, `"done"` after the last entry) |
| `credit` | `pl->credit` |
| `opStage`, `opLoc`, `flags` | `op->stage`; whether the op is new, on a stage list, held by a worker, or released; the flag bits. Ops are named by their journal position. |
| `entries[s]` | `stage->entries` |
| `tbl[s][x]` | `stage->obj_tbl`: the `op_obj_t` of inode `x`, or `NoRec`. `pending` is a sequence of ops. |
| `wk[w]` | worker `w`: program counter, the op it holds, the stage its scan has reached, its local `wait` variable, and the `wakeup` of its last `entry_post_op` |
| `plLock` | the worker holding `pl->lock` across a multi-stage scan |
| `waitingWorkers`, `exiting` | `pl->waiting_workers`, `pl->exiting` |
| `db`, `dbParent` | the database row of each inode (the op that wrote it, or `Absent`); the last op that updated it as a parent |
| `lastApplied`, `reclaimed` | history variables: the last op applied to each inode; the ops whose journal entry was released |

### Actions

| Action | Code | What it does |
|---|---|---|
| `Push` | `entry_proc_push` 193-202 with `entry_push` 116-187 | take a credit, append to stage 0, reference the records |
| `PushSignal` | 204-207 | signal one waiter under `pl->lock` if `waiting_workers > 0` |
| `Cleanup` | `processor_cleanup` 872-883 | set `exiting` and broadcast |
| `WorkerInit` | `worker_init` at 668-671 | succeeds, or (if `WorkerInitMayFail`) the thread returns |
| `ScanNextStage` | `entry_next_op` over one stage | no op is eligible in that stage and a lower stage remains; the worker holds `pl->lock` |
| `ScanTake` | `entry_next_op` over one stage | takes the first eligible op, with the validations it ran (the recursive `ScanEntries` over the list) |
| `ScanIdle` | 677-690 | `waiting_workers++` and exit or `COND_WAIT` |
| `Process` | 698-711 | the stage function, or nothing for a `can_skip`/`invalid` op |
| `PostOp` | `entry_post_op` 461-590 with `_entry_stage_cmplt` | whole stage-0 completion |
| `PostSignal` | 592-598 | signal, broadcast or neither, under `pl->lock` |
| `StageCmplt` | `entry_stage_cmplt` 414-454 | whole stage-1 completion |
| `Terminated` | `processor_cleanup` | the joins return and the program ends |

Each action covers one critical section and keeps every effect of the code
in that section.

`PostOp` and `StageCmplt` include `_entry_stage_cmplt`: the push to the next
stage or the release. Between the end of one stage's critical section and the
start of the next, the op is on no list and in no table, so no other thread
can observe the gap.

The signal at the end of `entry_post_op` is a separate step, because it waits
for `pl->lock`.

### Properties

| Property | Kind | Meaning |
|---|---|---|
| `TypeOK` | type invariant | every variable is in its domain |
| `RefCountExact` | safety | at every stage, an inode has a record exactly when some in-flight op references it, and `ref` is that number (ops on the inode plus deletions under it) |
| `DeletingChildrenExact` | safety | stage 0's `deleting_children` is the number of in-flight unlink/rmdir under the directory |
| `CreditConservation` | safety | `credit` plus the ops in flight is `outstanding_ops` |
| `CausalOrder` | safety | when a worker runs `entry_db_apply` on an op, every earlier op it depends on (same inode; its directory's mkdir, for a create; the removals under it, for an rmdir) has been applied or cancelled (spec.md §1) |
| `NoLostWakeup` | safety | when some worker sleeps, the rest sleep or have exited and the reader is not about to signal, no stage has an op `entry_next_op` would take |
| `WorkersExit` | liveness | after `processor_cleanup` sets `exiting`, every worker exits |
| `ExitDrained` | safety | once every worker thread has returned, and at least one got past `worker_init`, every queued op has gone through both stages and been released; `processor_cleanup` and the tool's pool destruction come right after the joins |
| `ExclusiveProcessing` | safety | two workers never run `entry_db_apply` on one inode at once (spec.md §5) |
| `PendingOnlyCurrent` | safety | a pending list holds only ops in flight at its stage |
| `FinalStateMatches` | safety | once all ops are released, the database equals the sequential replay of the journal (spec.md §8) |
| `PayloadReclaimed` | safety | every released op's journal entry was released, except the root's |

## 3a. Modules `MemPool`/`Allocator` (slab pool) and `RbtHash`/`Map` (hash table)

**`MemPool`** models `src/common/mem.c`. State: `list` (`mem_pool->list`,
the free chunks head first), `inUse` (the `in_use` word before each chunk),
`hotCount`, `coldCount`, `heap` (objects `MALLOC` returned) and `held` (what
each caller holds). Every operation runs under the pool lock, so each is one
step:

| Action | Code |
|---|---|
| `Init` | `mem_pool_new`: all chunks on the list in address order |
| `MemGetChunk(c)` | `mem_get` with `cold_count > 0`: unlink the head |
| `MemGetHeap(c)` | `mem_get` with no cold chunk: `MALLOC`, or NULL |
| `MemPutChunk(c,p)` | `mem_put`, `__is_member` = 1: push on the head |
| `MemPutHeap(c,p)` | `mem_put`, `__is_member` = 0: `FREE` |

`Allocator` is what `include/mem.h` promises: `mem_get` hands out an object
no caller holds (or fails), `mem_put` takes back one the caller holds.
`MemPool` implements it under `owned <- held` (`Refinement`).
`FreeListConsistent` ties the counters to the list: `cold_count` is its
length, hot + cold is the chunk count, no chunk is on it twice, and exactly
the chunks not in use are on it.

**`RbtHash`** models `src/common/rbthash.c` over an entry pool that is an
`INSTANCE` of `MemPool` (the processor passes the shared `obj_tbl_pool`). A
bucket's red-black tree is the set of its entries; `ekey`/`edata` are the
entry fields. Each call is split where the bucket lock is dropped:

| Action | Code |
|---|---|
| `Insert(t,k,v)` | `rbthash_init_entry` + `rbthash_insert_entry`: `mem_get` (NULL path included), `rb_probe` links the entry only if the key is absent |
| `GetFind(t,k)` / `GetRead(t)` | `rbthash_get`: `rb_find` under the lock / `return entry->data` after `UNLOCK` |
| `RemoveDelete(t,k)` / `RemovePut(t)` | `rbthash_remove`: `rb_delete` under the lock / `XT_FREE` the key and `mem_put` the entry after `UNLOCK` |

`Map` is the put-if-absent map of `include/rbthash.h`; `RbtHash` refines it
under the mapping "a key's data is that of its linked entry"
(`Refinement`). `UniqueKeys` says each key has at most one linked entry, in
the bucket it hashes to.

The pool has a second client, `OtherTable`: `processor_init` passes one
`obj_tbl_pool` to every stage's table, so the other stage's table takes and
returns chunks between this table's steps (`SharedPoolUse`). With it, the
pool's own properties (`PoolConsistent`, `PoolRefinement`) are checked in the
same run: a chunk handed to both tables is a real double hand-out, which a
single client cannot show.

`MCRbtHash` uses the processor's shape: one bucket, two threads, two keys,
two values, a pool of two chunks plus one heap address, and `MALLOC` that
may fail. Two chunks let one entry be freed and recycled while another is
linked; the heap address and the failing `MALLOC` reach both `mem_get`
fallbacks.

## 3b. Module `Hunter` (start-up and shutdown)

Three threads, each a program counter: the main thread (`mainPc`: `main`
and `xt_log_reader_start`), the signal thread (`sigPc`: `xt_sigwaiter` and
`xt_log_reader_terminate`) and the reader (`readerPc`: `log_reader_thr`).
The processor is abstracted to `stages` (`pl->stages`: NULL, live, or freed
by `XT_FREE`, which leaves the poison 0xeeeeeeee, not NULL) and to what
`processor_cleanup` releases. `released[r]` counts how often the reader is
joined and the stage array and pools are released.

| Action | Code |
|---|---|
| `SignalsSetup`, `FsInit`, `DbInit`, `CreateReader` | each init step of `main`/`xt_log_reader_start` with its failure path (`exit(1)` or `goto err`); `FsInit` is `ceph_connect_mds_journal` |
| `ProcInit` | `processor_init`: success, failure before `pl->stages` is allocated, or after (its err path frees the stages and pools itself) |
| `MainJoin`, `MainCleanup`, `MainRelease`, `MainReturn` | `xt_log_reader_wait`, the `pl->stages` test of `processor_cleanup`, the rest of it, the return from `main` |
| `SigTerm`, `SigStop`, `SigJoin`, `SigCleanup`, `SigRelease` | `sigwait` returning SIGTERM, `force_stop = 1`, `pthread_join(thr_id)` (undefined while `thr_id` is still 0: crash or return; undefined while main is already joining the live reader: wait, or return EINVAL at once as glibc does), then `processor_cleanup` in two steps |
| `ReaderRoot`, `ReaderHold`, `ReaderEnd`, `ReaderStop` | queue the root entry; `ceph_hold_journal_entry` returns an entry; the journal end or an MDS error ends the thread; `force_stop` ends it |

`processor_cleanup` is two steps because its test of `pl->stages` (line
877) and the `pl->stages = NULL` (line 909) are separated by the worker
joins: two callers can both pass the test. `ReleaseOnce` says everything is
released at most once. `MCHunter.cfg` lets all init steps succeed and sends
one SIGTERM. With `InitMayFail = TRUE` the same property also fails through
`processor_init`'s error path (the hazard at `processor.c:866`).

## 3c. Module `Irods` (the iRODS plugin's `entry_db_apply`)

One worker applies the ops of `MCIrods`'s journal (init, mkdir D, create F
in D, setattr F, setattr D, unlink F, rmdir D) in order. The catalogue
`cat` is a set of ids; `Answer` is the catalogue's reply to each rc* call
(`CAT_UNKNOWN_FILE`, `CAT_UNKNOWN_COLLECTION`, `CAT_NAME_EXISTS_*` or
success), `Tolerated` the per-op switch that turns some into success. A
connection fault (`EPIPE`/`EIO`) carries an iRODS error that is a socket
error (`USER_SOCK_*`) or not; `faults` bounds the dropped connections and
failed `rcReconnect`s (`MaxFaults = 2`), after which the server answers.

| Action | Code |
|---|---|
| `WorkerInit` | `worker_init`: connected, or failed (the thread returns without `worker_fini`) |
| `Call` | `retry:` to the error test: an op without a call (`op_init` is a label, not a case; setattr of a directory), a connection fault, or the catalogue's reply; an untolerated reply goes back to `retry:` |
| `Reconnect` | one turn of the `while (1)` loop: `rcReconnect`, then leave only if the first error was not a socket error; back to `retry:` on success, else return the error |
| `WorkerFini` | `pl->exiting`: `worker_fini` |

`ApplyReturns` says every call of a started worker returns. Weak fairness
of the worker's steps is what a running thread gets.

## 3d. Module `Scanner` (the scanner tool's tree walk)

`xt_traverse_tree` walks the tree depth first: a directory found is put at
the head of `scan_list` and the loop always reads from the head, so the
list is a stack. `Scanner` keeps `scanList` as a sequence of records
`[dir, id, left]`, where `left` is what the directory's readdir handle
still has to return: the entries present at `opendir`, plus `.` and `..`
(model values `Dot`, `DotDot`). The file system is a fixed tree (`Parent`,
`Dirs`). Another process may remove a file or an empty directory at any
time (`Remove`, at most `MaxRemovals`). An inode's `struct stat` is
abstracted to the inode and its directory bit (`Stat`); the pipeline is
abstracted to `queued`, the entries `queue_log_entry` pushed. `Processor`
models what the pipeline does with them.

| Action | Code |
|---|---|
| `StartScanner` | `xt_start_scanner` up to the walk: mount failure returns -1; database or processor init failure jumps to `err:`; otherwise the pools, `lstat("/")` and the root's `scan_dir` |
| `ReadDir` | `filesystem_readdir` on the head: NULL → `xt_del_scan` and `next:`; `.`/`..` → `continue`; else handle the entry |
| `Lstat` | `filesystem_lstat` (its result ignored: a failed call leaves `stbuf` as it was), `mattr_new`; a non-directory is pushed |
| `OpenDir` | `xt_new_scan`; `xlist_add` of its result, NULL when opendir failed; the push |
| `Cleanup` | `err:`: `processor_cleanup`, `mem_pool_destroy` of both pools |

`ScanSound` says the scanner never dereferences a NULL `scan_dir`, and every
pushed setattr carries its own entry's inode and its directory's inode as
parent. `MCScanner` has a root with a directory `A` and a file `f`, and a
file `g` in `A`: two levels, a file and a directory at each, which is the
smallest tree in which an entry can follow a directory or a file. With no
removal (`MaxRemovals = 0`) `ScanSound` holds over all 147 states.

## 4. Runs

The last rows use `MCRbtHash` (§3a), `Hunter` (§3b), `MCIrods` (§3c) and `MCScanner` (§3d). The `Processor` runs use `MCProcessor`. Its inodes are model values: `Root`, a
directory `D` under it, and files `F` and `G` in `D`. Every journal starts
with the root's `op_init` entry, as `log_reader_thr` queues it.

| Run (cfg) | Expect | Journals and bounds | What it shows |
|---|---|---|---|
| `bookkeeping` (`MCProcessor.cfg`) | pass | every consistent 3-entry journal over D and F after the init (6 journals: mkdir D, then any of rmdir/setattr D, create/setattr/unlink F as the file system allows); 2 workers; credit 4 | the reference counts, children counters and credit stay exact, and every op is applied after the ops it depends on, over about 154k distinct states (worker symmetry) |
| `fanout` (`MCProcessorFanout.cfg`) | pass | mkdir D, create F, create G; 2 workers, either of which may fail `worker_init` | the mkdir completion wakes both creates and broadcasts; no wake-up is lost even if one worker never starts; every worker exits after cleanup, and only after every op was released unless both failed to start |
| `mkdir_strand` (`MCProcessorMkdirStrand.cfg`) | violation of `ExitDrained` | mkdir D, setattr D; 2 workers | finding 9 |
| `lost_wakeup` | violation of `NoLostWakeup` | mkdir D, setattr D, setattr D; credit 2 | finding 1 |
| `exclusive` | violation of `ExclusiveProcessing` | three setattr D; or create F, unlink F, create F (inode number reused) | findings 2 and 11 |
| `stale_pending` | violation of `PendingOnlyCurrent` | mkdir D, create F, unlink F, rmdir D | finding 3 |
| `rmdir_cancel` | violation of `FinalStateMatches` | the same journal | finding 4 |
| `rename_leak` | violation of `PayloadReclaimed` | a rename | finding 5 |
| `rbthash` (`MCRbtHash.cfg`) | pass | see §3a | one linked entry per key, the table implements `Map`, and the shared pool's free list and counters agree and it implements `Allocator` |
| `hunter_shutdown` (`MCHunter.cfg`) | violation of `ReleaseOnce` | all init succeeds, one SIGTERM, one journal entry | finding 7 |
| `irods_reconnect` (`MCIrods.cfg`) | violation of `ApplyReturns` | see §3c | finding 8 |
| `scanner_live` (`MCScanner.cfg`) | violation of `ScanSound` | see §3d; one removal | finding 10 |

**Why these bounds are enough.**

- Two workers are the fewest that can run two ops on one inode at once, or
  sleep while the other works.
- Three ops on an inode after its creation are the fewest that reach the
  merge rules:
  - a pending tail marked `can_skip`;
  - a woken op racing a newly validated one.
- A directory with one child reaches every deletion rule:
  - `deleting_children`;
  - `wait_chld_del`;
  - the rmdir merge.
- Two children are the fewest for a broadcast.

In the `bookkeeping` run the credit is as large as the journal, so the reader
never blocks. With a smaller credit, the lost wake-up of finding 1 stalls the
pipeline for good; that is what the `lost_wakeup` run shows.

## 5. Findings

1. **Lost wake-up** (`processor.c:263`, `:639`).
   - While a worker scans stage 0, the validation of a later setattr marks
     an earlier, pending setattr `can_skip`.
   - The scan has already passed that op and does not go back. The worker
     sleeps and nobody signals.
   - The op waits until the next push. When the credit is used up, there is
     no next push: the reader blocks in `sem_wait` and the pipeline hangs.
   - spec.md §4 says a worker suspends only when nothing is eligible.
2. **Two setattrs on one inode run at once** (`processor.c:634`, `:576`).
   - A woken op is taken without `entry_valid_op`, so it does not set
     `being_proceed`.
   - Any completion clears `being_proceed`.
   - So with three setattrs on one inode, the third validates while the
     woken second is running, and both run `entry_db_apply` together.
3. **Cancelled ops stay on pending lists** (`processor.c:279`, `:246-249`).
   - The rmdir merge marks the child's create and the rmdir itself
     `can_skip`. Both stay on the directory's pending list after they are
     released.
   - In the code their memory goes back to the op pool while still linked:
     a use after free.
4. **The database keeps a removed directory** (`processor.c:248`).
   - The journal is mkdir D, create F, unlink F, rmdir D.
   - The rmdir cancels itself and the create, but the mkdir runs.
5. **A rename leaks its journal entry** (`processor.c:382`).
   - Invalid ops leave after stage 0, so `entry_reclaim_log` never releases
     their entry.
6. **`pl->waiting_workers` drifts upward** (from the code, no run).
   - It starts at `workercnt` (`processor.c:829`).
   - Every failed scan adds one, and a successful scan subtracts one only
     once.
   - As a result, the signal conditions at `:205` and `:593` are almost
     always true. A long-running daemon would overflow the signed counter.

7. **Shutdown joins the reader twice and cleans up twice**
   (`hunter.c:251`, `:252`, `:220`, `:235`).
   - On SIGTERM the signal thread sets `force_stop`, joins the reader and
     calls `processor_cleanup`.
   - The main thread was waiting in its own join of the reader; it returns
     too and calls `processor_cleanup`.
   - Both pass the `pl->stages` test before either sets it to NULL: the
     tables, the stage array and the pools are destroyed twice.
8. **A socket error makes `entry_db_apply` loop for ever**
   (`mh_irods.c:241`).
   - The reconnect loop tests the error of the failed call, not what
     `rcReconnect` returned. After `USER_SOCK_CONNECT_ERR` or
     `USER_SOCK_OPEN_ERR` it never leaves, even once the server is back.
   - With that fixed, TLC finds a second livelock: a create whose
     reconnect failed returns an error, the worker drops the op, and the
     later setattr of that file gets `CAT_UNKNOWN_FILE`, which is not
     tolerated, and goes back to `retry:` for ever (`mh_irods.c:303`).

9. **A setattr of a directory being created is never run**
   (`processor.c:482`, `:288-351`).
   - The reader queues mkdir D and then setattr D. One worker takes the
     mkdir; a second scans the setattr while the mkdir is being applied.
     `entry_valid_op` sees `being_created`, tags it `wait_obj_proc` and
     parks it on D's pending list.
   - The mkdir's completion clears `being_created` and wakes only the
     `wait_parent_add` ops. Only a create/setattr/init completion on D
     wakes a `wait_obj_proc` op, and every later op on D parks behind
     this one.
   - The setattr keeps its credit and is never applied. At shutdown the
     workers exit with it queued, and it is never released. spec.md's
     completion rule has the same gap.

10. **The scanner crashes on a file removed during the scan**
   (`scanner/scanner.c:193`, `:210`).
   - `xt_traverse_tree` ignores what `filesystem_lstat` returns. For an
     entry removed between readdir and lstat, `stbuf` still holds the
     previous entry's stat.
   - TLC's trace: the first entry read is a file `f`, unlinked before the
     lstat. `stbuf` is still the root's, a directory, so `f` is taken for
     one. `xt_new_scan` fails to open it and returns NULL, and `xlist_add`
     dereferences it.
   - A directory removed between lstat and opendir, or one opendir refuses
     (`EACCES`, `EMFILE`), crashes the scanner the same way. When the stale
     stat is a file's, the removed entry is pushed with that file's inode.

11. **A create of a reused inode number is not held back**
   (`processor.c:297`).
   - `entry_valid_op` checks a create's or mkdir's parent, never its own
     object.
   - Take the journal create F, unlink F, create F, with F's inode number
     reused. The unlink parks behind the first create. The second create
     is taken at once and runs `entry_db_apply` on F alongside the first
     create, and before the unlink.
   - spec.md's create rule is the same. Its one-op-per-object promise
     (§5) therefore holds only if inode numbers are not reused within the
     journal window.
   - `CausalOrder` fails on this journal as well. It also fails on finding
     2's journal, and holds on every journal of `bookkeeping`.

**Not reachable from this repository's callers.** `rbthash_get` reads
`entry->data` after dropping the bucket lock (`rbthash.c:350`), and a
duplicate `rbthash_insert` leaks its entry while reporting success
(`rbthash.c:266`). `rbthash_remove` returns the entry to the pool after the
unlock (`rbthash.c:384`), and `mem_put` detects a second put only while the
chunk is still free (`mem.c:226`). The processor calls its tables only under
the stage mutex, inserts only after a miss, and puts back only what it
holds. None of these can happen there, so they are not listed as hazards.

## 6. Fairness

Workers, the reader and the main thread are OS threads. `Fairness` assumes
weak fairness of each worker's steps, of the reader and of `Cleanup`: a
thread that can run eventually runs.

The code gives no stronger guarantee. Strong fairness would not be justified,
because mutexes are not fair.

`Irods` assumes weak fairness of the worker's steps. It does not assume
that `rcReconnect` eventually succeeds: the fault budget ends the failures.
`Hunter` checks only safety.

Spurious wake-ups of `pl->cond` are not modelled. The wait sits in a loop
that rescans, so a spurious wake-up behaves like a failed scan.

## 7. Not modelled, and why

- **Slab pool and hash table inside `Processor`:** `Processor` keeps its
  tables as functions and its pools unbounded; composing `MemPool` and
  `RbtHash` into it is planned (§2). `mem_pool_destroy`,
  `rbthash_table_destroy` and the never-defined `rbthash_replace` are not
  modelled.
- **Plugin I/O:** the database rows are abstracted to "which op wrote
  them". Hard links (`nlink > 0` on unlink) and attribute contents are not
  modelled.
- **Ceph journal reading:** `Hunter` keeps only the outcomes of
  `ceph_connect_mds_journal` and `ceph_hold_journal_entry`. Entry release
  and the mount/readdir helpers are libcephfs calls with no control flow of
  their own.
- **The scanner tool's `main`, signal thread and plugin:** `main` parses
  options and the configuration; `xt_sigwaiter` only logs the signals it
  takes. The scanner plugin's stage functions insert the setattr row and
  put the entry back into its pools, the same stage layout `Processor`
  checks with the standard plugin.
- **Configuration parsing, logging, the plugin loaders and the Robinhood
  backend:** I/O and formatting with no shared state
  the pipeline depends on. spec.md puts bootstrap, signal handling and the
  backends outside its scope; `Hunter` models the part of them that
  decides shutdown.
- **`iRODS` `init`/`fini`/`entry_reclaim_log`:** they allocate the rods
  environment and release the journal entry, with no control of their own.
- **`thread-pool.c`:** nothing calls it, and it is broken:
  - `__tp_dequeue` takes the list head itself as a task
    (`xlist_entry(&ctrl->queue, ...)`), so tasks are lost and a garbage
    handler is called.
  - `tp_purge` moves entries while it iterates with the unsafe iterator, so
    it loops for ever under the mutex.
  - A worker in the timed wait ignores `exit_asked` until the timeout.
  A model would only restate these defects in code no build path runs.
- **Daemon restart:** the daemon keeps no state of its own across a restart.
  The journal entry release in stage 1 is the only persistence point, and it
  is listed as a hazard.
