------------------------------- MODULE Hunter -------------------------------
(***************************************************************************)
(* Start-up and shutdown of the daemon (src/hunter/hunter.c): the main     *)
(* thread (main, xt_log_reader_start), the signal thread (xt_sigwaiter,    *)
(* xt_log_reader_terminate) and the log reader thread (log_reader_thr).    *)
(*                                                                         *)
(* The pipeline is abstracted to what start-up and shutdown do to it:      *)
(* processor_init succeeds, or fails before or after it allocated the      *)
(* stage array; processor_cleanup tests pl->stages, joins the workers and  *)
(* releases the stage tables and pools.  The journal is abstracted to the  *)
(* outcome of each filesystem_hold_jentry.  What a thread releases is      *)
(* counted in `released`, so that a second release is visible.             *)
(***************************************************************************)
EXTENDS Naturals

CONSTANTS
    InitMayFail,    \* filesystem_init, database_init, processor_init and
                    \* pthread_create may fail
    MaxEntries,     \* journal entries the reader may hold
    MaxSignals      \* SIGTERMs the environment may send

\* what shutdown releases: the reader thread (by pthread_join), and the
\* processor's stage array and mem pools
Res == {"reader", "stages", "pools"}

VARIABLES
    alive,          \* the process has not exited
    mainPc,         \* the main thread's place in main/xt_log_reader_start
    sigPc,          \* the signal thread's place; "none" before it is created
    readerPc,       \* the reader thread's place; "none" before it is created
    stages,         \* pl->stages: "null", "live" or "freed" (0xeeeeeeee)
    released,       \* released[r]: how often r has been released
    forceStop,      \* info->force_stop
    signals,        \* SIGTERMs delivered so far
    held            \* journal entries the reader has held and queued

vars == <<alive, mainPc, sigPc, readerPc, stages, released, forceStop, signals, held>>

\* after xt_parse_config: the plugins are loaded, nothing is initialised
Init ==
    /\ alive = TRUE
    /\ mainPc = "signals"
    /\ sigPc = "none"
    /\ readerPc = "none"
    /\ stages = "null"
    /\ released = [r \in Res |-> 0]
    /\ forceStop = FALSE
    /\ signals = 0
    /\ held = 0

\* the process exits (exit(1), or main returning): every thread stops
Exit == alive' = FALSE

Outcomes == IF InitMayFail THEN {TRUE, FALSE} ELSE {TRUE}

\* processor_cleanup returns at once when pl->stages is NULL
CleanupProceeds == stages # "null"

\* processor_cleanup past its test: join the workers, XT_FREE pl->workers,
\* pl->fini, destroy every stage's table, XT_FREE pl->stages and set it to
\* NULL, destroy the three pools
CleanupRelease ==
    /\ released' = [r \in Res |-> IF r = "reader" THEN released[r] ELSE released[r] + 1]
    /\ stages' = "null"

-----------------------------------------------------------------------------
(* The main thread.  filesystem_fini on its err path is not an action:   *)
(* ceph_terminate_journal_read does nothing, so it changes no state.      *)

\* xt_signals_setup: block SIGTERM/SIGUSR1 and create the signal thread;
\* main exits if that fails
SignalsSetup ==
    /\ alive /\ mainPc = "signals"
    /\ \E ok \in Outcomes :
          IF ok THEN /\ sigPc' = "wait" /\ mainPc' = "fs_init" /\ UNCHANGED alive
                ELSE /\ Exit /\ UNCHANGED <<sigPc, mainPc>>
    /\ UNCHANGED <<readerPc, stages, released, forceStop, signals, held>>

\* filesystem_init; on failure xt_log_reader_start returns and main exits
FsInit ==
    /\ alive /\ mainPc = "fs_init"
    /\ \E ok \in Outcomes :
          IF ok THEN /\ mainPc' = "db_init" /\ UNCHANGED alive
                ELSE /\ Exit /\ UNCHANGED mainPc
    /\ UNCHANGED <<sigPc, readerPc, stages, released, forceStop, signals, held>>

\* database_init; on failure goto err, which skips filesystem_fini
\* (processor->info is still NULL) and calls processor_cleanup
DbInit ==
    /\ alive /\ mainPc = "db_init"
    /\ \E ok \in Outcomes : mainPc' = IF ok THEN "proc_init" ELSE "cleanup"
    /\ UNCHANGED <<alive, sigPc, readerPc, stages, released, forceStop, signals, held>>

\* processor_init: success; a failure before pl->stages is allocated (its
\* err path destroys the pools made so far and leaves pl->stages NULL); or
\* a failure after it (the err path destroys the pools and XT_FREEs
\* pl->stages, which leaves the poison value 0xeeeeeeee in it, not NULL)
ProcInit ==
    /\ alive /\ mainPc = "proc_init"
    /\ \/ /\ stages' = "live" /\ mainPc' = "create_reader"
          /\ UNCHANGED released
       \/ /\ InitMayFail /\ mainPc' = "cleanup"
          /\ UNCHANGED <<stages, released>>
       \/ /\ InitMayFail /\ mainPc' = "cleanup"
          /\ stages' = "freed"
          /\ released' = [released EXCEPT !["stages"] = @ + 1, !["pools"] = @ + 1]
    /\ UNCHANGED <<alive, sigPc, readerPc, forceStop, signals, held>>

\* pthread_create of log_reader_thr; on failure goto err
CreateReader ==
    /\ alive /\ mainPc = "create_reader"
    /\ \E ok \in Outcomes :
          IF ok THEN /\ readerPc' = "root" /\ mainPc' = "join"
                ELSE /\ mainPc' = "cleanup" /\ UNCHANGED readerPc
    /\ UNCHANGED <<alive, sigPc, stages, released, forceStop, signals, held>>

\* xt_log_reader_wait: pthread_join of the reader
MainJoin ==
    /\ alive /\ mainPc = "join"
    /\ readerPc = "exited"
    /\ released' = [released EXCEPT !["reader"] = @ + 1]
    /\ mainPc' = "cleanup"
    /\ UNCHANGED <<alive, sigPc, readerPc, stages, forceStop, signals, held>>

\* processor_cleanup, its test of pl->stages
MainCleanup ==
    /\ alive /\ mainPc = "cleanup"
    /\ mainPc' = IF CleanupProceeds THEN "release" ELSE "return"
    /\ UNCHANGED <<alive, sigPc, readerPc, stages, released, forceStop, signals, held>>

\* processor_cleanup, the rest of it
MainRelease ==
    /\ alive /\ mainPc = "release"
    /\ CleanupRelease
    /\ mainPc' = "return"
    /\ UNCHANGED <<alive, sigPc, readerPc, forceStop, signals, held>>

\* xt_log_reader_start returns; main returns 0 or calls exit(1)
MainReturn ==
    /\ alive /\ mainPc = "return"
    /\ Exit
    /\ UNCHANGED <<mainPc, sigPc, readerPc, stages, released, forceStop, signals, held>>

Main == SignalsSetup \/ FsInit \/ DbInit \/ ProcInit \/ CreateReader \/ MainJoin
        \/ MainCleanup \/ MainRelease \/ MainReturn

-----------------------------------------------------------------------------
(* The signal thread: xt_sigwaiter and xt_log_reader_terminate. *)

\* sigwait returns SIGTERM (or SIGINT)
SigTerm ==
    /\ alive /\ sigPc = "wait"
    /\ signals < MaxSignals
    /\ signals' = signals + 1
    /\ sigPc' = "stop"
    /\ UNCHANGED <<alive, mainPc, readerPc, stages, released, forceStop, held>>

\* filesystem_fini (no effect), then info->force_stop = 1
SigStop ==
    /\ alive /\ sigPc = "stop"
    /\ forceStop' = TRUE
    /\ sigPc' = "join"
    /\ UNCHANGED <<alive, mainPc, readerPc, stages, released, signals, held>>

\* xt_log_reader_wait: pthread_join(info->thr_id).  Before the reader was
\* created thr_id is 0 and the join is undefined: it crashes the process
\* or fails.  While the main thread is already joining the live reader a
\* second join is undefined as well: it may wait for the reader, or (as
\* glibc does) fail at once with EINVAL, the error ignored.
SigJoin ==
    /\ alive /\ sigPc = "join"
    /\ \/ /\ readerPc = "exited"
          /\ released' = [released EXCEPT !["reader"] = @ + 1]
          /\ sigPc' = "cleanup"
          /\ UNCHANGED alive
       \/ /\ readerPc \notin {"none", "exited"} /\ mainPc = "join"
          /\ sigPc' = "cleanup"
          /\ UNCHANGED <<alive, released>>
       \/ /\ readerPc = "none"
          /\ \/ Exit /\ UNCHANGED sigPc
             \/ sigPc' = "cleanup" /\ UNCHANGED alive
          /\ UNCHANGED released
    /\ UNCHANGED <<mainPc, readerPc, stages, forceStop, signals, held>>

\* processor_cleanup, its test of pl->stages
SigCleanup ==
    /\ alive /\ sigPc = "cleanup"
    /\ sigPc' = IF CleanupProceeds THEN "release" ELSE "wait"
    /\ UNCHANGED <<alive, mainPc, readerPc, stages, released, forceStop, signals, held>>

\* processor_cleanup, the rest of it; then back to sigwait
SigRelease ==
    /\ alive /\ sigPc = "release"
    /\ CleanupRelease
    /\ sigPc' = "wait"
    /\ UNCHANGED <<alive, mainPc, readerPc, forceStop, signals, held>>

SigWaiter == SigTerm \/ SigStop \/ SigJoin \/ SigCleanup \/ SigRelease

-----------------------------------------------------------------------------
(* The reader thread: log_reader_thr. *)

\* queue_log_entry of the root's op_init entry
ReaderRoot ==
    /\ alive /\ readerPc = "root"
    /\ readerPc' = "loop"
    /\ UNCHANGED <<alive, mainPc, sigPc, stages, released, forceStop, signals, held>>

\* the loop test: force_stop ends the thread
ReaderStop ==
    /\ alive /\ readerPc = "loop" /\ forceStop
    /\ readerPc' = "exited"
    /\ UNCHANGED <<alive, mainPc, sigPc, stages, released, forceStop, signals, held>>

\* filesystem_hold_jentry (ceph_hold_journal_entry) returns an entry, which
\* queue_log_entry queues
ReaderHold ==
    /\ alive /\ readerPc = "loop" /\ ~forceStop
    /\ held < MaxEntries
    /\ held' = held + 1
    /\ UNCHANGED <<alive, mainPc, sigPc, readerPc, stages, released, forceStop, signals>>

\* ceph_mh_hold_journal_entry fails at the journal end (or the MDS stops):
\* ceph_hold_journal_entry sleeps 120 s and returns the error, and the
\* reader leaves its loop on any nonzero return
ReaderEnd ==
    /\ alive /\ readerPc = "loop" /\ ~forceStop
    /\ readerPc' = "exited"
    /\ UNCHANGED <<alive, mainPc, sigPc, stages, released, forceStop, signals, held>>

Reader == ReaderRoot \/ ReaderStop \/ ReaderHold \/ ReaderEnd

\* the process has exited
Terminated == ~alive /\ UNCHANGED vars

Next == Main \/ SigWaiter \/ Reader \/ Terminated

Spec == Init /\ [][Next]_vars

-----------------------------------------------------------------------------
(* Properties. *)

TypeOK ==
    /\ alive \in BOOLEAN
    /\ stages \in {"null", "live", "freed"}
    /\ released \in [Res -> Nat]
    /\ forceStop \in BOOLEAN
    /\ signals \in 0 .. MaxSignals
    /\ held \in 0 .. MaxEntries

(* Shutdown releases everything once: the reader thread is joined at most *)
(* once, and processor_cleanup frees the stage array and destroys the pools *)
(* at most once, whether the main thread, the signal thread or the         *)
(* processor_init error path gets there first.                             *)
ReleaseOnce == \A r \in Res : released[r] <= 1

=============================================================================
