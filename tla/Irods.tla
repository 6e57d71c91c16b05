------------------------------- MODULE Irods --------------------------------
(***************************************************************************)
(* The iRODS processor plugin (src/processor/irods/mh_irods.c): the        *)
(* STAGE_DB_APPLY callback entry_db_apply of one worker, applying the ops  *)
(* it is given one after another to the iRODS catalogue over the worker's  *)
(* connection (priv->conn, made by worker_init).                           *)
(*                                                                         *)
(* The catalogue is the set of object ids it holds.  A call's result is    *)
(* what the catalogue makes of it, or a connection failure (an error whose *)
(* errno part is EPIPE or EIO), whose iRODS part is either a socket error  *)
(* (USER_SOCK_CONNECT_ERR, USER_SOCK_OPEN_ERR) or another one.  Faults,    *)
(* both a dropped connection and a failed rcReconnect, are bounded by      *)
(* MaxFaults: after them the server answers and reconnects succeed.        *)
(***************************************************************************)
EXTENDS Naturals, Sequences

CONSTANTS
    Journal,        \* the ops given to this worker: [op, id, pid, dir]
    Catalogue0,     \* the ids the catalogue holds at the start
    MaxFaults       \* connection faults the environment may inject

VARIABLES
    i,              \* the op entry_db_apply is applying (Len+1: all done)
    pc,             \* "call" (at retry:) or "reconnect" (in the while (1) loop)
    irodsErr,       \* getIrodsErrno(ret) of the failed call: "sock" or "other"
    conn,           \* priv->conn: "up" or "broken"
    cat,            \* the ids in the iRODS catalogue
    faults,         \* faults injected so far
    failed,         \* ops whose entry_db_apply returned an error
    phase           \* the worker: "init" (in worker_init), "run", "gone"
                    \* (worker_init failed, the thread returned) or "fini"

vars == <<i, pc, irodsErr, conn, cat, faults, failed, phase>>

Init ==
    /\ i = 1
    /\ pc = "call"
    /\ irodsErr = "other"
    /\ conn = "none"
    /\ cat = Catalogue0
    /\ faults = 0
    /\ failed = {}
    /\ phase = "init"

\* worker_init, called by entry_proc_worker: rcConnect, XT_CALLOC of priv,
\* clientLogin.  On any failure it returns -1 and the worker thread returns
\* at once, without worker_fini; a failed login leaves priv allocated with
\* priv->conn disconnected.
WorkerInit ==
    /\ phase = "init"
    /\ \/ phase' = "run" /\ conn' = "up"
       \/ phase' = "gone" /\ UNCHANGED conn
    /\ UNCHANGED <<i, pc, irodsErr, cat, faults, failed>>

\* the catalogue's answer to the rc* call of op e: rcDataObjCreate,
\* rcCollCreate, rcUnregDataObj, rcRmColl or rcModDataObjMeta
Answer(e) ==
    CASE e.op \in {"create", "mkdir"} ->
              IF e.pid \notin cat THEN "unknown_coll"
              ELSE IF e.id \in cat THEN "name_exists" ELSE "ok"
      [] e.op = "unlink"  -> IF e.id \in cat THEN "ok" ELSE "unknown_file"
      [] e.op = "rmdir"   -> IF e.id \in cat THEN "ok" ELSE "unknown_coll"
      [] e.op = "setattr" -> IF e.id \in cat THEN "ok" ELSE "unknown_file"

\* the catalogue after a successful call
Applied(e) ==
    CASE e.op \in {"create", "mkdir"} -> cat \cup {e.id}
      [] e.op \in {"unlink", "rmdir"}  -> cat \ {e.id}
      [] OTHER                         -> cat

\* the errors the per-op switch turns into success (ret = 0)
Tolerated(e, r) ==
    \/ e.op = "unlink" /\ r = "unknown_file"
    \/ e.op = "rmdir" /\ r = "unknown_coll"
    \/ e.op \in {"create", "mkdir"} /\ r = "name_exists"

\* ops entry_db_apply returns from without a call: op_init (a label, not
\* a case, so it reaches default:), an op of no known kind, and setattr
\* of a directory
NoCall(e) == e.op \notin {"create", "mkdir", "unlink", "rmdir", "setattr"}
             \/ (e.op = "setattr" /\ e.dir)

\* entry_db_apply returns; the worker goes on with its next op
Return == /\ i' = i + 1 /\ pc' = "call"

\* from retry: to the end of the switch, then the error handling
Call ==
    /\ phase = "run" /\ pc = "call" /\ i <= Len(Journal)
    /\ LET e == Journal[i] IN
       \/ /\ NoCall(e)
          /\ Return
          /\ UNCHANGED <<irodsErr, conn, cat, faults, failed, phase>>
       \* the connection fails (or already has): EPIPE/EIO
       \/ /\ ~NoCall(e)
          /\ conn = "broken" \/ faults < MaxFaults
          /\ faults' = IF conn = "up" THEN faults + 1 ELSE faults
          /\ conn' = "broken"
          /\ irodsErr' \in {"sock", "other"}
          /\ pc' = "reconnect"
          /\ UNCHANGED <<i, cat, failed, phase>>
       \* the catalogue answers: success or a tolerated error returns,
       \* any other error goes back to retry:
       \/ /\ ~NoCall(e) /\ conn = "up"
          /\ LET r == Answer(e) IN
             IF r = "ok" \/ Tolerated(e, r)
             THEN /\ Return
                  /\ cat' = IF r = "ok" THEN Applied(e) ELSE cat
             ELSE UNCHANGED <<i, pc, cat>>
          /\ UNCHANGED <<irodsErr, conn, faults, failed, phase>>

\* one turn of the while (1) loop: rcReconnect, then leave the loop only if
\* the first error was not a socket error; back to retry: if the reconnect
\* succeeded, else entry_db_apply returns the error
Reconnect ==
    /\ pc = "reconnect"
    /\ \E ok \in IF faults < MaxFaults THEN {TRUE, FALSE} ELSE {TRUE} :
          /\ conn' = IF ok THEN "up" ELSE "broken"
          /\ faults' = IF ok THEN faults ELSE faults + 1
          /\ IF irodsErr = "sock"
             THEN UNCHANGED <<i, pc, failed>>
             ELSE IF ok THEN /\ pc' = "call" /\ UNCHANGED <<i, failed>>
                  ELSE /\ Return /\ failed' = failed \cup {i}
    /\ UNCHANGED <<irodsErr, cat, phase>>

\* pl->exiting: the worker leaves its loop and calls worker_fini, which
\* rcDisconnects priv->conn and frees priv
WorkerFini ==
    /\ phase = "run" /\ pc = "call" /\ i > Len(Journal)
    /\ phase' = "fini" /\ conn' = "none"
    /\ UNCHANGED <<i, pc, irodsErr, cat, faults, failed>>

\* the worker thread has returned
Done == phase \in {"gone", "fini"} /\ UNCHANGED vars

Next == WorkerInit \/ Call \/ Reconnect \/ WorkerFini \/ Done

\* the worker thread runs whenever it can: weak fairness of its steps
Spec == Init /\ [][Next]_vars /\ WF_vars(WorkerInit) /\ WF_vars(Call)
             /\ WF_vars(Reconnect) /\ WF_vars(WorkerFini)

-----------------------------------------------------------------------------
(* Properties. *)

TypeOK ==
    /\ i \in 1 .. Len(Journal) + 1
    /\ pc \in {"call", "reconnect"}
    /\ irodsErr \in {"sock", "other"}
    /\ conn \in {"none", "up", "broken"}
    /\ phase \in {"init", "run", "gone", "fini"}
    /\ faults \in 0 .. MaxFaults

(* Every call of entry_db_apply by a worker whose worker_init succeeded    *)
(* returns, so the worker gets to the next op: once the connection faults  *)
(* are over, a reconnect succeeds and the call is retried, whatever error  *)
(* the connection failure carried.                                         *)
ApplyReturns == \A n \in 1 .. Len(Journal) : (i = n /\ phase = "run") ~> i > n

=============================================================================
