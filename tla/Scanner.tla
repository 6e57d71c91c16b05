------------------------------ MODULE Scanner --------------------------------
(***************************************************************************)
(* The scanner tool (src/scanner/scanner.c): xt_start_scanner and the      *)
(* depth-first walk xt_traverse_tree, which queues one op_setattr journal  *)
(* entry per file system entry into the pipeline.  The scan_list is a      *)
(* sequence with its head first (xlist_add puts a new directory at the     *)
(* head, and the loop always continues with scan_list.next).               *)
(*                                                                         *)
(* The file system is a fixed tree (Parent, Dirs) of which entries may be  *)
(* removed while the scan runs, at most MaxRemovals of them: the scanner   *)
(* walks a live file system.  An inode's attributes are abstracted to the  *)
(* inode itself and whether it is a directory; the pipeline, modelled in   *)
(* Processor, is abstracted to the sequence of entries pushed into it.     *)
(***************************************************************************)
EXTENDS Integers, Sequences, FiniteSets, Xlist

CONSTANTS
    Nodes,          \* the inodes of the tree, Root included
    Root,
    Parent,         \* [Nodes \ {Root} -> Dirs]: the directory holding an entry
    Dirs,           \* the directories
    Dots,           \* the "." and ".." entries readdir also returns
    MaxRemovals     \* entries the environment may unlink or rmdir meanwhile

ASSUME /\ Root \in Dirs /\ Dirs \subseteq Nodes
       /\ Parent \in [Nodes \ {Root} -> Dirs]
       /\ Dots \cap Nodes = {}

VARIABLES
    phase,          \* xt_start_scanner: "start", "scan", "cleanup", "exited", "crashed"
    fs,             \* the entries present in the file system
    scanList,       \* scan_list: <<[dir, id, left]>>, the open directories
    stbuf,          \* the struct stat of the last successful filesystem_lstat
    dent,           \* the entry readdir returned, being handled
    step,           \* where the loop is: "readdir", "lstat" or "opendir"
    queued,         \* the journal entries pushed by queue_log_entry
    removals,       \* entries removed so far
    ret             \* xt_start_scanner's return value

vars == <<phase, fs, scanList, stbuf, dent, step, queued, removals, ret>>

Children(d) == {n \in Nodes \ {Root} : Parent[n] = d}

\* stat2id and the S_ISDIR bit of a struct stat filled in for inode n
Stat(n) == [id |-> n, dir |-> n \in Dirs]

\* xt_new_scan: filesystem_opendir of the path fails (and xt_new_scan
\* returns NULL) when the path no longer names a directory
OpenDirFails(n) == n \notin fs

\* the scan_dir xt_new_scan returns otherwise: its readdir handle will
\* return the directory's entries present now and the dot entries
XtNewScan(n, st) == [dir |-> n, id |-> st.id, left |-> (Children(n) \cap fs) \cup Dots]

\* mattr_new: the entry's attributes, its parentid copied from the scan_dir
MattrNew(pid, st) == [id |-> st.id, pid |-> pid]

\* queue_log_entry: entry_proc_get and entry_proc_push (the pipeline)
QueueLogEntry(name, attr) ==
    queued' = Append(queued, [name |-> name, id |-> attr.id, pid |-> attr.pid])

Init ==
    /\ phase = "start"
    /\ fs = Nodes
    /\ scanList = <<>>
    /\ stbuf = Stat(Root)
    /\ dent = Root
    /\ step = "readdir"
    /\ queued = <<>>
    /\ removals = 0
    /\ ret = 0

\* xt_start_scanner up to xt_traverse_tree: filesystem_mount (failure
\* returns -1 at once), database_init and processor_init (failure jumps to
\* err:, i.e. to processor_cleanup), the two entry pools; then the start of
\* xt_traverse_tree: lstat of "/" and the root's scan_dir at the list head
StartScanner ==
    /\ phase = "start"
    /\ \/ phase' = "exited" /\ ret' = -1 /\ UNCHANGED <<scanList, stbuf>>
       \/ phase' = "cleanup" /\ ret' = -1 /\ UNCHANGED <<scanList, stbuf>>
       \/ /\ phase' = "scan" /\ ret' = 0
          /\ stbuf' = Stat(Root)
          /\ scanList' = <<XtNewScan(Root, Stat(Root))>>
    /\ UNCHANGED <<fs, dent, step, queued, removals>>

\* next: leave the loop when scan_list is empty, else go on with its head
NextScan(sl) == IF XlistEmpty(sl) THEN phase' = "cleanup" ELSE UNCHANGED phase

\* filesystem_readdir on the head's handle: NULL closes the directory
\* (xt_del_scan); "." and ".." are skipped; any other entry is handled
ReadDir ==
    /\ phase = "scan" /\ step = "readdir"
    /\ LET s == Head(scanList) IN
       \/ /\ s.left = {}
          /\ scanList' = XlistDel(scanList, s)
          /\ NextScan(XlistDel(scanList, s))
          /\ UNCHANGED <<dent, step>>
       \/ \E d \in s.left :
          /\ scanList' = [scanList EXCEPT ![1].left = @ \ {d}]
          /\ IF d \in Dots THEN UNCHANGED <<dent, step>>
             ELSE dent' = d /\ step' = "lstat"
          /\ UNCHANGED phase
    /\ UNCHANGED <<fs, stbuf, queued, removals, ret>>

\* filesystem_lstat of the entry's path, its result ignored: when the entry
\* is gone stbuf keeps the previous entry's attributes.  The journal entry
\* takes its attributes from stbuf; a non-directory is pushed at once.
Lstat ==
    /\ phase = "scan" /\ step = "lstat"
    /\ LET st == IF dent \in fs THEN Stat(dent) ELSE stbuf
       IN /\ stbuf' = st
          /\ IF st.dir THEN step' = "opendir" /\ UNCHANGED queued
             ELSE /\ QueueLogEntry(dent, MattrNew(Head(scanList).id, st))
                  /\ step' = "readdir"
    /\ UNCHANGED <<phase, fs, scanList, dent, removals, ret>>

\* a directory: xt_new_scan and xlist_add at the head of scan_list, which
\* dereferences a NULL scan_dir when opendir failed; then the push and
\* next:, which continues with the new directory
OpenDir ==
    /\ phase = "scan" /\ step = "opendir"
    /\ IF OpenDirFails(dent)
       THEN phase' = "crashed" /\ UNCHANGED <<scanList, queued, step>>
       ELSE /\ QueueLogEntry(dent, MattrNew(Head(scanList).id, stbuf))
            /\ scanList' = XlistAdd(scanList, XtNewScan(dent, stbuf))
            /\ step' = "readdir"
            /\ UNCHANGED phase
    /\ UNCHANGED <<fs, stbuf, dent, removals, ret>>

\* err: processor_cleanup (which joins the workers once they have drained
\* the pipeline) and mem_pool_destroy of the entry and attribute pools
Cleanup ==
    /\ phase = "cleanup"
    /\ phase' = "exited"
    /\ UNCHANGED <<fs, scanList, stbuf, dent, step, queued, removals, ret>>

\* another process unlinks a file or removes an empty directory
Remove ==
    /\ removals < MaxRemovals
    /\ \E n \in fs \ {Root} :
          /\ Children(n) \cap fs = {}
          /\ fs' = fs \ {n}
    /\ removals' = removals + 1
    /\ UNCHANGED <<phase, scanList, stbuf, dent, step, queued, ret>>

\* the tool has returned, normally or not
Stopped == phase \in {"exited", "crashed"} /\ UNCHANGED vars

Next == StartScanner \/ ReadDir \/ Lstat \/ OpenDir \/ Cleanup \/ Remove \/ Stopped

Spec == Init /\ [][Next]_vars

-----------------------------------------------------------------------------
(* Properties. *)

(* The scan is sound: the scanner never dereferences the NULL scan_dir of *)
(* a failed opendir, and every op_setattr it pushes carries the           *)
(* attributes of the entry it names and, as parent, the id of the         *)
(* directory that held it, which database_insert then stores under that   *)
(* name.                                                                   *)
ScanSound ==
    /\ phase # "crashed"
    /\ \A k \in 1 .. Len(queued) :
          queued[k].id = queued[k].name /\ queued[k].pid = Parent[queued[k].name]

=============================================================================
