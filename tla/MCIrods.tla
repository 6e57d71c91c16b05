------------------------------- MODULE MCIrods ------------------------------
(* One worker of the iRODS plugin applying mkdir D, create F in D, setattr *)
(* F, unlink F, rmdir D to a catalogue that holds only the root.           *)
EXTENDS Irods

CONSTANTS Root, D, F

Op(o, id, pid, dir) == [op |-> o, id |-> id, pid |-> pid, dir |-> dir]

MCJournal == <<Op("init", Root, Root, TRUE), Op("mkdir", D, Root, TRUE),
               Op("create", F, D, FALSE), Op("setattr", F, D, FALSE),
               Op("setattr", D, Root, TRUE), Op("unlink", F, D, FALSE),
               Op("rmdir", D, Root, TRUE)>>

MCCatalogue0 == {Root}
=============================================================================
