--------------------------- MODULE MCDataSnapshots ---------------------------
(* Small instances of DataSnapshots: an update and its rollback.            *)
EXTENDS DataSnapshots

CONSTANTS s1, s2

MCRollbackId == [s \in SessionIds |-> 1]
MCIsRollback == [s \in SessionIds |-> s = s2]
MCVersionOf == [s \in SessionIds |-> IF s = s2 THEN 1 ELSE 2]
=============================================================================
