------------------------- MODULE MCRebootlessInstall -------------------------
(* Instances of RebootlessInstall for TLC.                                  *)
EXTENDS RebootlessInstall, TLC

CONSTANTS p1, p2, t1, t2

MCPreVersion == [p \in Packages |-> 1]
(* p1 has had an update, p2 has not *)
MCInitFiles == {[pkg |-> p1, ver |-> 2, minor |-> 0]}

MCSymmetry == Permutations(Threads)
(* the failures whose effects on mounts and files InstallPackage undoes or outlives *)
Harmless == {"mount", "verify", "unload", "unmountActive", "link", "open", "unlinkOld",
             "unmountTemp", "load"}
(* those that the code does not make up for *)
Harmful == {"unmountId", "bind", "undo", "unlink", "cover", "write", "unlinkInactive"}
All == Harmless \cup Harmful
=============================================================================
