--------------------------- MODULE MCStagedInstall ---------------------------
(* Small instances of StagedInstall: two packages, up to two sessions.      *)
EXTENDS StagedInstallImplements, TLC

CONSTANTS s1, s2, pkgA, pkgB, t1, t2

Apex(p, v) == [pkg |-> p, ver |-> v]

MCPreVersion == [p \in Packages |-> 1]

(* Session s1 updates an updated package and one that never was; s2 takes   *)
(* the first package further.                                              *)
MCStaged == [s \in SessionIds |->
  IF s = s1 THEN {Apex(pkgA, 3)} \cup {Apex(p, 2) : p \in Packages \ {pkgA}}
            ELSE {Apex(pkgA, 4)}]
MCInitActive == {Apex(pkgA, 2)}
MCFlaky == {f \in Apexes : f.ver >= 3}

(* The threads of the binder pool are interchangeable.                      *)
MCSymmetry == Permutations({t1, t2})
=============================================================================
