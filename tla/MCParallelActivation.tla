------------------------- MODULE MCParallelActivation ------------------------
(* An updated APEX, and one with shared libraries in both versions.         *)
EXTENDS ParallelActivation, TLC

MCVersion == [a \in Apexes |-> IF a = "libsUpdate" THEN 2 ELSE 1]
=============================================================================
