-------------------------- MODULE MCCompressedApexes -------------------------
(* Images of a device before and after updates.                             *)
EXTENDS CompressedApexes, TLC

Apex(v, b, c) == [ver |-> v, build |-> b, compressed |-> c]
Missing == Apex(0, 1, FALSE)

(* Package p is raised beyond what sessions install, or is rebuilt;          *)
(* q, which they may install too, is compressed; libs provides shared        *)
(* libraries.                                                               *)
Image(p, q, libs) == ("p" :> p) @@ ("q" :> q) @@ ("libs" :> libs)
MCImages ==
  "old" :> Image(Apex(1, 1, TRUE), Apex(1, 1, FALSE), Apex(1, 1, FALSE)) @@
  "new" :> Image(Apex(3, 1, TRUE), Apex(1, 1, TRUE), Apex(2, 1, FALSE)) @@
  "rebuilt" :> Image(Apex(1, 2, TRUE), Apex(1, 1, TRUE), Missing)
=============================================================================
