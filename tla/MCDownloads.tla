----------------------------- MODULE MCDownloads -----------------------------
(***************************************************************************)
(* Downloads on a few jobs that all end in the same name, as URIs with     *)
(* equal last parts do.                                                    *)
(***************************************************************************)
EXTENDS Downloads

CONSTANTS j1, j2, j3, fa

OneName     == [j \in Jobs |-> fa]
FirstLonger == [j \in Jobs |-> IF j = j1 THEN 2 ELSE 1]
OneBuffer   == [j \in Jobs |-> 1]
=============================================================================
