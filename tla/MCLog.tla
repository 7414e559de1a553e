------------------------------- MODULE MCLog -------------------------------
(***************************************************************************)
(* Log with three threads, one of which opens the file, and lines long     *)
(* enough to fill it with two.                                             *)
(***************************************************************************)
EXTENDS Log
=============================================================================
