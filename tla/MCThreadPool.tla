---------------------------- MODULE MCThreadPool ----------------------------
(***************************************************************************)
(* ThreadPool on small instances: fewer workers than jobs, so that all can *)
(* be busy while work waits.                                               *)
(***************************************************************************)
EXTENDS ThreadPool
=============================================================================
