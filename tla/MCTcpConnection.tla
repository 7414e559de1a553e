--------------------------- MODULE MCTcpConnection ---------------------------
(***************************************************************************)
(* TcpConnection for hosts of up to three addresses: one that accepts may  *)
(* be first, last, in between or missing.                                  *)
(***************************************************************************)
EXTENDS TcpConnection
=============================================================================
