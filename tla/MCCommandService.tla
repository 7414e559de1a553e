-------------------------- MODULE MCCommandService --------------------------
(***************************************************************************)
(* CommandService on small instances.  Clients are model values told apart *)
(* by name only, and no request names one, so permuting them is sound for  *)
(* invariants and for properties of steps.                                 *)
(***************************************************************************)
EXTENDS CommandService, TLC

Symmetry == Permutations(Clients)

(* A kind of request and the lengths of its two texts; buffers of six bytes *)
(* hold five.                                                               *)
Ask(kind, dirs, unsupported, added) ==
  [kind : {kind}, dir : dirs,
   size : {[info |-> 2, unsupported |-> unsupported, queued |-> added]}]

OnlyInfo     == Ask("info", {NoDir}, 1, 1)
GoodAnywhere == Ask("good", Dirs \cup {NoDir}, 1, 3)

(* The first reply fits; the second is cut in its second text. *)
GoodOrMixed == Ask("good", Dirs, 1, 3) \cup Ask("mixed", Dirs, 2, 3)

(* The first reply fits; the second is full with its first text. *)
BadOrMixed == Ask("bad", {NoDir}, 3, 1) \cup Ask("mixed", {NoDir}, 5, 3)
=============================================================================
