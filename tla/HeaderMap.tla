------------------------------ MODULE HeaderMap ------------------------------
(***************************************************************************)
(* What a list of HTTP headers promises its caller: a map of at most       *)
(* MaxHeaders names to values.  A name already present can always be given *)
(* a new value; another one fails only when MaxHeaders names are present.  *)
(***************************************************************************)
EXTENDS Integers, FiniteSets

CONSTANTS
  Keys,       (* the names of headers *)
  Values,     (* the values they are given *)
  None,       (* no value *)
  MaxHeaders  (* how many names fit *)

VARIABLES
  map,      (* the value of each name, None without one *)
  result    (* what the last call returned *)

Present == {k \in Keys : map[k] # None}

Init ==
  /\ map = [k \in Keys |-> None]
  /\ result = <<"none">>

Set(k, v) ==
  /\ k \in Present \/ Cardinality(Present) < MaxHeaders
  /\ map' = [map EXCEPT ![k] = v]
  /\ result' = <<"set", TRUE>>

SetFails(k) ==
  /\ k \notin Present
  /\ Cardinality(Present) = MaxHeaders
  /\ result' = <<"set", FALSE>>
  /\ UNCHANGED map

Get(k) ==
  /\ result' = <<"value", map[k]>>
  /\ UNCHANGED map

Clear(k) ==
  /\ map' = [map EXCEPT ![k] = None]
  /\ result' = <<"clear", TRUE>>

(* Without a name there is nothing to return. *)
GetHeaders ==
  /\ result' = IF Present = {} THEN <<"none">> ELSE <<"names", Present>>
  /\ UNCHANGED map

Destroy ==
  /\ map' = [k \in Keys |-> None]
  /\ UNCHANGED result

Next ==
  \/ \E k \in Keys, v \in Values : Set(k, v)
  \/ \E k \in Keys : SetFails(k) \/ Get(k) \/ Clear(k)
  \/ GetHeaders
  \/ Destroy

Spec == Init /\ [][Next]_<<map, result>>
=============================================================================
