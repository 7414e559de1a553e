----------------------------- MODULE HttpHeaders -----------------------------
(***************************************************************************)
(* src/core/http-header.c: a list of headers is two arrays of MaxHeaders   *)
(* slots, one of names and one of values.  Names are compared without      *)
(* regard to case, so a key stands for all its spellings.  (A known name   *)
(* is a constant, any other a copy; the key alone says who frees it.)      *)
(***************************************************************************)
EXTENDS Integers, FiniteSets

CONSTANTS
  Keys,       (* the names of headers *)
  Values,     (* the values they are given *)
  None,       (* an empty slot *)
  MaxHeaders  (* HTTP_HEADER_MAX, the number of slots *)

ASSUME HeaderConstants ==
  /\ None \notin Keys
  /\ None \notin Values
  /\ MaxHeaders \in Nat

VARIABLES
  header,   (* the name in each slot *)
  value,    (* the value in each slot *)
  result,   (* what the last call returned *)
  cleared,  (* history: a name was cleared *)
  overrun   (* history: get_headers wrote behind the array it had allocated *)

list == <<header, value, result, cleared, overrun>>

Slots == 1..MaxHeaders
Used  == {i \in Slots : header[i] # None}
Free  == Slots \ Used
Matches(key) == {i \in Used : header[i] = key}

(* The slot a loop over all of them stops at, if there is one. *)
First(S) == {i \in S : \A j \in S : i <= j}

ListInit ==
  /\ header = [i \in Slots |-> None]
  /\ value = [i \in Slots |-> None]
  /\ result = <<"none">>
  /\ cleared = FALSE
  /\ overrun = FALSE
-----------------------------------------------------------------------------
(* Mutant: a name is added without looking for it. *)
SetValueBlind(key, val) ==
  /\ \E i \in First(Free) :
       /\ header' = [header EXCEPT ![i] = key]
       /\ value' = [value EXCEPT ![i] = val]
  /\ result' = <<"set", TRUE>>
  /\ UNCHANGED <<cleared, overrun>>

(* Mutant: a new name goes to any free slot. *)
SetValueAnywhere(key, val) ==
  /\ \E i \in IF Matches(key) # {} THEN First(Matches(key)) ELSE Free :
       /\ header' = [header EXCEPT ![i] = key]
       /\ value' = [value EXCEPT ![i] = val]
  /\ result' = <<"set", TRUE>>
  /\ UNCHANGED <<cleared, overrun>>

(* http_header_list_set_value: the slot that has the name, or the first    *)
(* free one, ...                                                           *)
SetValue(key, val) ==
  /\ \E i \in IF Matches(key) # {} THEN First(Matches(key)) ELSE First(Free) :
       /\ header' = [header EXCEPT ![i] = key]
       /\ value' = [value EXCEPT ![i] = val]
  /\ result' = <<"set", TRUE>>
  /\ UNCHANGED <<cleared, overrun>>

(* ... or none.                                                            *)
SetValueFails(key) ==
  /\ Matches(key) = {} /\ Free = {}
  /\ result' = <<"set", FALSE>>
  /\ UNCHANGED <<header, value, cleared, overrun>>

GetValue(key) ==
  /\ \/ \E i \in First(Matches(key)) : result' = <<"value", value[i]>>
     \/ Matches(key) = {} /\ result' = <<"value", None>>
  /\ UNCHANGED <<header, value, cleared, overrun>>

(* http_header_list_get_headers: an array for as many names as there are,  *)
(* in which each name goes to the place its slot has in the list.          *)
GetHeaders ==
  /\ result' = IF Used = {} THEN <<"none">> ELSE <<"names", {header[i] : i \in Used}>>
  /\ overrun' = (overrun \/ \E i \in Used : i > Cardinality(Used))
  /\ UNCHANGED <<header, value, cleared>>

ClearValue(key) ==
  /\ header' = [i \in Slots |-> IF i \in Matches(key) THEN None ELSE header[i]]
  /\ value' = [i \in Slots |-> IF i \in Matches(key) THEN None ELSE value[i]]
  /\ result' = <<"clear", TRUE>>
  /\ cleared' = (cleared \/ Matches(key) # {})
  /\ UNCHANGED overrun

ListDestroy ==
  /\ header' = [i \in Slots |-> None]
  /\ value' = [i \in Slots |-> None]
  /\ UNCHANGED <<result, cleared, overrun>>

ListNext ==
  \/ \E key \in Keys, val \in Values : SetValue(key, val)
  \/ \E key \in Keys : SetValueFails(key) \/ GetValue(key) \/ ClearValue(key)
  \/ GetHeaders
-----------------------------------------------------------------------------
(* The two arrays, read as the map they stand for. *)
Stored == [k \in Keys |->
             IF Matches(k) = {} THEN None ELSE value[CHOOSE i \in Matches(k) : TRUE]]

Map == INSTANCE HeaderMap WITH map <- Stored

(* The slots implement a map of MaxHeaders names at most: none takes two   *)
(* slots, and setting one fails only when every slot has another.          *)
ImplementsHeaderMap == Map!Spec

(* As long as no name was cleared, get_headers stays inside its array: the *)
(* names then fill the slots from the first on.  (After a clear it may     *)
(* not, but nothing in the program clears.)                                *)
NamesFit == overrun => cleared

(* What both follow from.                                                  *)
ListInv ==
  /\ header \in [Slots -> Keys \cup {None}]
  /\ value \in [Slots -> Values \cup {None}]
  /\ cleared \in BOOLEAN /\ overrun \in BOOLEAN
  /\ \A i \in Slots : header[i] = None <=> value[i] = None
  /\ \A i, j \in Used : header[i] = header[j] => i = j
  /\ ~cleared => \A i \in Used, j \in Slots : j < i => j \in Used
  /\ NamesFit
=============================================================================
