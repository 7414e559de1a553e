----------------------------- MODULE HttpProofs -----------------------------
(***************************************************************************)
(* The properties of HttpHeaders and Http for any number of slots, any     *)
(* lengths of texts and any size of the buffer.                            *)
(***************************************************************************)
EXTENDS Http, FiniteSetTheorems, TLAPS

(* The abstract map counts as the list does.                               *)
LEMMA SameCount == \A S : Map!Cardinality(S) = Cardinality(S)
  BY DEF Map!Cardinality, Cardinality

(* There are finitely many slots, and used ones are fewer than all as long *)
(* as one is free.                                                         *)
LEMMA SlotsFinite ==
  /\ IsFiniteSet(Slots) /\ Cardinality(Slots) = MaxHeaders
  /\ IsFiniteSet(Used) /\ Cardinality(Used) \in Nat /\ Cardinality(Used) <= MaxHeaders
  /\ Free # {} => Cardinality(Used) < MaxHeaders
  /\ Free = {} => Used = Slots
  <1>1. IsFiniteSet(Slots) /\ Cardinality(Slots) = MaxHeaders
      BY HeaderConstants, FS_Interval DEF Slots
  <1>2. Used \in SUBSET Slots
      BY DEF Used
  <1>3. /\ IsFiniteSet(Used) /\ Cardinality(Used) <= MaxHeaders
        /\ Cardinality(Used) = MaxHeaders => Used = Slots
      BY <1>1, <1>2, FS_Subset
  <1>4. Cardinality(Used) \in Nat
      BY <1>3, FS_CardinalityType
  <1>5. Free = {} <=> Used = Slots
      BY <1>2 DEF Free
  <1> QED
      BY <1>1, <1>3, <1>4, <1>5, HeaderConstants

(* What the arrays stand for: each used slot is the value of its name.     *)
LEMMA StoredValues ==
  ASSUME ListInv
  PROVE  /\ \A i \in Used : /\ header[i] \in Keys /\ value[i] \in Values
                            /\ Matches(header[i]) = {i}
                            /\ Stored[header[i]] = value[i]
         /\ \A k \in Keys : Matches(k) = {} => Stored[k] = None
         /\ \A k \in Keys : Matches(k) # {} => \E i \in Used : header[i] = k
         /\ Map!Present = {header[i] : i \in Used}
  <1>1. ASSUME NEW i \in Used
        PROVE  /\ header[i] \in Keys /\ value[i] \in Values
               /\ Matches(header[i]) = {i}
    <2>1. i \in Slots /\ header[i] # None /\ value[i] # None
        BY DEF Used, ListInv
    <2>2. header[i] \in Keys /\ value[i] \in Values
        BY <2>1 DEF ListInv
    <2>3. Matches(header[i]) = {i}
        BY DEF Matches, ListInv
    <2> QED
        BY <2>2, <2>3
  <1>2. ASSUME NEW i \in Used PROVE Stored[header[i]] = value[i]
    <2>1. (CHOOSE j \in Matches(header[i]) : TRUE) = i
        BY <1>1
    <2> QED
        BY <1>1, <2>1 DEF Stored
  <1>3. \A k \in Keys : Matches(k) = {} => Stored[k] = None
      BY DEF Stored
  <1>4. \A k \in Keys : Matches(k) # {} => \E i \in Used : header[i] = k
      BY DEF Matches
  <1>5. \A k \in Keys : k \in Map!Present <=> \E i \in Used : header[i] = k
      BY <1>1, <1>2, <1>3, <1>4, HeaderConstants DEF Map!Present
  <1>6. Map!Present = {header[i] : i \in Used}
      BY <1>1, <1>5 DEF Map!Present
  <1> QED
      BY <1>1, <1>2, <1>3, <1>4, <1>6

(* As many names are present as slots are used.                            *)
LEMMA PresentCount ==
  ASSUME ListInv
  PROVE  Cardinality(Map!Present) = Cardinality(Used)
  <1> DEFINE f == [i \in Used |-> header[i]]
  <1>1. f \in Bijection(Used, Map!Present)
    <2>1. f \in [Used -> Map!Present]
        BY StoredValues
    <2>2. \A i, j \in Used : f[i] = f[j] => i = j
        BY DEF ListInv
    <2>3. \A k \in Map!Present : \E i \in Used : f[i] = k
        BY StoredValues
    <2> QED
        BY <2>1, <2>2, <2>3 DEF Bijection, Injection, Surjection, IsInjective
  <1>2. ExistsBijection(Used, Map!Present)
      BY <1>1 DEF ExistsBijection
  <1> QED
      BY <1>2, SlotsFinite, FS_Bijection

(* A value is put into one slot, whose name is nowhere else.               *)
LEMMA SetSlot ==
  ASSUME ListInv, NEW key \in Keys, NEW val \in Values, NEW i \in Slots,
         header' = [header EXCEPT ![i] = key],
         value' = [value EXCEPT ![i] = val],
         \A j \in Used : header[j] = key => j = i,
         i \in Used => header[i] = key,
         i \in Used \/ \A j \in Slots : j < i => j \in Used,
         UNCHANGED <<cleared, overrun>>
  PROVE  /\ ListInv'
         /\ Stored' = [Stored EXCEPT ![key] = val]
  <1>1. /\ header' \in [Slots -> Keys \cup {None}] /\ value' \in [Slots -> Values \cup {None}]
        /\ header'[i] = key /\ value'[i] = val
        /\ \A j \in Slots : j # i => header'[j] = header[j] /\ value'[j] = value[j]
        /\ key # None /\ val # None
      BY HeaderConstants DEF ListInv
  <1>2. Used' = Used \cup {i}
      BY <1>1 DEF Used
  <1>3. \A j, k \in Used' : header'[j] = header'[k] => j = k
      BY <1>1, <1>2 DEF ListInv, Used
  <1>4. ~cleared => \A j \in Used', k \in Slots : k < j => k \in Used'
      BY <1>2 DEF ListInv
  <1>5. ListInv'
    <2>1. \A j \in Slots : header'[j] = None <=> value'[j] = None
        BY <1>1 DEF ListInv
    <2>2. /\ cleared' \in BOOLEAN /\ overrun' \in BOOLEAN /\ NamesFit'
        BY DEF ListInv, NamesFit
    <2> QED
        BY <1>1, <1>3, <1>4, <2>1, <2>2 DEF ListInv
  <1>6. ASSUME NEW k \in Keys PROVE Stored'[k] = [Stored EXCEPT ![key] = val][k]
    <2>1. CASE k = key
      <3>1. Matches(key)' = {i}
          BY <1>1, <1>2, <1>3 DEF Matches
      <3>2. Stored'[key] = value'[i]
          BY <3>1 DEF Stored
      <3> QED
          BY <1>1, <2>1, <3>2 DEF Stored
    <2>2. CASE k # key
      <3>1. Matches(k)' = Matches(k)
          BY <1>1, <1>2, <2>2 DEF Matches, Used
      <3>2. \A j \in Matches(k) : value'[j] = value[j]
          BY <1>1, <2>2 DEF Matches, Used
      <3>3. Stored'[k] = Stored[k]
          BY <3>1, <3>2 DEF Stored
      <3> QED
          BY <2>2, <3>3 DEF Stored
    <2> QED
        BY <2>1, <2>2
  <1>7. Stored' = [k \in Keys |-> Stored'[k]] /\ DOMAIN Stored = Keys
      BY DEF Stored
  <1> QED
      BY <1>5, <1>6, <1>7

(* The map stays when the arrays do. *)
LEMMA StoredStays ==
  ASSUME header' = header, value' = value
  PROVE  Used' = Used /\ (\A k : Matches(k)' = Matches(k)) /\ Stored' = Stored
  <1>1. Used' = Used /\ \A k : Matches(k)' = Matches(k)
      BY DEF Used, Matches
  <1>2. ASSUME NEW k \in Keys PROVE Stored'[k] = Stored[k]
    <2>1. Matches(k)' = Matches(k)
        BY <1>1
    <2> QED
        BY <2>1 DEF Stored
  <1>3. Stored' = [k \in Keys |-> Stored'[k]] /\ Stored = [k \in Keys |-> Stored[k]]
      BY DEF Stored
  <1> QED
      BY <1>1, <1>2, <1>3

(* Nothing but the answer of a call changes. *)
LEMMA ListStays ==
  ASSUME ListInv, UNCHANGED <<header, value, cleared, overrun>>
  PROVE  ListInv' /\ Stored' = Stored
  BY StoredStays DEF ListInv, NamesFit

(* http_header_list_set_value is Set ... *)
LEMMA SetValueStep ==
  ASSUME ListInv, NEW key \in Keys, NEW val \in Values, SetValue(key, val)
  PROVE  ListInv' /\ Map!Set(key, val)
  <1>1. PICK i \in IF Matches(key) # {} THEN First(Matches(key)) ELSE First(Free) :
          /\ header' = [header EXCEPT ![i] = key]
          /\ value' = [value EXCEPT ![i] = val]
      BY DEF SetValue
  <1>2. result' = <<"set", TRUE>> /\ UNCHANGED <<cleared, overrun>>
      BY DEF SetValue
  <1>3. CASE Matches(key) # {}
    <2>1. i \in Slots /\ i \in Used /\ header[i] = key
        BY <1>1, <1>3 DEF First, Matches, Used
    <2>2. \A j \in Used : header[j] = key => j = i
        BY <2>1 DEF ListInv
    <2>3. ListInv' /\ Stored' = [Stored EXCEPT ![key] = val]
        BY <1>1, <1>2, <2>1, <2>2, SetSlot
    <2>4. key \in Map!Present
        BY <2>1, StoredValues
    <2> QED
        BY <1>2, <2>3, <2>4 DEF Map!Set
  <1>4. CASE Matches(key) = {}
    <2>1. i \in Free /\ (\A j \in Free : i <= j)
        BY <1>1, <1>4 DEF First
    <2>2. i \in Slots /\ i \notin Used /\ Free # {}
        BY <2>1 DEF Free
    <2>3. \A j \in Slots : j < i => j \in Used
        BY <2>1, <2>2, HeaderConstants DEF Free, Slots
    <2>4. \A j \in Used : header[j] # key
        BY <1>4 DEF Matches
    <2>5. ListInv' /\ Stored' = [Stored EXCEPT ![key] = val]
        BY <1>1, <1>2, <2>2, <2>3, <2>4, SetSlot
    <2>6. Cardinality(Map!Present) < MaxHeaders
        BY <2>2, SlotsFinite, PresentCount
    <2> QED
        BY <1>2, <2>5, <2>6, SameCount DEF Map!Set
  <1> QED
      BY <1>3, <1>4

(* ... or SetFails, only with every slot taken. *)
LEMMA SetValueFailsStep ==
  ASSUME ListInv, NEW key \in Keys, SetValueFails(key)
  PROVE  ListInv' /\ Map!SetFails(key)
  <1>1. ListInv' /\ Stored' = Stored
      BY ListStays DEF SetValueFails
  <1>2. key \notin Map!Present
    <2>1. Stored[key] = None
        BY StoredValues DEF SetValueFails
    <2> QED
        BY <2>1 DEF Map!Present
  <1>3. Cardinality(Map!Present) = MaxHeaders
      BY SlotsFinite, PresentCount DEF SetValueFails
  <1> QED
      BY <1>1, <1>2, <1>3, SameCount DEF Map!SetFails, SetValueFails

LEMMA GetValueStep ==
  ASSUME ListInv, NEW key \in Keys, GetValue(key)
  PROVE  ListInv' /\ Map!Get(key)
  <1>1. ListInv' /\ Stored' = Stored
      BY ListStays DEF GetValue
  <1>2. result' = <<"value", Stored[key]>>
    <2>1. ASSUME NEW i \in First(Matches(key)) PROVE Stored[key] = value[i]
        BY <2>1, StoredValues DEF First, Matches
    <2>2. Matches(key) = {} => Stored[key] = None
        BY StoredValues
    <2> QED
        BY <2>1, <2>2 DEF GetValue
  <1> QED
      BY <1>1, <1>2 DEF Map!Get

(* As long as no name was cleared the used slots are the first ones.       *)
LEMMA GetHeadersStep ==
  ASSUME ListInv, GetHeaders
  PROVE  ListInv' /\ Map!GetHeaders
  <1>1. header' = header /\ value' = value /\ cleared' = cleared
      BY DEF GetHeaders
  <1>2. ASSUME ~cleared, NEW i \in Used PROVE i <= Cardinality(Used)
    <2>1. i \in Nat /\ i >= 1 /\ i \in Slots
        BY HeaderConstants DEF Used, Slots
    <2>2. (1..i) \in SUBSET Used
        BY <1>2, <2>1, HeaderConstants DEF ListInv, Slots
    <2>3. Cardinality(1..i) <= Cardinality(Used)
        BY <2>2, SlotsFinite, FS_Subset
    <2>4. Cardinality(1..i) = i
        BY <2>1, FS_Interval
    <2> QED
        BY <2>3, <2>4
  <1>3. NamesFit' /\ overrun' \in BOOLEAN
    <2>1. ~cleared => ~(\E i \in Used : i > Cardinality(Used))
      <3> SUFFICES ASSUME ~cleared, NEW i \in Used, i > Cardinality(Used) PROVE FALSE
          OBVIOUS
      <3>1. i \in Int /\ Cardinality(Used) \in Int
          BY SlotsFinite DEF Used, Slots
      <3> QED
          BY <1>2, <3>1
    <2>2. ListInv => (overrun => cleared) /\ overrun \in BOOLEAN /\ cleared \in BOOLEAN
        BY DEF ListInv, NamesFit
    <2>3. (overrun' = (overrun \/ \E i \in Used : i > Cardinality(Used))) /\ cleared' = cleared
        BY DEF GetHeaders
    <2> QED
        BY <2>1, <2>2, <2>3, Zenon DEF NamesFit
  <1>4. Used' = Used /\ Stored' = Stored
      BY <1>1, StoredStays
  <1>6. ListInv'
      BY <1>1, <1>3, <1>4 DEF ListInv
  <1>7. (Used = {} <=> Map!Present = {}) /\ Map!Present = {header[i] : i \in Used}
      BY StoredValues
  <1>8. result' = IF Map!Present = {} THEN <<"none">> ELSE <<"names", Map!Present>>
      BY <1>7 DEF GetHeaders
  <1> QED
      BY <1>4, <1>6, <1>8 DEF Map!GetHeaders

(* http_header_clear_value empties the one slot of its name.               *)
LEMMA ClearValueStep ==
  ASSUME ListInv, NEW key \in Keys, ClearValue(key)
  PROVE  ListInv' /\ Map!Clear(key)
  <1>1. /\ header' = [i \in Slots |-> IF i \in Matches(key) THEN None ELSE header[i]]
        /\ value' = [i \in Slots |-> IF i \in Matches(key) THEN None ELSE value[i]]
        /\ result' = <<"clear", TRUE>>
        /\ overrun' = overrun
      BY DEF ClearValue
  <1>2. cleared' = (cleared \/ Matches(key) # {})
      BY DEF ClearValue
  <1>3. Used' = Used \ Matches(key)
      BY <1>1 DEF Used, Matches
  <1>4. ListInv'
    <2>1. cleared' \in BOOLEAN /\ overrun' \in BOOLEAN /\ NamesFit'
      <3>1. overrun \in BOOLEAN /\ cleared \in BOOLEAN /\ (overrun => cleared)
          BY DEF ListInv, NamesFit
      <3> QED
          BY <1>1, <1>2, <3>1, Zenon DEF NamesFit
    <2>2. /\ header' \in [Slots -> Keys \cup {None}]
          /\ value' \in [Slots -> Values \cup {None}]
          /\ \A i \in Slots : header'[i] = None <=> value'[i] = None
        BY <1>1 DEF ListInv
    <2>3. \A i, j \in Used' : header'[i] = header'[j] => i = j
        BY <1>1, <1>3 DEF ListInv, Used
    <2>4. ~cleared' => \A i \in Used', j \in Slots : j < i => j \in Used'
      <3> SUFFICES ASSUME ~cleared' PROVE \A i \in Used', j \in Slots : j < i => j \in Used'
          OBVIOUS
      <3>1. ~cleared /\ Matches(key) = {}
        <4>1. cleared \in BOOLEAN
            BY DEF ListInv
        <4> QED
            BY <1>2, <4>1, Zenon
      <3> QED
          BY <1>3, <3>1 DEF ListInv
    <2> QED
        BY <2>1, <2>2, <2>3, <2>4 DEF ListInv
  <1>5. ASSUME NEW k \in Keys PROVE Stored'[k] = [Stored EXCEPT ![key] = None][k]
    <2>1. CASE k = key
      <3>1. \A i \in Used' : header'[i] # key
        <4>1. ASSUME NEW i \in Used' PROVE header'[i] = header[i] /\ header[i] # key
            BY <1>1, <1>3 DEF Matches, Used
        <4> QED
            BY <4>1
      <3>2. Matches(key)' = {}
          BY <3>1 DEF Matches
      <3>3. Stored'[key] = None
          BY <3>2 DEF Stored
      <3> QED
          BY <2>1, <3>3 DEF Stored
    <2>2. CASE k # key
      <3>1. Matches(k)' = Matches(k)
          BY <1>1, <1>3, <2>2 DEF Matches, Used
      <3>2. \A j \in Matches(k) : value'[j] = value[j]
          BY <1>1, <2>2 DEF Matches, Used
      <3>3. Stored'[k] = Stored[k]
          BY <3>1, <3>2 DEF Stored
      <3> QED
          BY <2>2, <3>3 DEF Stored
    <2> QED
        BY <2>1, <2>2
  <1>6. Stored' = [k \in Keys |-> Stored'[k]] /\ DOMAIN Stored = Keys
      BY DEF Stored
  <1>7. Stored' = [Stored EXCEPT ![key] = None]
      BY <1>5, <1>6
  <1> QED
      BY <1>1, <1>4, <1>7 DEF Map!Clear

(* Every operation of the list is one of the map.                          *)
LEMMA ListStep ==
  ASSUME ListInv, ListNext
  PROVE  ListInv' /\ Map!Next
  <1>1. ASSUME NEW key \in Keys, NEW val \in Values, SetValue(key, val)
        PROVE  ListInv' /\ Map!Next
      BY <1>1, SetValueStep DEF Map!Next
  <1>2. ASSUME NEW key \in Keys, SetValueFails(key) \/ GetValue(key) \/ ClearValue(key)
        PROVE  ListInv' /\ Map!Next
      BY <1>2, SetValueFailsStep, GetValueStep, ClearValueStep DEF Map!Next
  <1>3. CASE GetHeaders
      BY <1>3, GetHeadersStep DEF Map!Next
  <1> QED
      BY <1>1, <1>2, <1>3 DEF ListNext

(* A list that is destroyed, or new, holds nothing.                        *)
LEMMA DestroyStep ==
  ASSUME ListInv, ListDestroy
  PROVE  ListInv' /\ Map!Next
  <1>1. /\ header' = [i \in Slots |-> None] /\ value' = [i \in Slots |-> None]
        /\ result' = result /\ cleared' = cleared /\ overrun' = overrun
      BY DEF ListDestroy
  <1>2. Used' = {} /\ \A k \in Keys : Matches(k)' = {}
      BY <1>1 DEF Used, Matches
  <1>3. Stored' = [k \in Keys |-> None]
      BY <1>2 DEF Stored
  <1>4. ListInv'
      BY <1>1, <1>2 DEF ListInv, NamesFit
  <1> QED
      BY <1>1, <1>3, <1>4 DEF Map!Next, Map!Destroy

LEMMA ListStart == ListInit => ListInv /\ Map!Init
  <1> SUFFICES ASSUME ListInit PROVE ListInv /\ Map!Init
      OBVIOUS
  <1>1. Used = {} /\ \A k \in Keys : Matches(k) = {}
      BY DEF ListInit, Used, Matches
  <1>2. Stored = [k \in Keys |-> None]
      BY <1>1 DEF Stored
  <1>3. ListInv
      BY <1>1 DEF ListInit, ListInv, NamesFit
  <1> QED
      BY <1>2, <1>3 DEF ListInit, Map!Init
-----------------------------------------------------------------------------
(* Two times the length that k bytes need.                                 *)
Need(k) == 2 * BufInit + BufStep * (k * (k + 1))

(* One byte more needs k + 1 steps more, and what k bytes need is more     *)
(* than ten behind the next byte: the buffer grows with every byte.        *)
LEMMA NeedGrows ==
  ASSUME NEW k \in Nat
  PROVE  /\ Need(k) \in Nat
         /\ Need(k + 1) = Need(k) + 2 * ((k + 1) * BufStep)
         /\ Need(k) > 2 * (k + 11)
  <1> DEFINE p == k * (k + 1)
  <1>1. /\ p \in Nat
        /\ (k + 1) * ((k + 1) + 1) = p + 2 * (k + 1)
        /\ p + 2 >= 2 * k
    <2>1. p = k * k + k
        OBVIOUS
    <2>2. k = 0 \/ k = 1 \/ k * k >= 2 * k
        OBVIOUS
    <2>3. k * k \in Nat
        OBVIOUS
    <2> QED
        BY <2>1, <2>2, <2>3
  <1> HIDE DEF p
  <1>2. BufStep * p \in Nat /\ BufStep * p >= p
    <2>1. BufStep \in Nat /\ BufStep >= 1
        BY HttpConstants
    <2> QED
        BY <1>1, <2>1
  <1>3. BufStep * (p + 2 * (k + 1)) = BufStep * p + 2 * ((k + 1) * BufStep)
      BY <1>1, HttpConstants
  <1>4. 2 * BufInit \in Nat /\ 2 * BufInit >= 24
      BY HttpConstants
  <1>5. Need(k) = 2 * BufInit + BufStep * p
      BY DEF Need, p
  <1>6. Need(k + 1) = 2 * BufInit + BufStep * (p + 2 * (k + 1))
      BY <1>1 DEF Need
  <1> QED
      BY <1>1, <1>2, <1>3, <1>4, <1>5, <1>6, HttpConstants

(* The buffer of the answer: one step for each byte kept.                  *)
AnswerInv ==
  /\ buf \in Seq(Bytes)
  /\ bufLen \in Nat /\ step \in Nat
  /\ phase # "aborted" => step = Len(buf) + 1 /\ 2 * bufLen = Need(Len(buf))
  /\ phase = "aborted" => Need(Len(buf)) > 2 * MaxInt

(* The last byte kept is the last one read that is no '\r'.                *)
LastKept ==
  \/ buf = <<>> /\ \A k \in 1..Len(seen) : seen[k] = "cr"
  \/ buf # <<>> /\ \E m \in 1..Len(seen) :
       /\ seen[m] = buf[Len(buf)] /\ seen[m] # "cr"
       /\ \A k \in (m + 1)..Len(seen) : seen[k] = "cr"

(* The bytes read: what was kept of them, and where an empty line is.      *)
SeenInv ==
  /\ seen \in Seq(Bytes)
  /\ phase \in {"new", "list", "lines", "connect"} => seen = <<>> /\ buf = <<>>
  /\ phase = "header" => LastKept
  /\ HeaderEndsRight

(* The string of the request: a line is added only if twelve are left, and *)
(* what is in the string are the lines of the slots passed.                *)
Passed == {i \in Printed : i < slot}
RequestInv ==
  /\ slot \in Nat \ {0} /\ path \in Nat
  /\ phase = "lines" => reqLen >= 1024 /\ reqCur = path + 15 + Cardinality(Text(Passed))
  /\ ShortIsSent
  /\ phase = "lines" => reqCur \in Nat /\ reqLen \in Nat /\ reqCur + 12 <= reqLen
  /\ phase \in {"connect", "header"} => reqCur \in Nat /\ reqLen \in Nat /\ reqCur <= reqLen

HttpInv == ListInv /\ AnswerInv /\ SeenInv /\ RequestInv

LEMMA AnswerStays ==
  ASSUME AnswerInv, UNCHANGED <<buf, bufLen, step>>, phase # "aborted", phase' # "aborted"
  PROVE  AnswerInv'
  BY DEF AnswerInv, Need

LEMMA KeepByteStep ==
  ASSUME AnswerInv, NEW b \in Bytes, KeepByte(b)
  PROVE  AnswerInv'
  <1> DEFINE k == Len(buf)
  <1>1. /\ phase = "header" /\ buf \in Seq(Bytes) /\ k \in Nat
        /\ bufLen \in Nat /\ step = k + 1 /\ 2 * bufLen = Need(k)
      BY DEF KeepByte, Reads, AnswerInv
  <1>2. buf' \in Seq(Bytes) /\ Len(buf') = k + 1
      BY <1>1 DEF KeepByte
  <1>3. /\ Need(k) \in Nat /\ Need(k) > 2 * (k + 11)
        /\ Need(k + 1) = Need(k) + 2 * (step * BufStep)
      BY <1>1, NeedGrows
  <1>4. step * BufStep \in Nat
      BY <1>1, HttpConstants
  <1>5. Grows(k + 1)
      BY <1>1, <1>3 DEF Grows
  <1>6. NewLength \in Nat /\ 2 * NewLength = Need(k + 1)
      BY <1>1, <1>3, <1>4 DEF NewLength
  <1> HIDE DEF k
  <1>7. CASE NewLength <= MaxInt /\ bufLen' = NewLength /\ step' = step + 1 /\ phase' = phase
      BY <1>1, <1>2, <1>6, <1>7 DEF AnswerInv, Need
  <1>8. CASE NewLength > MaxInt /\ phase' = "aborted" /\ bufLen' = bufLen /\ step' = step
      BY <1>1, <1>2, <1>6, <1>8, HttpConstants DEF AnswerInv, Need
  <1> QED
      BY <1>5, <1>7, <1>8 DEF KeepByte, k

(* The slots that become a line have a length.                             *)
LEMMA LineLengthType ==
  ASSUME ListInv, NEW i \in Printed
  PROVE  LineLength(i) \in Nat
  <1>1. header[i] \in Keys /\ value[i] \in Values
      BY DEF Printed, Used, ListInv
  <1> QED
      BY <1>1, HttpConstants DEF LineLength

(* A byte is read that is no line end behind a line end: no empty line.    *)
LEMMA NoEmptyLine ==
  ASSUME SeenInv, phase = "header", NEW b \in Bytes, ~Ends(b),
         seen' = Append(seen, b), buf \in Seq(Bytes)
  PROVE  \A n \in 1..Len(seen') : ~EmptyLine(n)'
  <1>0. PICK L \in Nat : L = Len(seen)
      BY DEF SeenInv
  <1>1. /\ L \in Nat /\ L = Len(seen) /\ Len(seen') = L + 1 /\ seen'[L + 1] = b
        /\ \A k \in 1..L : seen'[k] = seen[k]
      BY <1>0 DEF SeenInv
  <1>2. LastKept /\ \A n \in 1..L : ~EmptyLine(n)
      BY <1>0 DEF SeenInv, HeaderEndsRight
  <1>3. ASSUME NEW n \in 1..L PROVE ~EmptyLine(n)'
    <2>1. \A k \in 1..n : seen'[k] = seen[k]
        BY <1>1
    <2> QED
        BY <1>1, <1>2, <2>1 DEF EmptyLine
  <1>4. ~EmptyLine(L + 1)'
    <2> SUFFICES ASSUME b = "nl", NEW m \in 1..L, seen[m] = "nl",
                        \A k \in (m + 1)..L : seen[k] = "cr"
                 PROVE  FALSE
        BY <1>1 DEF EmptyLine
    <2>1. PICK j \in 1..L : /\ seen[j] = buf[Len(buf)] /\ seen[j] # "cr" /\ buf # <<>>
                            /\ \A k \in (j + 1)..L : seen[k] = "cr"
        BY <1>1, <1>2 DEF LastKept
    <2>2. ~(m < j) /\ ~(j < m)
        BY <1>1, <2>1
    <2>3. m = j
        BY <1>1, <2>2
    <2> QED
        BY <2>1, <2>3 DEF Ends
  <1> QED
      BY <1>1, <1>3, <1>4

(* A '\r' leaves the last byte kept where it is ...                        *)
LEMMA SkipReturnSeen ==
  ASSUME SeenInv, AnswerInv, NEW b \in Bytes, SkipReturn(b)
  PROVE  SeenInv'
  <1>0. PICK L \in Nat : L = Len(seen)
      BY DEF SeenInv
  <1>1. /\ phase = "header" /\ phase' = "header" /\ b = "cr" /\ buf' = buf
        /\ seen' = Append(seen, b) /\ seen \in Seq(Bytes) /\ buf \in Seq(Bytes) /\ LastKept
      BY DEF SkipReturn, Reads, SeenInv, AnswerInv
  <1>2. /\ L \in Nat /\ L = Len(seen) /\ seen' \in Seq(Bytes) /\ Len(seen') = L + 1 /\ seen'[L + 1] = "cr"
        /\ \A k \in 1..L : seen'[k] = seen[k]
      BY <1>0, <1>1
  <1>3. \A n \in 1..Len(seen') : ~EmptyLine(n)'
      BY <1>1, NoEmptyLine DEF Ends
  <1>4. LastKept'
    <2>1. CASE buf = <<>> /\ \A k \in 1..L : seen[k] = "cr"
        BY <1>1, <1>2, <2>1 DEF LastKept
    <2>2. CASE buf # <<>> /\ \E m \in 1..L : /\ seen[m] = buf[Len(buf)] /\ seen[m] # "cr"
                                            /\ \A k \in (m + 1)..L : seen[k] = "cr"
      <3>1. PICK m \in 1..L : /\ seen[m] = buf[Len(buf)] /\ seen[m] # "cr"
                              /\ \A k \in (m + 1)..L : seen[k] = "cr"
          BY <2>2
      <3>2. m \in 1..Len(seen') /\ seen'[m] = seen[m]
          BY <1>2
      <3>3. \A k \in (m + 1)..Len(seen') : seen'[k] = "cr"
          BY <1>2, <3>1
      <3> QED
          BY <1>1, <2>2, <3>1, <3>2, <3>3 DEF LastKept
    <2> QED
        BY <1>0, <1>1, <2>1, <2>2 DEF LastKept
  <1> QED
      BY <1>1, <1>2, <1>3, <1>4 DEF SeenInv, HeaderEndsRight

(* ... a byte that is kept becomes it ...                                  *)
LEMMA KeepByteSeen ==
  ASSUME SeenInv, AnswerInv, NEW b \in Bytes, KeepByte(b)
  PROVE  SeenInv'
  <1>0. PICK L \in Nat : L = Len(seen)
      BY DEF SeenInv
  <1>1. /\ phase = "header" /\ phase' \in {"header", "aborted"} /\ b # "cr" /\ ~Ends(b)
        /\ buf' = Append(buf, b) /\ buf \in Seq(Bytes)
        /\ seen' = Append(seen, b) /\ seen \in Seq(Bytes)
      BY DEF KeepByte, Reads, Kept, SeenInv, AnswerInv
  <1>2. /\ L \in Nat /\ L = Len(seen) /\ seen' \in Seq(Bytes) /\ Len(seen') = L + 1 /\ seen'[L + 1] = b
        /\ buf' # <<>> /\ buf'[Len(buf')] = b
      BY <1>0, <1>1
  <1>3. \A n \in 1..Len(seen') : ~EmptyLine(n)'
      BY <1>1, NoEmptyLine
  <1>4. LastKept'
      BY <1>1, <1>2 DEF LastKept
  <1> QED
      BY <1>1, <1>2, <1>3, <1>4 DEF SeenInv, HeaderEndsRight

(* ... and a line end behind it ends the header.                           *)
LEMMA EndHeaderSeen ==
  ASSUME SeenInv, NEW b \in Bytes, EndHeader(b)
  PROVE  SeenInv'
  <1>0. PICK L \in Nat : L = Len(seen)
      BY DEF SeenInv
  <1>1. /\ phase = "header" /\ phase' = "body" /\ b = "nl" /\ buf # <<>> /\ buf[Len(buf)] = "nl"
        /\ seen' = Append(seen, b) /\ seen \in Seq(Bytes) /\ LastKept
      BY DEF EndHeader, Reads, Ends, SeenInv
  <1>2. /\ L \in Nat /\ L = Len(seen) /\ seen' \in Seq(Bytes) /\ Len(seen') = L + 1 /\ seen'[L + 1] = "nl"
        /\ \A k \in 1..L : seen'[k] = seen[k]
      BY <1>0, <1>1
  <1>3. PICK m \in 1..L : seen[m] = "nl" /\ \A k \in (m + 1)..L : seen[k] = "cr"
      BY <1>0, <1>1 DEF LastKept
  <1>4. \A n \in 1..L : ~EmptyLine(n)
      BY <1>0, <1>1 DEF SeenInv, HeaderEndsRight
  <1>5. EmptyLine(L + 1)'
    <2>1. m \in 1..((L + 1) - 1) /\ seen'[m] = "nl" /\ \A k \in (m + 1)..((L + 1) - 1) : seen'[k] = "cr"
        BY <1>2, <1>3
    <2> QED
        BY <1>2, <2>1 DEF EmptyLine
  <1>6. ASSUME NEW n \in 1..L PROVE ~EmptyLine(n)'
    <2>1. \A k \in 1..n : seen'[k] = seen[k]
        BY <1>2
    <2> QED
        BY <1>2, <1>4, <2>1 DEF EmptyLine
  <1>7. \A n \in 1..Len(seen') : EmptyLine(n)' <=> n = Len(seen')
      BY <1>2, <1>5, <1>6
  <1> QED
      BY <1>1, <1>2, <1>7 DEF SeenInv, HeaderEndsRight
-----------------------------------------------------------------------------
LEMMA LengthFinite ==
  \A n \in Nat : IsFiniteSet(1..n) /\ Cardinality(1..n) = n
  BY FS_Interval

(* The text of some lines is finite, and one more line adds its length.    *)
LEMMA TextFinite ==
  ASSUME ListInv, NEW S \in SUBSET Printed
  PROVE  IsFiniteSet(Text(S)) /\ Cardinality(Text(S)) \in Nat
  <1> DEFINE T == {{i} \X (1..LineLength(i)) : i \in S}
             f == [i \in S |-> {i} \X (1..LineLength(i))]
  <1>1. IsFiniteSet(S)
    <2>1. S \in SUBSET Slots
        BY DEF Printed, Used
    <2> QED
        BY <2>1, SlotsFinite, FS_Subset
  <1>2. f \in Surjection(S, T)
    <2>1. f \in [S -> T] /\ \A t \in T : \E i \in S : f[i] = t
        OBVIOUS
    <2> QED
        BY <2>1 DEF Surjection
  <1>3. IsFiniteSet(T)
      BY <1>1, <1>2, FS_Surjection
  <1>4. ASSUME NEW t \in T PROVE IsFiniteSet(t)
    <2>1. PICK i \in S : t = {i} \X (1..LineLength(i))
        OBVIOUS
    <2>2. LineLength(i) \in Nat
        BY LineLengthType
    <2>3. IsFiniteSet({i}) /\ IsFiniteSet(1..LineLength(i))
        BY <2>2, LengthFinite, FS_Singleton
    <2> QED
        BY <2>1, <2>3, FS_Product
  <1>5. IsFiniteSet(UNION T)
      BY <1>3, <1>4, FS_UNION
  <1> QED
      BY <1>5, FS_CardinalityType DEF Text

LEMMA TextGrows ==
  ASSUME ListInv, NEW S \in SUBSET Printed, NEW i \in Printed, i \notin S
  PROVE  Cardinality(Text(S \cup {i})) = Cardinality(Text(S)) + LineLength(i)
  <1> DEFINE A == Text(S)
             B == {i} \X (1..LineLength(i))
  <1>1. IsFiniteSet(A) /\ Cardinality(A) \in Nat
      BY TextFinite
  <1>2. LineLength(i) \in Nat
      BY LineLengthType
  <1>3. IsFiniteSet(B) /\ Cardinality(B) = LineLength(i)
    <2>1. /\ IsFiniteSet({i}) /\ Cardinality({i}) = 1
          /\ IsFiniteSet(1..LineLength(i)) /\ Cardinality(1..LineLength(i)) = LineLength(i)
        BY <1>2, LengthFinite, FS_Singleton
    <2>2. IsFiniteSet(B) /\ Cardinality(B) = 1 * LineLength(i)
        BY <2>1, FS_Product
    <2> QED
        BY <1>2, <2>2
  <1>4. A \cap B = {}
      BY DEF Text
  <1>5. Text(S \cup {i}) = A \cup B
      BY DEF Text
  <1>6. Cardinality(A \cap B) = 0
      BY <1>4, FS_EmptySet
  <1> HIDE DEF A, B
  <1>7. Cardinality(A \cup B) = Cardinality(A) + Cardinality(B) - 0
      BY <1>1, <1>3, <1>6, FS_Union
  <1>8. Cardinality(Text(S \cup {i})) = Cardinality(A) + LineLength(i)
    <2>1. Cardinality(Text(S \cup {i})) = Cardinality(A \cup B)
        BY <1>5
    <2> QED
        BY <1>1, <1>2, <1>3, <1>7, <2>1
  <1> QED
      BY <1>8 DEF A

(* Lines stay when the list does.                                          *)
LEMMA LinesStay ==
  ASSUME UNCHANGED list
  PROVE  /\ Printed' = Printed
         /\ \A S : Text(S)' = Text(S)
  <1>1. header' = header /\ value' = value
      BY DEF list
  <1>2. Used' = Used /\ \A i : LineLength(i)' = LineLength(i)
      BY <1>1 DEF Used, LineLength
  <1> QED
      BY <1>1, <1>2 DEF Printed, Text

(* A slot that is passed adds its line, if it has one.                     *)
LEMMA PassedGrows ==
  ASSUME UNCHANGED list, slot \in Nat, slot' = slot + 1
  PROVE  Passed' = IF slot \in Printed THEN Passed \cup {slot} ELSE Passed
  <1>1. Printed' = Printed /\ \A i \in Printed : i \in Int
      BY LinesStay DEF Printed, Used, Slots
  <1>2. \A i \in Printed : i < slot' <=> i < slot \/ i = slot
      BY <1>1
  <1>3. Passed' = {i \in Printed : i < slot'}
      BY <1>1 DEF Passed
  <1> QED
      BY <1>1, <1>2, <1>3 DEF Passed

LEMMA InvInit == Init => HttpInv /\ Map!Init
  <1> SUFFICES ASSUME Init PROVE HttpInv /\ Map!Init
      OBVIOUS
  <1>1. ListInv /\ Map!Init
      BY ListStart DEF Init
  <1>2. /\ buf = <<>> /\ bufLen = BufInit /\ step = 1 /\ seen = <<>>
        /\ slot = 1 /\ path = 0 /\ phase = "new"
      BY DEF Init
  <1>3. Need(0) = 2 * BufInit
    <2>1. BufStep * (0 * (0 + 1)) = 0
        BY HttpConstants
    <2> QED
        BY <2>1, HttpConstants DEF Need
  <1>4. AnswerInv
    <2>1. buf \in Seq(Bytes) /\ Len(buf) = 0
        BY <1>2
    <2> QED
        BY <1>2, <1>3, <2>1, HttpConstants DEF AnswerInv
  <1>5. RequestInv
      BY <1>2 DEF RequestInv, ShortIsSent
  <1>6. SeenInv
      BY <1>2 DEF SeenInv, HeaderEndsRight
  <1> QED
      BY <1>1, <1>4, <1>5, <1>6 DEF HttpInv

(* A step of the exchange is one of the list, or leaves the list alone.    *)
LEMMA ListPart ==
  ASSUME HttpInv, [Next]_vars
  PROVE  ListInv' /\ [Map!Next]_<<Stored, result>>
  <1>1. ListInv
      BY DEF HttpInv
  <1>2. ASSUME UNCHANGED list PROVE ListInv' /\ [Map!Next]_<<Stored, result>>
    <2>1. UNCHANGED <<header, value, cleared, overrun>> /\ result' = result
        BY <1>2 DEF list
    <2> QED
        BY <1>1, <2>1, ListStays
  <1>3. CASE SetDefault
    <2>1. slot \in 1..Len(Names) /\ Names[slot] \in Keys
        BY <1>3, HttpConstants DEF SetDefault, HttpInv, RequestInv
    <2>2. ASSUME NEW val \in IF slot = 1 THEN Hosts ELSE {Fixed}, SetValue(Names[slot], val)
          PROVE  ListInv' /\ Map!Next
      <3>1. val \in Values
          BY HttpConstants
      <3> QED
          BY <1>1, <2>1, <2>2, <3>1, SetValueStep DEF Map!Next
    <2>3. ASSUME SetValueFails(Names[slot]) PROVE ListInv' /\ Map!Next
        BY <1>1, <2>1, <2>3, SetValueFailsStep DEF Map!Next
    <2> QED
        BY <1>3, <2>2, <2>3 DEF SetDefault
  <1>4. CASE UseList
      BY <1>1, <1>4, ListStep DEF UseList
  <1>5. CASE DestroyRequest
      BY <1>1, <1>5, DestroyStep DEF DestroyRequest
  <1>6. ASSUME NEW n \in Paths, StartRequest(n) PROVE UNCHANGED list
      BY <1>6 DEF StartRequest
  <1>7. CASE SkipLine \/ AddLine \/ RefuseLine \/ EndRequest \/ SendRequest \/ CutHeader
      BY <1>2, <1>7 DEF SkipLine, AddLine, RefuseLine, EndRequest, SendRequest, CutHeader
  <1>8. ASSUME NEW b \in Bytes, SkipReturn(b) \/ EndHeader(b) \/ KeepByte(b)
        PROVE  UNCHANGED list
      BY <1>8 DEF SkipReturn, EndHeader, KeepByte
  <1>9. CASE UNCHANGED vars
      BY <1>2, <1>9 DEF vars
  <1> QED
      BY <1>2, <1>3, <1>4, <1>5, <1>6, <1>7, <1>8, <1>9 DEF Next

(* The buffer changes with a byte that is kept, and only then.             *)
LEMMA AnswerPart ==
  ASSUME HttpInv, [Next]_vars
  PROVE  AnswerInv'
  <1>1. AnswerInv
      BY DEF HttpInv
  <1>2. ASSUME UNCHANGED <<buf, bufLen, step>>, phase # "aborted", phase' # "aborted"
        PROVE  AnswerInv'
      BY <1>1, <1>2, AnswerStays
  <1>3. CASE SetDefault \/ UseList \/ DestroyRequest
      BY <1>2, <1>3 DEF SetDefault, UseList, DestroyRequest, answer
  <1>4. ASSUME NEW n \in Paths, StartRequest(n) PROVE AnswerInv'
      BY <1>2, <1>4 DEF StartRequest, answer
  <1>5. CASE SkipLine \/ AddLine \/ RefuseLine \/ EndRequest \/ SendRequest \/ CutHeader
      BY <1>2, <1>5 DEF SkipLine, AddLine, RefuseLine, EndRequest, SendRequest, CutHeader, answer
  <1>6. ASSUME NEW b \in Bytes, SkipReturn(b) \/ EndHeader(b) PROVE AnswerInv'
      BY <1>2, <1>6 DEF SkipReturn, EndHeader, Reads
  <1>7. ASSUME NEW b \in Bytes, KeepByte(b) PROVE AnswerInv'
      BY <1>1, <1>7, KeepByteStep
  <1>8. CASE UNCHANGED vars
      BY <1>1, <1>8 DEF vars, answer, AnswerInv, Need
  <1> QED
      BY <1>3, <1>4, <1>5, <1>6, <1>7, <1>8 DEF Next

(* What was read changes with a byte of the header.                        *)
LEMMA SeenPart ==
  ASSUME HttpInv, [Next]_vars
  PROVE  SeenInv'
  <1>1. AnswerInv /\ SeenInv
      BY DEF HttpInv
  <1>2. ASSUME UNCHANGED <<buf, seen>>, phase' = phase PROVE SeenInv'
      BY <1>1, <1>2 DEF SeenInv, LastKept, HeaderEndsRight, EmptyLine
  <1>3. ASSUME UNCHANGED <<buf, seen>>, phase' \notin {"header", "cut", "body"},
               phase' \in {"new", "list", "lines", "connect"} =>
                 phase \in {"new", "list", "lines", "connect"}
        PROVE  SeenInv'
      BY <1>1, <1>3 DEF SeenInv, HeaderEndsRight
  <1>4. CASE SetDefault \/ SkipLine \/ AddLine
      BY <1>2, <1>4 DEF SetDefault, SkipLine, AddLine, answer
  <1>5. CASE UseList \/ RefuseLine \/ EndRequest \/ DestroyRequest
      BY <1>3, <1>5 DEF UseList, RefuseLine, EndRequest, DestroyRequest, answer
  <1>6. ASSUME NEW n \in Paths, StartRequest(n) PROVE SeenInv'
      BY <1>3, <1>6 DEF StartRequest, answer
  <1>7. CASE SendRequest
    <2>1. seen = <<>> /\ buf = <<>> /\ UNCHANGED <<buf, seen>> /\ phase' \in {"failed", "header"}
        BY <1>1, <1>7 DEF SendRequest, SeenInv, answer
    <2> QED
        BY <2>1 DEF SeenInv, LastKept, HeaderEndsRight
  <1>8. CASE CutHeader
    <2>1. phase = "header" /\ phase' = "cut" /\ UNCHANGED <<buf, seen>>
        BY <1>8 DEF CutHeader, answer
    <2> QED
        BY <1>1, <2>1 DEF SeenInv, HeaderEndsRight, EmptyLine
  <1>9. ASSUME NEW b \in Bytes, SkipReturn(b) \/ EndHeader(b) \/ KeepByte(b) PROVE SeenInv'
      BY <1>1, <1>9, SkipReturnSeen, EndHeaderSeen, KeepByteSeen
  <1>10. CASE UNCHANGED vars
      BY <1>2, <1>10 DEF vars, answer
  <1> QED
      BY <1>4, <1>5, <1>6, <1>7, <1>8, <1>9, <1>10 DEF Next

(* The string of the request changes with a line, and at its ends.         *)
LEMMA RequestPart ==
  ASSUME HttpInv, [Next]_vars
  PROVE  RequestInv'
  <1>1. /\ ListInv /\ slot \in Nat /\ slot >= 1 /\ path \in Nat
        /\ phase = "lines" => /\ reqCur \in Nat /\ reqLen \in Nat /\ reqCur + 12 <= reqLen
                              /\ reqLen >= 1024
                              /\ reqCur = path + 15 + Cardinality(Text(Passed))
        /\ phase \in {"connect", "header"} => reqCur \in Nat /\ reqLen \in Nat /\ reqCur <= reqLen
        /\ ShortIsSent
      BY DEF HttpInv, RequestInv
  <1>2. ASSUME phase' \notin {"lines", "connect", "header", "refused"},
               path' \in Nat, slot' \in Nat \ {0}
        PROVE  RequestInv'
      BY <1>2 DEF RequestInv, ShortIsSent
  <1>3. CASE SetDefault \/ UseList \/ DestroyRequest
      BY <1>1, <1>2, <1>3 DEF SetDefault, UseList, DestroyRequest, request
  <1>4. ASSUME NEW n \in Paths, StartRequest(n) PROVE RequestInv'
    <2>1. n \in Nat
        BY HttpConstants
    <2>2. /\ phase' = "lines" /\ slot' = 1 /\ path' = n /\ reqCur' = n + 15
          /\ reqLen' \in Nat /\ reqLen' >= 1024 /\ reqCur' + 12 <= reqLen'
        BY <1>4, <2>1 DEF StartRequest
    <2>3. Passed' = {}
        BY <2>2 DEF Passed, Printed, Used, Slots
    <2>4. Text(Passed)' = {}
        BY <2>3 DEF Text
    <2>5. Cardinality(Text(Passed))' = 0
        BY <2>4, FS_EmptySet
    <2> QED
        BY <2>1, <2>2, <2>5 DEF RequestInv, ShortIsSent
  <1>5. CASE SkipLine
    <2>1. /\ phase = "lines" /\ phase' = "lines" /\ slot \notin Printed /\ slot' = slot + 1
          /\ UNCHANGED <<list, path, reqLen, reqCur>>
        BY <1>5 DEF SkipLine, request
    <2>2. Passed' = Passed
        BY <1>1, <2>1, PassedGrows
    <2>3. Text(Passed)' = Text(Passed)
        BY <2>1, <2>2, LinesStay
    <2> QED
        BY <1>1, <2>1, <2>3 DEF RequestInv, ShortIsSent
  <1>6. CASE AddLine
    <2>1. /\ phase = "lines" /\ phase' = "lines" /\ slot \in Printed /\ slot' = slot + 1
          /\ ~TooLong(slot) /\ reqCur' = reqCur + LineLength(slot)
          /\ UNCHANGED <<list, path, reqLen>>
        BY <1>6 DEF AddLine
    <2>2. LineLength(slot) \in Nat /\ LineLength(slot) + 2 <= reqLen - reqCur - 10
        BY <1>1, <2>1, LineLengthType DEF TooLong, Room
    <2>3. Passed' = Passed \cup {slot} /\ slot \notin Passed /\ Passed \in SUBSET Printed
        BY <1>1, <2>1, PassedGrows DEF Passed
    <2>4. Text(Passed)' = Text(Passed \cup {slot})
        BY <2>1, <2>3, LinesStay
    <2>5. Cardinality(Text(Passed))' = Cardinality(Text(Passed)) + LineLength(slot)
        BY <1>1, <2>1, <2>3, <2>4, TextGrows
    <2>6. Cardinality(Text(Passed)) \in Nat
        BY <1>1, <2>3, TextFinite
    <2> QED
        BY <1>1, <2>1, <2>2, <2>5, <2>6 DEF RequestInv, ShortIsSent
  <1>7. CASE RefuseLine
    <2>1. /\ phase = "lines" /\ phase' = "refused" /\ slot \in Printed /\ TooLong(slot)
          /\ UNCHANGED <<list, slot, path, reqLen, reqCur>>
        BY <1>7 DEF RefuseLine, request
    <2>2. LineLength(slot) \in Nat /\ LineLength(slot) + 2 > reqLen - reqCur - 10
        BY <1>1, <2>1, LineLengthType DEF TooLong, Room
    <2>3. slot \notin Passed /\ Passed \in SUBSET Printed /\ Passed \cup {slot} \in SUBSET Printed
        BY <1>1, <2>1 DEF Passed
    <2>4. Cardinality(Text(Passed \cup {slot})) = Cardinality(Text(Passed)) + LineLength(slot)
        BY <1>1, <2>1, <2>3, TextGrows
    <2>5. Text(Passed \cup {slot}) \in SUBSET Text(Printed)
        BY <2>3 DEF Text
    <2>6. IsFiniteSet(Text(Printed)) /\ Cardinality(Text(Printed)) \in Nat
        BY <1>1, TextFinite
    <2>7. Cardinality(Text(Passed \cup {slot})) <= Cardinality(Text(Printed))
        BY <2>5, <2>6, FS_Subset
    <2>8. Cardinality(Text(Passed)) \in Nat
        BY <1>1, <2>3, TextFinite
    <2>9. path + 15 + Cardinality(Text(Printed)) + 2 > 1014
        BY <1>1, <2>1, <2>2, <2>4, <2>6, <2>7, <2>8
    <2>10. WholeLength' = WholeLength
        BY <2>1, LinesStay DEF WholeLength
    <2> QED
        BY <1>1, <2>1, <2>9, <2>10 DEF RequestInv, ShortIsSent, WholeLength
  <1>8. CASE EndRequest
      BY <1>1, <1>8 DEF EndRequest, RequestInv, ShortIsSent
  <1>9. CASE SendRequest
      BY <1>1, <1>9 DEF SendRequest, RequestInv, ShortIsSent, request
  <1>10. CASE CutHeader
      BY <1>1, <1>2, <1>10 DEF CutHeader, request
  <1>11. ASSUME NEW b \in Bytes, SkipReturn(b) \/ EndHeader(b) \/ KeepByte(b) PROVE RequestInv'
    <2>1. /\ phase = "header" /\ phase' \in {"header", "body", "aborted"}
          /\ UNCHANGED <<slot, path, reqCur, reqLen>>
        BY <1>11 DEF SkipReturn, EndHeader, KeepByte, Reads, request
    <2> QED
        BY <1>1, <2>1 DEF RequestInv, ShortIsSent
  <1>12. CASE UNCHANGED vars
    <2>1. UNCHANGED <<list, phase, slot, path, reqCur, reqLen>>
        BY <1>12 DEF vars, request
    <2>2. Passed' = Passed /\ Text(Passed)' = Text(Passed) /\ WholeLength' = WholeLength
        BY <2>1, LinesStay DEF Passed, WholeLength
    <2> QED
        BY <1>1, <2>1, <2>2 DEF RequestInv, ShortIsSent
  <1> QED
      BY <1>3, <1>4, <1>5, <1>6, <1>7, <1>8, <1>9, <1>10, <1>11, <1>12 DEF Next

(* The four parts hold in every reachable state. *)
THEOREM HttpInvariant == Spec => []HttpInv
  <1>1. HttpInv /\ [Next]_vars => HttpInv'
      BY ListPart, AnswerPart, SeenPart, RequestPart DEF HttpInv
  <1> QED
      BY <1>1, InvInit, PTL DEF Spec

(* The slots of http-header.c are a bounded map, for any number of them,   *)
(* of names and of values.                                                 *)
THEOREM ListIsMap == Spec => ImplementsHeaderMap
  <1>1. Init => Map!Init
      BY InvInit
  <1>2. HttpInv /\ [Next]_vars => [Map!Next]_<<Stored, result>>
      BY ListPart
  <1> QED
      BY <1>1, <1>2, HttpInvariant, PTL DEF Spec, ImplementsHeaderMap, Map!Spec

(* get_headers stays inside its array as long as no name was cleared.      *)
THEOREM NamesStayInside == Spec => []NamesFit
  <1>1. HttpInv => NamesFit
      BY DEF HttpInv, ListInv
  <1> QED
      BY <1>1, HttpInvariant, PTL

(* Whatever the lengths of path and headers, a request is inside its       *)
(* string.                                                                 *)
THEOREM RequestStaysInside == Spec => []RequestFits
  <1>1. HttpInv => RequestFits
      BY DEF HttpInv, RequestInv, RequestFits
  <1> QED
      BY <1>1, HttpInvariant, PTL

(* Whatever a server sends, and however long, it is read inside headerBuf. *)
THEOREM HeaderStaysInside == Spec => []HeaderFits
  <1>1. HttpInv => HeaderFits
    <2> SUFFICES ASSUME HttpInv, phase \in {"header", "body", "cut"} PROVE Len(buf) < bufLen
        BY DEF HeaderFits
    <2>1. Len(buf) \in Nat /\ bufLen \in Nat /\ 2 * bufLen = Need(Len(buf))
        BY DEF HttpInv, AnswerInv
    <2>2. Need(Len(buf)) \in Nat /\ Need(Len(buf)) > 2 * (Len(buf) + 11)
        BY <2>1, NeedGrows
    <2> QED
        BY <2>1, <2>2
  <1> QED
      BY <1>1, HttpInvariant, PTL

(* A header aborts the service only if what its bytes need is beyond an    *)
(* int: with the numbers of http.c from the 2896th byte on.                *)
THEOREM AbortIsLate == Spec => []LateAbort
  <1>1. HttpInv => LateAbort
      BY DEF HttpInv, AnswerInv, LateAbort, Need
  <1> QED
      BY <1>1, HttpInvariant, PTL

(* Whatever the lengths of path, host and headers, a request that was      *)
(* refused is longer than 1014 characters.                                 *)
THEOREM ShortRequestIsSent == Spec => []ShortIsSent
  <1>1. HttpInv => ShortIsSent
      BY DEF HttpInv, RequestInv
  <1> QED
      BY <1>1, HttpInvariant, PTL

(* Whatever a server sends, the header ends with its first empty line.     *)
THEOREM BodyBeginsRight == Spec => []HeaderEndsRight
  <1>1. HttpInv => HeaderEndsRight
      BY DEF HttpInv, SeenInv
  <1> QED
      BY <1>1, HttpInvariant, PTL
=============================================================================
