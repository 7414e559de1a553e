--------------------------- MODULE InstancesProofs ---------------------------
(***************************************************************************)
(* That there is one service at most, and that its names stay its own, for *)
(* any number of processes, failures and kills.                            *)
(***************************************************************************)
EXTENDS Instances, FiniteSetTheorems, TLAPS

(* The two orders go over the same four names. *)
LEMMA Orders ==
  /\ Len(OpenOrder) = 4 /\ Len(UnlinkOrder) = 4
  /\ \A k \in 1..4 : OpenOrder[k] \in Names /\ UnlinkOrder[k] \in Names
  /\ \A n \in Names : \E k \in 1..4 : OpenOrder[k] = n
  /\ \A n \in Names : \E k \in 1..4 : UnlinkOrder[k] = n
  /\ OpenOrder[1] = "sem0" /\ OpenOrder[2] = "shm0" /\ OpenOrder[3] = "sem1"
  /\ \A k, l \in 1..4 : OpenOrder[k] = OpenOrder[l] => k = l
  <1>1. Len(OpenOrder) = 4 /\ Len(UnlinkOrder) = 4
      BY DEF OpenOrder, UnlinkOrder
  <1>2. /\ OpenOrder[1] = "sem0" /\ OpenOrder[2] = "shm0"
        /\ OpenOrder[3] = "sem1" /\ OpenOrder[4] = "shm1"
      BY DEF OpenOrder
  <1>3. /\ UnlinkOrder[1] = "shm0" /\ UnlinkOrder[2] = "sem0"
        /\ UnlinkOrder[3] = "shm1" /\ UnlinkOrder[4] = "sem1"
      BY DEF UnlinkOrder
  <1>4. \A k \in 1..4 : k = 1 \/ k = 2 \/ k = 3 \/ k = 4
      OBVIOUS
  <1> QED
      BY <1>1, <1>2, <1>3, <1>4 DEF Names

(* Before any process starts the invariant holds. *)
LEMMA InvInit == Init => InstancesInv
  <1> SUFFICES ASSUME Init PROVE InstancesInv
      OBVIOUS
  <1>1. TypeOK
    <2>1. pc \in [Procs -> PCs] /\ at \in [Procs -> 1..5]
        BY DEF Init, PCs
    <2>2. name \in [Names -> Procs \cup {None}] /\ has \in [Procs -> [Names -> Procs \cup {None}]]
        BY DEF Init
    <2>3. /\ primary \subseteq Procs /\ kills \in 0..MaxKills /\ torn \in BOOLEAN /\ blind \in BOOLEAN
          /\ sized \in [Procs -> SUBSET Segments]
      <3>1. primary = {} /\ kills = 0 /\ torn = FALSE /\ blind = FALSE /\ sized = [p \in Procs |-> {}]
          BY DEF Init
      <3>2. MaxKills \in Nat
          BY InstancesConstants
      <3>3. 0 \in 0..MaxKills
          BY <3>2
      <3> QED
          BY <3>1, <3>3
    <2> QED
        BY <2>1, <2>2, <2>3 DEF TypeOK
  <1>2. primary = {} /\ \A p \in Procs : pc[p] = "absent" /\ at[p] = 1
      BY DEF Init
  <1> QED
      BY <1>1, <1>2 DEF InstancesInv, OnePrimary, Placed, Owned

(* A process that counts one process counts itself. *)
LEMMA Alone ==
  ASSUME NEW p \in Alive, ProcessCount <= 1
  PROVE  Alive = {p}
  <1>1. Alive \subseteq Procs /\ IsFiniteSet(Procs)
      BY InstancesConstants DEF Alive
  <1>2. IsFiniteSet(Alive) /\ Cardinality(Alive) \in Nat
      BY <1>1, FS_Subset, FS_CardinalityType
  <1>3. Cardinality(Alive) # 0
      BY <1>2, FS_EmptySet
  <1>4. Cardinality(Alive) = 1
      BY <1>2, <1>3 DEF ProcessCount
  <1>5. \E x : Alive = {x}
      BY <1>2, <1>4, FS_Singleton
  <1> QED
      BY <1>5

(* And a number that is not 0 comes from a count that did not fail. *)
LEMMA CountedAlone ==
  ASSUME NEW p \in Alive, NEW num \in Counted, num # 0, num <= 1
  PROVE  Alive = {p}
  <1>1. IsFiniteSet(Alive)
      BY InstancesConstants, FS_Subset DEF Alive
  <1>2. ProcessCount \in Nat
      BY <1>1, FS_CardinalityType DEF ProcessCount
  <1>3. num \in (ProcessCount .. (ProcessCount + (IF Overread THEN 1 ELSE 0)))
      BY DEF Counted
  <1>4. ProcessCount <= 1
      BY <1>2, <1>3
  <1> QED
      BY <1>4, Alone

(* A step of one process that keeps its own places and names in order      *)
(* keeps those of all: nobody else can be a service that lives if it       *)
(* changes a name.                                                         *)
LEMMA StepOfOne ==
  ASSUME InstancesInv, NEW p \in Procs,
         TypeOK', primary' = primary, blind' = blind,
         Placed(p)', ~blind => Owned(p)',
         p \in Alive' /\ p \in primary => p \in Alive,
         \A q \in Procs : q # p => pc'[q] = pc[q] /\ at'[q] = at[q],
         name' = name \/ p \in primary \cap Alive
  PROVE  InstancesInv'
  <1>1. \A q \in Procs : q \in primary \cap Alive' => q \in primary \cap Alive
      BY DEF Alive
  <1>2. OnePrimary'
    <2> SUFFICES ASSUME ~blind, NEW q \in primary' \cap Alive', NEW r \in primary' \cap Alive'
                 PROVE  q = r
        BY DEF OnePrimary
    <2>1. q \in Procs /\ r \in Procs
        BY DEF Alive
    <2> QED
        BY <1>1, <2>1 DEF InstancesInv, OnePrimary
  <1>3. ASSUME NEW q \in Procs, q # p PROVE Placed(q)'
    <2>1. pc'[q] = pc[q] /\ at'[q] = at[q] /\ primary' = primary /\ Placed(q)
        BY <1>3 DEF InstancesInv
    <2> QED
        BY <2>1 DEF Placed
  <1>4. ASSUME NEW q \in Procs, q # p, ~blind PROVE Owned(q)'
    <2>1. pc'[q] = pc[q] /\ at'[q] = at[q] /\ primary' = primary /\ Owned(q) /\ Placed(q)
        BY <1>4 DEF InstancesInv
    <2>2. CASE name' = name
        BY <2>1, <2>2 DEF Owned, Opened
    <2>3. CASE p \in primary \cap Alive
      <3>1. ~(q \in primary /\ pc[q] \in {"open", "size", "map", "up"})
          BY <1>4, <2>3 DEF InstancesInv, OnePrimary, Alive
      <3> QED
          BY <2>1, <3>1 DEF Owned, Placed
    <2> QED
        BY <2>2, <2>3
  <1> QED
      BY <1>2, <1>3, <1>4 DEF InstancesInv

(* Every step preserves the invariant. *)
LEMMA InvNext == InstancesInv /\ [Next]_vars => InstancesInv'
  <1> SUFFICES ASSUME InstancesInv, [Next]_vars PROVE InstancesInv'
      OBVIOUS
  <1>t. /\ pc \in [Procs -> PCs] /\ at \in [Procs -> 1..5] /\ primary \subseteq Procs
        /\ name \in [Names -> Procs \cup {None}]
        /\ has \in [Procs -> [Names -> Procs \cup {None}]]
        /\ sized \in [Procs -> SUBSET Segments]
        /\ kills \in 0..MaxKills /\ torn \in BOOLEAN /\ blind \in BOOLEAN
      BY DEF InstancesInv, TypeOK
  <1>1. ASSUME NEW p \in Procs, Launch(p) PROVE InstancesInv'
    <2>1. /\ pc[p] = "absent" /\ pc' \in [Procs -> PCs] /\ pc'[p] = "count"
          /\ \A q \in Procs : q # p => pc'[q] = pc[q]
          /\ UNCHANGED <<at, primary, name, has, sized, kills, torn, blind>>
        BY <1>t, <1>1 DEF Launch, PCs
    <2>2. TypeOK'
        BY <1>t, <2>1 DEF TypeOK
    <2>3. p \notin primary /\ at[p] = 1
        BY <2>1 DEF InstancesInv, Placed
    <2>4. Placed(p)' /\ Owned(p)'
        BY <2>1, <2>3 DEF Placed, Owned
    <2> QED
        BY <2>1, <2>2, <2>3, <2>4, StepOfOne
  <1>2. ASSUME NEW p \in Procs, Count(p) PROVE InstancesInv'
    <2>1. /\ pc[p] = "count" /\ pc' \in [Procs -> PCs] /\ pc'[p] = "open"
          /\ \A q \in Procs : q # p => pc'[q] = pc[q]
          /\ UNCHANGED <<at, name, has, sized, kills, torn>>
        BY <1>t, <1>2 DEF Count, PCs
    <2>2. PICK num \in Counted : /\ primary' = IF num <= 1 THEN primary \cup {p} ELSE primary
                                 /\ blind' = (blind \/ num = 0)
        BY <1>2 DEF Count
    <2>3. TypeOK'
        BY <1>t, <2>1, <2>2 DEF TypeOK
    <2>4. p \in Alive /\ Alive' = Alive /\ p \notin primary /\ at[p] = 1
        BY <2>1 DEF InstancesInv, Placed, Alive
    <2>5. Placed(p)' /\ Owned(p)'
        BY <2>1, <2>4 DEF Placed, Owned, Opened
    <2>6. \A q \in Procs : q # p => Placed(q)' /\ (~blind => Owned(q)')
      <3> SUFFICES ASSUME NEW q \in Procs, q # p PROVE Placed(q)' /\ (~blind => Owned(q)')
          OBVIOUS
      <3>1. pc'[q] = pc[q] /\ at'[q] = at[q] /\ name' = name /\ Placed(q) /\ (~blind => Owned(q))
          BY <2>1 DEF InstancesInv
      <3>2. q \in primary' <=> q \in primary
          BY <2>2
      <3> QED
          BY <3>1, <3>2 DEF Placed, Owned, Opened
    <2>7. OnePrimary'
      <3> SUFFICES ASSUME ~blind' PROVE \A q, r \in primary' \cap Alive' : q = r
          BY DEF OnePrimary
      <3>1. ~blind /\ num # 0 /\ OnePrimary
          BY <2>2 DEF InstancesInv
      <3>2. CASE num <= 1
        <4>1. Alive' = {p}
            BY <2>4, <3>1, <3>2, CountedAlone
        <4> QED
            BY <4>1
      <3>3. CASE ~(num <= 1)
          BY <2>2, <2>4, <3>1, <3>3 DEF OnePrimary
      <3> QED
          BY <3>2, <3>3
    <2>8. ~blind' => ~blind
        BY <2>2
    <2> QED
        BY <2>3, <2>5, <2>6, <2>7, <2>8 DEF InstancesInv
  <1>3. ASSUME NEW p \in Procs, Open(p) PROVE InstancesInv'
    <2> DEFINE k == at[p]
               n == OpenOrder[at[p]]
    <2>1. pc[p] = "open" /\ k \in 1..4 /\ n \in Names /\ p \in Alive /\ UNCHANGED <<primary, sized, kills, torn, blind>>
        BY <1>3, Orders DEF Open, InstancesInv, Placed, Alive
    <2>2. /\ pc' \in [Procs -> PCs] /\ at' \in [Procs -> 1..5]
          /\ \A q \in Procs : q # p => pc'[q] = pc[q] /\ at'[q] = at[q]
      <3>1. CASE Destory(p)
          BY <1>t, <3>1 DEF Destory, PCs
      <3>2. CASE ToSegment(p)
          BY <1>t, <3>2 DEF ToSegment, PCs
      <3>3. CASE Continue(p, k)
        <4>1. k + 1 \in 1..5
            BY <2>1
        <4> HIDE DEF k
        <4> QED
            BY <1>t, <3>3, <4>1 DEF Continue, PCs
      <3> QED
          BY <1>3, <3>1, <3>2, <3>3 DEF Open
    <2>3. /\ name' \in [Names -> Procs \cup {None}]
          /\ has' \in [Procs -> [Names -> Procs \cup {None}]]
          /\ name' = name \/ (p \in primary /\ name' = [name EXCEPT ![n] = p])
      <3>1. name' = name \/ (p \in primary /\ name' = [name EXCEPT ![n] = p])
          BY <1>3 DEF Open
      <3>2. name' \in [Names -> Procs \cup {None}]
          BY <1>t, <2>1, <3>1
      <3>3. name'[n] \in Procs \cup {None}
          BY <2>1, <3>2
      <3>4. has' = has \/ has' = [has EXCEPT ![p] = [has[p] EXCEPT ![n] = name'[n]]]
          BY <1>t, <1>3 DEF Open
      <3>5. has' \in [Procs -> [Names -> Procs \cup {None}]]
        <4> HIDE DEF n
        <4>1. has[p] \in [Names -> Procs \cup {None}]
            BY <1>t
        <4>2. [has[p] EXCEPT ![n] = name'[n]] \in [Names -> Procs \cup {None}]
            BY <2>1, <3>3, <4>1
        <4> QED
            BY <1>t, <3>4, <4>2
      <3> QED
          BY <3>1, <3>2, <3>5
    <2>4. TypeOK'
        BY <1>t, <2>1, <2>2, <2>3 DEF TypeOK
    <2>5. \/ pc'[p] \in {"unlink", "gone"} /\ at'[p] = 1 /\ (p \in primary <=> pc'[p] = "unlink")
          \/ /\ pc'[p] \in {"size", "map", "open", "up", "check"} /\ (p \in primary => name'[n] = p)
             /\ IF pc'[p] \in {"size", "map"} THEN at'[p] = k ELSE at'[p] = k + 1
             /\ (pc'[p] = "size" => p \in primary)
             /\ (pc'[p] \in {"size", "map"} => n \in Segments)
             /\ (pc'[p] = "open" => k < 4)
             /\ (pc'[p] = "up" => p \in primary /\ k = 4) /\ (pc'[p] = "check" => p \notin primary /\ k = 4)
        BY <1>t, <1>3, <2>1, Orders DEF Open, Destory, Continue, ToSegment
    <2>6. ~blind /\ p \in primary /\ name'[n] = p => \A l \in 1..4 : l <= k => name'[OpenOrder[l]] = p
      <3> SUFFICES ASSUME ~blind, p \in primary, name'[n] = p, NEW l \in 1..4, l <= k
                   PROVE  name'[OpenOrder[l]] = p
          OBVIOUS
      <3>1. CASE l = k
          BY <3>1
      <3>2. CASE l # k
        <4>1. l \in Opened(p)
            BY <2>1, <3>2 DEF Opened
        <4>2. name[OpenOrder[l]] = p
            BY <2>1, <4>1 DEF InstancesInv, Owned
        <4>3. OpenOrder[l] \in Names
            BY Orders
        <4> QED
            BY <1>t, <2>1, <2>3, <4>2, <4>3
      <3> QED
          BY <3>1, <3>2
    <2>7. Placed(p)'
        BY <2>1, <2>5 DEF Placed
    <2>8. ASSUME ~blind PROVE Owned(p)'
      <3>1. CASE pc'[p] \in {"unlink", "gone"}
          BY <3>1 DEF Owned
      <3>2. CASE /\ pc'[p] \in {"size", "map", "open", "up", "check"} /\ (p \in primary => name'[n] = p)
                 /\ IF pc'[p] \in {"size", "map"} THEN at'[p] = k ELSE at'[p] = k + 1
                 /\ (pc'[p] = "up" => p \in primary /\ k = 4)
        <4>1. p \in primary => \A l \in 1..4 : l <= k => name'[OpenOrder[l]] = p
            BY <2>6, <2>8, <3>2
        <4>2. pc'[p] \in {"open", "size", "map"} => \A l \in Opened(p)' : l \in 1..4 /\ l <= k
            BY <2>1, <3>2 DEF Opened
        <4>3. pc'[p] = "up" => \A m \in Names : name'[m] = p
            BY <3>2, <4>1, Orders
        <4> QED
            BY <2>1, <4>1, <4>2, <4>3 DEF Owned
      <3> QED
          BY <2>5, <3>1, <3>2
    <2> QED
        BY <2>1, <2>2, <2>3, <2>4, <2>7, <2>8, StepOfOne
  <1>4. ASSUME NEW p \in Procs, Map(p) PROVE InstancesInv'
    <2> DEFINE k == at[p]
    <2>1. pc[p] = "map" /\ k \in 1..4 /\ p \in Alive /\ UNCHANGED <<primary, name, has, sized, kills, torn, blind>>
        BY <1>4 DEF Map, InstancesInv, Placed, Alive
    <2>2. /\ pc' \in [Procs -> PCs] /\ at' \in [Procs -> 1..5]
          /\ \A q \in Procs : q # p => pc'[q] = pc[q] /\ at'[q] = at[q]
          /\ at'[p] = k + 1
          /\ pc'[p] = IF k < 4 THEN "open" ELSE IF p \in primary THEN "up" ELSE "check"
        BY <1>t, <1>4, <2>1, Orders DEF Map, Continue, PCs
    <2>3. TypeOK'
        BY <1>t, <2>1, <2>2 DEF TypeOK
    <2>4. Placed(p)'
        BY <2>1, <2>2 DEF Placed
    <2>5. ASSUME ~blind PROVE Owned(p)'
      <3>1. p \in primary => \A l \in 1..4 : l <= k => name'[OpenOrder[l]] = p
          BY <2>1, <2>5 DEF InstancesInv, Owned, Opened
      <3>2. pc'[p] = "up" => \A m \in Names : name'[m] = p
          BY <2>1, <2>2, <3>1, Orders
      <3>3. pc'[p] = "open" => \A l \in Opened(p)' : l \in 1..4 /\ l <= k
          BY <2>1, <2>2 DEF Opened
      <3> QED
          BY <2>1, <2>2, <3>1, <3>2, <3>3 DEF Owned
    <2> QED
        BY <2>1, <2>2, <2>3, <2>4, <2>5, StepOfOne
  <1>10. ASSUME NEW p \in Procs, Truncate(p) PROVE InstancesInv'
    <2>1. /\ pc[p] = "size" /\ at[p] \in 1..4 /\ p \in Alive /\ p \in primary
          /\ UNCHANGED <<at, primary, name, has, kills, torn, blind>>
        BY <1>10 DEF Truncate, InstancesInv, Placed, Alive
    <2>2. /\ pc' \in [Procs -> PCs] /\ pc'[p] = "map"
          /\ \A q \in Procs : q # p => pc'[q] = pc[q] /\ at'[q] = at[q]
        BY <1>t, <1>10, <2>1 DEF Truncate, PCs
    <2>3. sized' \in [Procs -> SUBSET Segments]
      <3>1. OpenOrder[at[p]] \in Segments
          BY <2>1 DEF InstancesInv, Placed
      <3> QED
          BY <1>t, <1>10, <3>1 DEF Truncate
    <2>4. TypeOK'
        BY <1>t, <2>1, <2>2, <2>3 DEF TypeOK
    <2>5. Placed(p)' /\ (~blind => Owned(p)')
        BY <2>1, <2>2 DEF InstancesInv, Placed, Owned, Opened
    <2> QED
        BY <2>1, <2>2, <2>4, <2>5, StepOfOne
  <1>5. ASSUME NEW p \in Procs, InitFails(p) \/ Stop(p) PROVE InstancesInv'
    <2>1. /\ pc[p] \in {"open", "size", "map", "up", "check"} /\ p \in Alive
          /\ UNCHANGED <<primary, name, has, sized, kills, torn, blind>> /\ Destory(p)
        BY <1>5 DEF InitFails, Stop, Alive
    <2>2. /\ pc' \in [Procs -> PCs] /\ at' \in [Procs -> 1..5]
          /\ \A q \in Procs : q # p => pc'[q] = pc[q] /\ at'[q] = at[q]
          /\ at'[p] = 1 /\ pc'[p] = IF p \in primary THEN "unlink" ELSE "gone"
        BY <1>t, <2>1 DEF Destory, PCs
    <2>3. TypeOK'
        BY <1>t, <2>1, <2>2 DEF TypeOK
    <2>4. Placed(p)' /\ Owned(p)'
        BY <2>1, <2>2 DEF Placed, Owned
    <2> QED
        BY <2>1, <2>2, <2>3, <2>4, StepOfOne
  <1>6. ASSUME NEW p \in Procs, Check(p) \/ Answer(p) \/ Drain(p) PROVE InstancesInv'
    <2>1. /\ pc[p] \in {"check", "talk", "drain"} /\ pc' \in [Procs -> PCs]
          /\ pc'[p] \in {"talk", "gone"} /\ (pc'[p] = "talk" => pc[p] = "check")
          /\ \A q \in Procs : q # p => pc'[q] = pc[q]
          /\ UNCHANGED <<at, primary, name, has, sized, kills, torn, blind>>
        BY <1>t, <1>6 DEF Check, Answer, Drain, PCs
    <2>2. TypeOK'
        BY <1>t, <2>1 DEF TypeOK
    <2>3. Placed(p)' /\ Owned(p)' /\ p \in Alive
        BY <2>1 DEF InstancesInv, Placed, Owned, Alive
    <2> QED
        BY <2>1, <2>2, <2>3, StepOfOne
  <1>7. ASSUME NEW p \in Procs, Unlink(p) PROVE InstancesInv'
    <2>1. /\ pc[p] = "unlink" /\ at[p] \in 1..4 /\ p \in primary \cap Alive
          /\ UNCHANGED <<primary, has, sized, kills, torn, blind>>
        BY <1>7 DEF Unlink, InstancesInv, Placed, Alive
    <2>2. /\ pc' \in [Procs -> PCs] /\ at' \in [Procs -> 1..5]
          /\ \A q \in Procs : q # p => pc'[q] = pc[q] /\ at'[q] = at[q]
          /\ at'[p] = at[p] + 1 /\ pc'[p] = IF at[p] < 4 THEN "unlink" ELSE "drain"
        BY <1>t, <1>7, <2>1, Orders DEF Unlink, PCs
    <2>3. name' \in [Names -> Procs \cup {None}]
        BY <1>t, <1>7 DEF Unlink
    <2>4. TypeOK'
        BY <1>t, <2>1, <2>2, <2>3 DEF TypeOK
    <2>5. Placed(p)' /\ Owned(p)'
        BY <2>1, <2>2 DEF Placed, Owned
    <2> QED
        BY <2>1, <2>2, <2>4, <2>5, StepOfOne
  <1>8. ASSUME NEW p \in Procs, Kill(p) PROVE InstancesInv'
    <2>1. /\ p \in Alive /\ pc' \in [Procs -> PCs] /\ pc'[p] = "gone"
          /\ \A q \in Procs : q # p => pc'[q] = pc[q]
          /\ UNCHANGED <<at, primary, name, has, sized, blind>>
        BY <1>t, <1>8 DEF Kill, PCs
    <2>2. kills' \in 0..MaxKills /\ torn' \in BOOLEAN
        BY <1>t, <1>8, InstancesConstants DEF Kill
    <2>3. TypeOK'
        BY <1>t, <2>1, <2>2 DEF TypeOK
    <2>4. Placed(p)' /\ Owned(p)'
        BY <2>1 DEF Placed, Owned
    <2> QED
        BY <2>1, <2>3, <2>4, StepOfOne
  <1>9. CASE UNCHANGED vars
      BY <1>9 DEF vars, InstancesInv, TypeOK, OnePrimary, Placed, Owned, Opened, Alive
  <1> QED
      BY <1>1, <1>2, <1>3, <1>4, <1>10, <1>5, <1>6, <1>7, <1>8, <1>9 DEF Next

(* The invariant holds in every reachable state. *)
THEOREM InstancesInvariant == Spec => []InstancesInv
  BY InvInit, InvNext, PTL DEF Spec

(* However many processes start, fail, stop or are killed, at most one of  *)
(* those that live means to be the service.                                *)
THEOREM OneService == Spec => []OnePrimary
  <1>1. InstancesInv => OnePrimary
      BY DEF InstancesInv, OnePrimary
  <1> QED
      BY <1>1, InstancesInvariant, PTL

(* The names of a service that runs refer to its own objects.              *)
THEOREM NamesStay == Spec => []NamesKept
  <1>1. InstancesInv => NamesKept
      BY DEF InstancesInv, Owned, NamesKept
  <1> QED
      BY <1>1, InstancesInvariant, PTL
-----------------------------------------------------------------------------
(* While its count was right, a live service is the only one: any other    *)
(* process that ever was the service is gone.                              *)
LEMMA OthersGone ==
  ASSUME InstancesInv, ~blind, NEW p \in primary \cap Alive, NEW s \in primary, s # p
  PROVE  pc[s] = "gone"
  <1>1. s \in Procs /\ pc[s] # "absent"
      BY DEF InstancesInv, TypeOK, Placed
  <1> QED
      BY <1>1 DEF InstancesInv, OnePrimary, Alive

(* No process has opened or created anything before the first starts. *)
LEMMA NamesInit == Init => NamesInv
  <1> SUFFICES ASSUME Init PROVE NamesInv
      OBVIOUS
  <1>1. /\ primary = {} /\ \A n \in Names : name[n] = None
        /\ \A p \in Procs : pc[p] = "absent" /\ at[p] = 1 /\ has[p]["sem1"] = None
      BY DEF Init, Names
  <1>2. OpenOrder[1] \in Names /\ "sem1" \in Names
      BY DEF OpenOrder, Names
  <1>3. \A k \in 1..4 : OpenOrder[k] \in Names
      BY Orders
  <1>4. OneOwner
      BY <1>1 DEF OneOwner
  <1>5. SizedInv
      BY <1>1, <1>2 DEF SizedInv
  <1>6. CleanInv
      BY <1>1 DEF CleanInv
  <1>7. CoherentInv
    <2>1. Created /\ Prefix
      <3>1. \A k \in 1..3 : k + 1 \in 1..4
          OBVIOUS
      <3> QED
          BY <1>1, <1>3, <3>1 DEF Created, Prefix
    <2>2. \A p \in Procs : OfOne(p)
        BY <1>1 DEF OfOne
    <2> QED
        BY <1>1, <1>4, <2>1, <2>2 DEF CoherentInv
  <1> QED
      BY <1>5, <1>6, <1>7 DEF NamesInv

(* A count that failed and a torn removal are never forgotten. *)
LEMMA Remembered == [Next]_vars => (blind => blind') /\ (torn => torn')
  <1> SUFFICES ASSUME [Next]_vars PROVE (blind => blind') /\ (torn => torn')
      OBVIOUS
  <1>1. ASSUME NEW p \in Procs, Count(p) PROVE (blind => blind') /\ (torn => torn')
    <2>1. torn' = torn /\ \E num \in Counted : blind' = (blind \/ num = 0)
        BY <1>1 DEF Count
    <2> QED
        BY <2>1, Zenon
  <1>2. ASSUME NEW p \in Procs, Kill(p) PROVE (blind => blind') /\ (torn => torn')
    <2>1. blind' = blind /\ torn' = (torn \/ pc[p] = "unlink")
        BY <1>2 DEF Kill
    <2> QED
        BY <2>1, Zenon
  <1>3. ASSUME NEW p \in Procs,
               Launch(p) \/ Open(p) \/ Truncate(p) \/ Map(p) \/ InitFails(p) \/ Check(p)
                 \/ Answer(p) \/ Stop(p) \/ Unlink(p) \/ Drain(p)
        PROVE  (blind => blind') /\ (torn => torn')
    <2>1. blind' = blind /\ torn' = torn
        BY <1>3 DEF Launch, Open, Truncate, Map, InitFails, Check, Answer, Stop, Unlink, Drain
    <2> QED
        BY <2>1, Zenon
  <1>4. CASE UNCHANGED vars
    <2>1. blind' = blind /\ torn' = torn
        BY <1>4 DEF vars
    <2> QED
        BY <2>1, Zenon
  <1> QED
      BY <1>1, <1>2, <1>3, <1>4 DEF Next

(* Each step keeps what a client has opened the objects of one service.    *)
LEMMA CoherentNext ==
  ASSUME InstancesInv, InstancesInv', CoherentInv, [Next]_vars
  PROVE  CoherentInv'
  <1> DEFINE Kept == /\ Created' /\ OneOwner' /\ Prefix'
                     /\ \A s \in primary' : TakenBack(s)' /\ Ahead(s)'
                     /\ \A r \in Procs \ primary' : OfOne(r)'
  <1> SUFFICES ASSUME ~blind', ~torn' PROVE Kept
      BY DEF CoherentInv
  <1>t. /\ pc \in [Procs -> PCs] /\ at \in [Procs -> 1..5] /\ primary \subseteq Procs
        /\ name \in [Names -> Procs \cup {None}]
        /\ has \in [Procs -> [Names -> Procs \cup {None}]]
        /\ \A p \in Procs : Placed(p)
      BY DEF InstancesInv, TypeOK
  <1>b. ~blind /\ ~torn
      BY Remembered
  <1>c. /\ Created /\ OneOwner /\ Prefix
        /\ \A s \in primary : TakenBack(s) /\ Ahead(s)
        /\ \A p \in Procs \ primary : OfOne(p)
      BY <1>b DEF CoherentInv
  <1>n. None \notin Procs
      BY InstancesConstants
  (* Steps of one process that open, create and unlink nothing. *)
  <1>q. ASSUME NEW p \in Procs, UNCHANGED <<name, has, primary>>,
               \A q \in Procs : q # p => pc'[q] = pc[q] /\ at'[q] = at[q],
               p \in primary /\ pc[p] = "unlink" => pc'[p] = "unlink",
               p \in primary => TakenBack(p)' /\ Ahead(p)',
               p \notin primary => OfOne(p)',
               pc'[p] = "open" /\ at'[p] = 1 => p \notin primary
        PROVE  Kept
    <2>1. Created' /\ OneOwner' /\ Prefix'
        BY <1>t, <1>c, <1>q DEF Created, OneOwner, Prefix
    <2>2. ASSUME NEW s \in primary, s # p PROVE TakenBack(s)' /\ Ahead(s)'
      <3>1. pc'[s] = pc[s] /\ at'[s] = at[s] /\ name' = name /\ TakenBack(s) /\ Ahead(s)
          BY <1>t, <1>c, <1>q, <2>2
      <3> QED
          BY <3>1 DEF TakenBack, Ahead, Opened
    <2>3. ASSUME NEW r \in Procs \ primary, r # p PROVE OfOne(r)'
      <3>1. pc'[r] = pc[r] /\ at'[r] = at[r] /\ name' = name /\ has' = has /\ OfOne(r)
          BY <1>c, <1>q, <2>3
      <3>2. \A s \in primary' : pc'[s] = "open" /\ at'[s] = 1 => s \in primary /\ pc[s] = "open" /\ at[s] = 1
          BY <1>t, <1>q
      <3> QED
          BY <3>1, <3>2 DEF OfOne, Opened
    <2> QED
        BY <1>q, <2>1, <2>2, <2>3
  <1>1. ASSUME NEW p \in Procs, Launch(p) PROVE Kept
    <2>1. /\ pc[p] = "absent" /\ pc'[p] = "count" /\ UNCHANGED <<at, name, has, primary>>
          /\ \A q \in Procs : q # p => pc'[q] = pc[q]
        BY <1>t, <1>1 DEF Launch
    <2>2. p \notin primary
        BY <1>t, <2>1 DEF Placed
    <2>3. OfOne(p)'
        BY <2>1 DEF OfOne
    <2> QED
        BY <1>q, <2>1, <2>2, <2>3
  <1>2. ASSUME NEW p \in Procs, Count(p) PROVE Kept
    <2>1. /\ pc[p] = "count" /\ pc'[p] = "open" /\ UNCHANGED <<at, name, has>>
          /\ \A q \in Procs : q # p => pc'[q] = pc[q]
        BY <1>t, <1>2 DEF Count
    <2>2. PICK num \in Counted : /\ primary' = IF num <= 1 THEN primary \cup {p} ELSE primary
                                 /\ blind' = (blind \/ num = 0)
        BY <1>2 DEF Count
    <2>3. p \in Alive /\ p \notin primary /\ at[p] = 1 /\ Opened(p)' = {}
        BY <1>t, <2>1 DEF Placed, Alive, Opened
    <2>4. OfOne(p)'
        BY <2>3 DEF OfOne
    <2>5. CASE primary' = primary
        BY <1>q, <2>1, <2>3, <2>4, <2>5
    <2>6. CASE num <= 1 /\ primary' = primary \cup {p}
      <3>1. Alive = {p}
          BY <2>2, <2>3, <2>6, CountedAlone
      <3>2. \A q \in Procs : q # p => pc'[q] \in {"absent", "gone"}
          BY <2>1, <3>1 DEF Alive
      <3>3. Created' /\ OneOwner' /\ Prefix'
        <4>1. (\A s \in primary' : pc'[s] # "unlink") => \A s \in primary : pc[s] # "unlink"
            BY <1>t, <2>1, <2>6
        <4> QED
            BY <1>c, <2>1, <2>6, <4>1 DEF Created, OneOwner, Prefix
      <3>4. TakenBack(p)' /\ Ahead(p)'
        <4>1. \A n \in Names : name[n] # p
            BY <1>c, <1>n, <2>3 DEF Created
        <4> QED
            BY <2>1, <4>1, Orders DEF TakenBack, Ahead
      <3>5. \A s \in primary : TakenBack(s)' /\ Ahead(s)'
          BY <1>t, <2>3, <3>2 DEF TakenBack, Ahead
      <3>6. \A r \in Procs \ primary' : OfOne(r)'
          BY <2>6, <3>2 DEF OfOne
      <3> QED
          BY <2>6, <3>3, <3>4, <3>5, <3>6
    <2> QED
        BY <2>2, <2>5, <2>6
  <1>3. ASSUME NEW p \in Procs, Open(p) PROVE Kept
    <2> DEFINE k == at[p]
               n == OpenOrder[at[p]]
    <2>1. /\ pc[p] = "open" /\ k \in 1..4 /\ n \in Names /\ primary' = primary
          /\ Opened(p) = {l \in 1..4 : l < k} /\ p \in Alive
        BY <1>t, <1>3, Orders DEF Open, Placed, Opened, Alive
    <2>2. /\ \A q \in Procs : q # p => pc'[q] = pc[q] /\ at'[q] = at[q]
          /\ \A q \in Procs : q # p => has'[q] = has[q]
      <3>1. Destory(p) \/ ToSegment(p) \/ Continue(p, k)
          BY <1>3 DEF Open
      <3>2. \A q \in Procs : q # p => pc'[q] = pc[q] /\ at'[q] = at[q]
          BY <1>t, <3>1 DEF Destory, Continue, ToSegment
      <3>3. has' = has \/ has' = [has EXCEPT ![p] = [has[p] EXCEPT ![n] = name'[n]]]
          BY <1>t, <1>3 DEF Open
      <3> QED
          BY <1>t, <3>2, <3>3
    <2>3. CASE ~(IF p \in primary THEN name[n] = None ELSE name[n] # None)
      <3>1. /\ name' = name /\ has' = has /\ at'[p] = 1
            /\ pc'[p] = IF p \in primary THEN "unlink" ELSE "gone"
        <4>1. name' = name /\ has' = has /\ Destory(p)
            BY <1>3, <2>3 DEF Open
        <4> QED
            BY <1>t, <4>1 DEF Destory
      <3>2. TakenBack(p)' /\ Ahead(p)' /\ OfOne(p)'
          BY <3>1 DEF TakenBack, Ahead, OfOne
      <3> QED
          BY <1>q, <2>1, <2>2, <3>1, <3>2
    <2>4. CASE p \notin primary /\ name[n] # None
      <3>1. /\ name' = name /\ has'[p][n] = name[n] /\ \A m \in Names : m # n => has'[p][m] = has[p][m]
            /\ pc'[p] \in {"map", "open", "check"} /\ at'[p] = IF pc'[p] = "map" THEN k ELSE k + 1
          BY <1>t, <1>3, <2>1, <2>4 DEF Open, Continue, ToSegment
      <3>2. Opened(p)' \subseteq Opened(p) \cup {k}
          BY <2>1, <3>1 DEF Opened
      <3>3. \A l \in Opened(p) : l \in 1..4 /\ l # k /\ OpenOrder[l] \in Names /\ OpenOrder[l] # n
          BY <2>1, Orders
      <3>4. PICK q \in Procs : \A m \in Names : name[m] \in {None, q}
          BY <1>t, <1>c, <2>1, <2>4 DEF OneOwner
      <3>5. name[n] = q
          BY <2>1, <2>4, <3>4
      <3>6. \A s \in primary : pc[s] = "open" /\ at[s] = 1 => name["sem0"] # None
        <4>1. CASE k = 1
            BY <2>4, <4>1, Orders
        <4>2. CASE k # 1
          <5>1. Opened(p) # {}
              BY <2>1, <4>2
          <5> QED
              BY <1>c, <2>1, <2>4, <5>1 DEF OfOne
        <4> QED
            BY <4>1, <4>2
      <3>7. \A l \in Opened(p) : has[p][OpenOrder[l]] = q
          BY <1>c, <2>1, <2>4, <3>5 DEF OfOne
      <3>8. \A l \in Opened(p)' : has'[p][OpenOrder[l]] = q
          BY <3>1, <3>2, <3>3, <3>5, <3>7
      <3>9. \A s \in primary' : pc'[s] = "open" /\ at'[s] = 1 => name'["sem0"] # None
          BY <1>t, <2>1, <2>2, <2>4, <3>1, <3>6
      <3>10. OfOne(p)'
          BY <3>1, <3>4, <3>8, <3>9 DEF OfOne
      <3>11. Created' /\ OneOwner' /\ Prefix'
          BY <1>t, <1>c, <2>1, <2>2, <2>4, <3>1 DEF Created, OneOwner, Prefix
      <3>12. ASSUME NEW s \in primary PROVE TakenBack(s)' /\ Ahead(s)'
        <4>1. pc'[s] = pc[s] /\ at'[s] = at[s] /\ TakenBack(s) /\ Ahead(s)
            BY <1>t, <1>c, <2>2, <2>4
        <4> QED
            BY <3>1, <4>1 DEF TakenBack, Ahead, Opened
      <3>13. ASSUME NEW r \in Procs \ primary, r # p PROVE OfOne(r)'
        <4>1. pc'[r] = pc[r] /\ at'[r] = at[r] /\ has'[r] = has[r] /\ OfOne(r)
            BY <1>c, <2>2, <3>13
        <4> QED
            BY <2>1, <3>1, <3>6, <3>9, <4>1 DEF OfOne, Opened
      <3> QED
          BY <2>1, <3>10, <3>11, <3>12, <3>13
    <2>5. CASE p \in primary /\ name[n] = None
      <3>1. /\ name' = [name EXCEPT ![n] = p]
            /\ pc'[p] \in {"size", "open", "up"} /\ at'[p] = IF pc'[p] = "size" THEN k ELSE k + 1
          BY <1>t, <1>3, <2>5 DEF Open, Continue, ToSegment
      <3>2. \A s \in primary : s # p => pc[s] = "gone" /\ pc'[s] = "gone"
          BY <1>b, <1>t, <2>1, <2>2, <2>5, OthersGone
      <3>3. k # 1 => name["sem0"] = p
        <4>1. k # 1 => 1 \in Opened(p)
            BY <2>1
        <4> QED
            BY <1>b, <2>1, <2>5, <4>1, Orders DEF InstancesInv, Owned
      <3>4. \A s \in primary : pc[s] # "unlink"
          BY <2>1, <3>2
      <3>5. \A l \in 1..3 : name[OpenOrder[l]] = None => name[OpenOrder[l + 1]] = None
          BY <1>c, <3>4 DEF Prefix
      <3>6. \A m \in Names : name'[m] \in {None, p}
        <4>1. CASE k = 1
          <5>1. name[OpenOrder[1]] = None /\ name[OpenOrder[2]] = None
                /\ name[OpenOrder[3]] = None /\ name[OpenOrder[4]] = None
              BY <2>5, <3>5, <4>1
          <5>2. \A l \in 1..4 : l = 1 \/ l = 2 \/ l = 3 \/ l = 4
              OBVIOUS
          <5>3. \A m \in Names : name[m] = None
              BY <5>1, <5>2, Orders
          <5> QED
              BY <1>t, <2>1, <3>1, <5>3
        <4>2. CASE k # 1
          <5>1. "sem0" \in Names
              BY DEF Names
          <5> QED
              BY <1>c, <1>t, <1>n, <2>1, <3>1, <3>3, <4>2, <5>1 DEF OneOwner
        <4> QED
            BY <4>1, <4>2
      <3>7. Created' /\ OneOwner'
          BY <2>1, <2>5, <3>6 DEF Created, OneOwner
      <3>8. Prefix'
        <4> SUFFICES ASSUME NEW l \in 1..3, name'[OpenOrder[l]] = None
                     PROVE  name'[OpenOrder[l + 1]] = None
            BY DEF Prefix
        <4>1. /\ l \in 1..4 /\ l + 1 \in 1..4 /\ l # k /\ name[OpenOrder[l]] = None
              /\ OpenOrder[l] \in Names /\ OpenOrder[l + 1] \in Names
            BY <1>t, <1>n, <2>1, <3>1, Orders
        <4>2. l + 1 # k
          <5>1. l + 1 = k => l \in Opened(p)
              BY <2>1, <4>1
          <5> QED
              BY <1>b, <1>n, <2>1, <2>5, <4>1, <5>1 DEF InstancesInv, Owned
        <4>3. OpenOrder[l + 1] # n
            BY <2>1, <4>1, <4>2, Orders
        <4> QED
            BY <1>t, <3>1, <3>5, <4>1, <4>3
      <3>9. TakenBack(p)' /\ Ahead(p)'
        <4>1. \A l \in (1..4) \ Opened(p)' : pc'[p] # "up" => l \notin Opened(p) /\ l # k
            BY <2>1, <3>1 DEF Opened
        <4>2. \A l \in 1..4 : l # k => OpenOrder[l] # n /\ OpenOrder[l] \in Names
            BY <2>1, Orders
        <4>3. \A l \in (1..4) \ Opened(p) : name[OpenOrder[l]] # p
            BY <1>c, <2>1, <2>5 DEF Ahead
        <4> HIDE DEF n, k
        <4>4. \A l \in (1..4) \ Opened(p)' : pc'[p] # "up" => name'[OpenOrder[l]] # p
            BY <1>t, <3>1, <4>1, <4>2, <4>3
        <4> QED
            BY <3>1, <4>4 DEF TakenBack, Ahead
      <3>10. \A s \in primary : s # p => TakenBack(s)' /\ Ahead(s)'
          BY <3>2 DEF TakenBack, Ahead
      <3>11. \A s \in primary' : pc'[s] = "open" /\ at'[s] = 1 => name'["sem0"] # None
          BY <2>1, <3>1, <3>2
      <3>12. ASSUME NEW r \in Procs \ primary PROVE OfOne(r)'
        <4>1. pc'[r] = pc[r] /\ at'[r] = at[r] /\ has'[r] = has[r] /\ OfOne(r)
            BY <1>c, <2>2, <2>5, <3>12
        <4>2. SUFFICES ASSUME Opened(r) # {}, pc[r] \in {"open", "map", "check", "talk"}
                       PROVE  \A l \in Opened(r) : has[r][OpenOrder[l]] = p
            BY <2>5, <3>6, <3>11, <4>1 DEF OfOne, Opened
        <4>3. PICK q \in Procs : /\ \A l \in Opened(r) : has[r][OpenOrder[l]] = q
                                 /\ \A m \in Names : name[m] \in {None, q}
                                 /\ \A s \in primary : pc[s] = "open" /\ at[s] = 1 => name["sem0"] # None
            BY <4>1, <4>2 DEF OfOne
        <4>4. k # 1
            BY <2>1, <2>5, <4>3, Orders
        <4>5. q = p
            BY <1>n, <2>5, <3>3, <4>3, <4>4 DEF Names
        <4> QED
            BY <4>3, <4>5
      <3> QED
          BY <2>1, <2>5, <3>7, <3>8, <3>9, <3>10, <3>12
    <2> QED
        BY <2>3, <2>4, <2>5
  <1>4. ASSUME NEW p \in Procs, Truncate(p) \/ Map(p) PROVE Kept
    <2>1. /\ pc[p] \in {"size", "map"} /\ at[p] \in 1..4 /\ (pc[p] = "size" => p \in primary)
          /\ UNCHANGED <<name, has, primary>>
        BY <1>t, <1>4 DEF Truncate, Map, Placed
    <2>2. /\ \A q \in Procs : q # p => pc'[q] = pc[q] /\ at'[q] = at[q]
          /\ pc'[p] \in {"map", "open", "up", "check"}
          /\ at'[p] = IF pc'[p] = "map" THEN at[p] ELSE at[p] + 1
        BY <1>t, <1>4, <2>1 DEF Truncate, Map, Continue
    <2>3. Opened(p)' = Opened(p)
        BY <2>1, <2>2 DEF Opened
    <2>4. p \in primary => TakenBack(p)' /\ Ahead(p)'
        BY <1>c, <2>1, <2>2, <2>3 DEF TakenBack, Ahead
    <2>5. \A s \in primary' : pc'[s] = "open" /\ at'[s] = 1 => s \in primary /\ pc[s] = "open" /\ at[s] = 1
        BY <1>t, <2>1, <2>2
    <2>6. p \notin primary => OfOne(p)'
        BY <1>c, <2>1, <2>3, <2>5 DEF OfOne
    <2> QED
        BY <1>q, <2>1, <2>2, <2>4, <2>6
  <1>5. ASSUME NEW p \in Procs, InitFails(p) \/ Stop(p) PROVE Kept
    <2>1. /\ pc[p] # "unlink" /\ UNCHANGED <<name, has, primary>>
          /\ \A q \in Procs : q # p => pc'[q] = pc[q] /\ at'[q] = at[q]
          /\ pc'[p] = (IF p \in primary THEN "unlink" ELSE "gone") /\ at'[p] = 1
        BY <1>t, <1>5 DEF InitFails, Stop, Destory
    <2>2. TakenBack(p)' /\ Ahead(p)' /\ OfOne(p)'
        BY <2>1 DEF TakenBack, Ahead, OfOne
    <2> QED
        BY <1>q, <2>1, <2>2
  <1>6. ASSUME NEW p \in Procs, Check(p) \/ Answer(p) \/ Drain(p) PROVE Kept
    <2>1. /\ pc[p] \in {"check", "talk", "drain"} /\ UNCHANGED <<at, name, has, primary>>
          /\ \A q \in Procs : q # p => pc'[q] = pc[q]
          /\ pc'[p] \in {"talk", "gone"}
          /\ (pc'[p] = "talk" => pc[p] = "check")
        BY <1>t, <1>6 DEF Check, Answer, Drain
    <2>2. TakenBack(p)' /\ Ahead(p)' /\ Opened(p)' = Opened(p)
        BY <2>1 DEF TakenBack, Ahead, Opened
    <2>3. \A s \in primary' : pc'[s] = "open" /\ at'[s] = 1 => s \in primary /\ pc[s] = "open" /\ at[s] = 1
        BY <1>t, <2>1
    <2>4. p \notin primary => OfOne(p)'
        BY <1>c, <2>1, <2>2, <2>3 DEF OfOne
    <2> QED
        BY <1>q, <2>1, <2>2, <2>4
  <1>7. ASSUME NEW p \in Procs, Unlink(p) PROVE Kept
    <2> DEFINE u == UnlinkOrder[at[p]]
    <2>1. /\ pc[p] = "unlink" /\ at[p] \in 1..4 /\ p \in primary \cap Alive /\ u \in Names
          /\ UNCHANGED <<has, primary>> /\ name' = [name EXCEPT ![u] = None]
        BY <1>t, <1>7, Orders DEF Unlink, Placed, Alive
    <2>2. /\ \A q \in Procs : q # p => pc'[q] = pc[q] /\ at'[q] = at[q]
          /\ at'[p] = at[p] + 1 /\ pc'[p] = IF at[p] < 4 THEN "unlink" ELSE "drain"
        BY <1>t, <1>7, <2>1, Orders DEF Unlink
    <2>3. \A s \in primary : s # p => pc[s] = "gone" /\ pc'[s] = "gone"
        BY <1>b, <1>t, <2>1, <2>2, OthersGone
    <2>4. \A m \in Names : name'[m] = None \/ name'[m] = name[m]
        BY <1>t, <2>1
    <2>5. Created' /\ OneOwner'
        BY <1>c, <2>1, <2>4 DEF Created, OneOwner
    <2>6. \A l \in 1..at[p] : name'[UnlinkOrder[l]] = None
      <3>1. \A l \in 1..(at[p] - 1) : name[UnlinkOrder[l]] = None /\ UnlinkOrder[l] \in Names
          BY <1>c, <2>1, Orders DEF TakenBack
      <3>2. \A l \in 1..at[p] : l = at[p] \/ l \in 1..(at[p] - 1)
          BY <2>1
      <3> QED
          BY <1>t, <2>1, <2>4, <3>1, <3>2
    <2>7. TakenBack(p)' /\ Ahead(p)'
      <3>1. pc'[p] = "drain" => \A m \in Names : name'[m] = None
        <4>1. pc'[p] = "drain" => at[p] = 4
            BY <2>1, <2>2
        <4> QED
            BY <2>6, <4>1, Orders
      <3>2. \A l \in 1..(at'[p] - 1) : l \in 1..at[p]
          BY <2>1, <2>2
      <3> QED
          BY <2>2, <2>6, <3>1, <3>2 DEF TakenBack, Ahead
    <2>8. \A s \in primary : s # p => TakenBack(s)' /\ Ahead(s)'
        BY <2>3 DEF TakenBack, Ahead
    <2>9. Prefix'
      <3>1. CASE pc'[p] = "unlink"
          BY <2>1, <3>1 DEF Prefix
      <3>2. CASE pc'[p] = "drain"
        <4>1. \A l \in 1..3 : l + 1 \in 1..4
            OBVIOUS
        <4> QED
            BY <2>7, <3>2, <4>1, Orders DEF Prefix, TakenBack
      <3> QED
          BY <2>2, <3>1, <3>2
    <2>10. ASSUME NEW r \in Procs \ primary PROVE OfOne(r)'
      <3>1. pc'[r] = pc[r] /\ at'[r] = at[r] /\ has' = has /\ OfOne(r)
          BY <1>c, <2>1, <2>2, <2>10
      <3>2. \A s \in primary' : pc'[s] # "open"
          BY <2>1, <2>2, <2>3
      <3> QED
          BY <2>4, <3>1, <3>2 DEF OfOne, Opened
    <2> QED
        BY <2>1, <2>5, <2>7, <2>8, <2>9, <2>10
  <1>8. ASSUME NEW p \in Procs, Kill(p) PROVE Kept
    <2>1. /\ pc[p] # "unlink" /\ pc'[p] = "gone" /\ UNCHANGED <<at, name, has, primary>>
          /\ \A q \in Procs : q # p => pc'[q] = pc[q]
        BY <1>t, <1>8 DEF Kill
    <2>2. TakenBack(p)' /\ Ahead(p)' /\ OfOne(p)'
        BY <2>1 DEF TakenBack, Ahead, OfOne
    <2> QED
        BY <1>q, <2>1, <2>2
  <1>9. CASE UNCHANGED vars
      BY <1>c, <1>9 DEF vars, Created, OneOwner, Prefix, TakenBack, Ahead, OfOne, Opened
  <1> QED
      BY <1>1, <1>2, <1>3, <1>4, <1>5, <1>6, <1>7, <1>8, <1>9 DEF Next

(* Each step keeps the second semaphore behind the length of the first     *)
(* segment.                                                                *)
LEMMA SizedNext ==
  ASSUME InstancesInv, SizedInv, [Next]_vars
  PROVE  SizedInv'
  <1>t. /\ pc \in [Procs -> PCs] /\ at \in [Procs -> 1..5] /\ primary \subseteq Procs
        /\ name \in [Names -> Procs \cup {None}]
        /\ has \in [Procs -> [Names -> Procs \cup {None}]]
        /\ sized \in [Procs -> SUBSET Segments]
        /\ \A p \in Procs : Placed(p)
      BY DEF InstancesInv, TypeOK
  <1>o. /\ \A k \in 1..4 : OpenOrder[k] \in Names
        /\ OpenOrder[2] = "shm0" /\ OpenOrder[3] = "sem1" /\ "shm0" \in Segments /\ "sem1" \notin Segments
        /\ \A k, l \in 1..4 : OpenOrder[k] = OpenOrder[l] => k = l
      BY Orders DEF Segments
  <1>m. "sem1" \in Names
      BY DEF Names
  <1> DEFINE Sized(s) == \A k \in 1..4 :
                OpenOrder[k] \in Segments /\ (k < at[s] \/ (k = at[s] /\ pc[s] = "map"))
                  => OpenOrder[k] \in sized[s]
             Behind == {"open", "size", "map", "up"}
  <1>s. \A s \in primary : pc[s] \in Behind => Sized(s)
      BY DEF SizedInv
  (* Any step keeps the lengths given, and most the names and objects too. *)
  <1>q. ASSUME NEW p \in Procs,
               \A q \in Procs : sized[q] \subseteq sized'[q],
               \A q \in Procs : q # p => pc'[q] = pc[q] /\ at'[q] = at[q],
               primary' = primary,
               p \in primary /\ pc'[p] \in Behind => Sized(p)',
               name'["sem1"] = name["sem1"] \/ name'["sem1"] = None
                 \/ (name'["sem1"] \in Procs /\ "shm0" \in sized[name'["sem1"]]),
               \A r \in Procs : has'[r]["sem1"] \in {has[r]["sem1"], name'["sem1"]}
        PROVE  SizedInv'
    <2>1. ASSUME NEW s \in primary', pc'[s] \in Behind PROVE Sized(s)'
      <3>1. CASE s = p
          BY <1>q, <2>1, <3>1
      <3>2. CASE s # p
        <4>1. s \in Procs /\ s \in primary /\ pc'[s] = pc[s] /\ at'[s] = at[s]
            BY <1>t, <1>q, <2>1, <3>2
        <4> QED
            BY <1>s, <1>q, <2>1, <4>1
      <3> QED
          BY <3>1, <3>2
    <2>2. name'["sem1"] # None => "shm0" \in sized'[name'["sem1"]]
        BY <1>t, <1>m, <1>q DEF SizedInv
    <2>3. ASSUME NEW r \in Procs, has'[r]["sem1"] # None PROVE "shm0" \in sized'[has'[r]["sem1"]]
      <3>1. has[r]["sem1"] \in Procs \cup {None}
          BY <1>t, <1>m
      <3>2. CASE has'[r]["sem1"] = has[r]["sem1"]
          BY <1>q, <2>3, <3>1, <3>2 DEF SizedInv
      <3>3. CASE has'[r]["sem1"] = name'["sem1"]
          BY <2>2, <2>3, <3>3
      <3> QED
          BY <1>q, <3>2, <3>3
    <2> QED
        BY <2>1, <2>2, <2>3 DEF SizedInv
  <1>1. ASSUME NEW p \in Procs, Launch(p) \/ InitFails(p) \/ Check(p) \/ Answer(p) \/ Stop(p) \/ Drain(p) \/ Kill(p)
        PROVE  SizedInv'
    <2>1. /\ UNCHANGED <<name, has, primary, sized>>
          /\ \A q \in Procs : q # p => pc'[q] = pc[q] /\ at'[q] = at[q]
          /\ pc'[p] \in {"count", "talk", "gone", "unlink"}
        BY <1>t, <1>1 DEF Launch, InitFails, Check, Answer, Stop, Drain, Kill, Destory
    <2> QED
        BY <1>q, <2>1
  <1>2. ASSUME NEW p \in Procs, Count(p) PROVE SizedInv'
    <2>1. /\ pc'[p] = "open" /\ at[p] = 1 /\ UNCHANGED <<at, name, has, sized>>
          /\ primary' \subseteq primary \cup {p}
          /\ \A q \in Procs : q # p => pc'[q] = pc[q]
        BY <1>t, <1>2 DEF Count, Placed
    <2>2. Sized(p)'
        BY <2>1
    <2>3. ASSUME NEW s \in primary', pc'[s] \in Behind PROVE Sized(s)'
      <3>1. CASE s # p
          BY <1>s, <1>t, <2>1, <2>3, <3>1
      <3> QED
          BY <2>2, <3>1
    <2> QED
        BY <2>1, <2>3 DEF SizedInv
  <1>3. ASSUME NEW p \in Procs, Open(p) PROVE SizedInv'
    <2> DEFINE k == at[p]
               n == OpenOrder[at[p]]
    <2>1. pc[p] = "open" /\ k \in 1..4 /\ n \in Names /\ UNCHANGED <<primary, sized>>
        BY <1>t, <1>o, <1>3 DEF Open, Placed
    <2>2. Destory(p) \/ (ToSegment(p) /\ n \in Segments) \/ (Continue(p, k) /\ n \notin Segments)
        BY <1>3 DEF Open
    <2>3. /\ \A q \in Procs : q # p => pc'[q] = pc[q] /\ at'[q] = at[q]
          /\ \/ pc'[p] \in {"unlink", "gone"}
             \/ pc'[p] \in {"size", "map"} /\ (p \in primary => pc'[p] = "size") /\ at'[p] = k
             \/ pc'[p] \in {"open", "up", "check"} /\ at'[p] = k + 1 /\ n \notin Segments
        BY <1>t, <2>1, <2>2 DEF Destory, ToSegment, Continue
    <2>4. p \in primary => Sized(p)
        BY <1>s, <2>1
    <2>5. p \in primary /\ pc'[p] \in Behind => Sized(p)'
        BY <2>1, <2>3, <2>4
    <2>6. name' = name \/ (p \in primary /\ name' = [name EXCEPT ![n] = p])
        BY <1>3 DEF Open
    <2>7. p \in primary /\ n = "sem1" => "shm0" \in sized[p]
      <3>1. n = "sem1" => k = 3
          BY <1>o, <2>1
      <3> QED
          BY <1>o, <2>4, <3>1
    <2>8. name'["sem1"] = name["sem1"] \/ (name'["sem1"] = p /\ "shm0" \in sized[p])
        BY <1>t, <1>m, <2>1, <2>6, <2>7
    <2>9. \A r \in Procs : has'[r]["sem1"] \in {has[r]["sem1"], name'["sem1"]}
      <3>1. has' = has \/ has' = [has EXCEPT ![p] = [has[p] EXCEPT ![n] = name'[n]]]
          BY <1>t, <1>3 DEF Open
      <3> QED
          BY <1>t, <1>m, <3>1
    <2> QED
        BY <1>q, <2>1, <2>3, <2>5, <2>8, <2>9
  <1>4. ASSUME NEW p \in Procs, Truncate(p) PROVE SizedInv'
    <2>1. /\ pc[p] = "size" /\ at[p] \in 1..4 /\ pc' = [pc EXCEPT ![p] = "map"]
          /\ sized' = [sized EXCEPT ![p] = @ \cup {OpenOrder[at[p]]}] /\ UNCHANGED <<at, name, has, primary>>
        BY <1>t, <1>4 DEF Truncate, Placed
    <2>2. /\ \A q \in Procs : sized[q] \subseteq sized'[q]
          /\ \A q \in Procs : q # p => pc'[q] = pc[q] /\ at'[q] = at[q]
        BY <1>t, <2>1
    <2>3. OpenOrder[at[p]] \in sized'[p]
        BY <1>t, <2>1
    <2>4. p \in primary => Sized(p)'
        BY <1>s, <1>t, <2>1, <2>2, <2>3
    <2>5. UNCHANGED <<name, has, primary>>
        BY <2>1
    <2> QED
        BY <1>q, <2>2, <2>4, <2>5
  <1>5. ASSUME NEW p \in Procs, Map(p) PROVE SizedInv'
    <2>1. /\ pc[p] = "map" /\ at[p] \in 1..4 /\ UNCHANGED <<name, has, primary, sized>>
          /\ at'[p] = at[p] + 1 /\ \A q \in Procs : q # p => pc'[q] = pc[q] /\ at'[q] = at[q]
        BY <1>t, <1>5 DEF Map, Continue, Placed
    <2>2. p \in primary => Sized(p)'
      <3>1. \A l \in 1..4 : l < at'[p] => l < at[p] \/ l = at[p]
          BY <2>1
      <3>2. pc'[p] # "map"
          BY <1>t, <1>5, <2>1 DEF Map, Continue
      <3>3. p \in primary => Sized(p)
          BY <1>s, <2>1
      <3> QED
          BY <2>1, <3>1, <3>2, <3>3
    <2> QED
        BY <1>q, <2>1, <2>2
  <1>6. ASSUME NEW p \in Procs, Unlink(p) PROVE SizedInv'
    <2>1. /\ pc[p] = "unlink" /\ at[p] \in 1..4 /\ UNCHANGED <<has, primary, sized>>
          /\ name' = [name EXCEPT ![UnlinkOrder[at[p]]] = None] /\ pc'[p] \in {"unlink", "drain"}
          /\ \A q \in Procs : q # p => pc'[q] = pc[q] /\ at'[q] = at[q]
        BY <1>t, <1>6 DEF Unlink, Placed
    <2>2. name'["sem1"] \in {name["sem1"], None}
        BY <1>t, <1>m, <2>1
    <2> QED
        BY <1>q, <2>1, <2>2
  <1>7. CASE UNCHANGED vars
      BY <1>7 DEF vars, SizedInv
  <1> QED
      BY <1>1, <1>2, <1>3, <1>4, <1>5, <1>6, <1>7 DEF Next

(* Each step keeps the names ahead of the service free while nobody is     *)
(* killed.                                                                 *)
LEMMA CleanNext ==
  ASSUME InstancesInv, CleanInv, [Next]_vars
  PROVE  CleanInv'
  <1> DEFINE Free(s) == pc[s] \in {"open", "size", "map"} =>
                \A k \in (1..4) \ Opened(s) : name[OpenOrder[k]] = None
             AllFree == (\A s \in primary : pc[s] = "gone") => \A n \in Names : name[n] = None
             Kept    == (\A s \in primary' : TakenBack(s)' /\ Free(s)') /\ AllFree'
  <1>t. /\ pc \in [Procs -> PCs] /\ at \in [Procs -> 1..5] /\ primary \subseteq Procs
        /\ name \in [Names -> Procs \cup {None}] /\ kills \in Nat
        /\ \A p \in Procs : Placed(p)
      BY InstancesConstants DEF InstancesInv, TypeOK
  <1>k. kills' = 0 => kills = 0 /\ ~\E p \in Procs : Kill(p)
      BY <1>t DEF Next, vars, Launch, Count, Open, Truncate, Map, InitFails, Check, Answer, Stop, Unlink, Drain, Kill
  <1> SUFFICES ASSUME ~blind', kills' = 0 PROVE Kept
      BY DEF CleanInv
  <1>b. ~blind
      BY Remembered
  <1>c. (\A s \in primary : TakenBack(s) /\ Free(s)) /\ AllFree
      BY <1>b, <1>k DEF CleanInv
  (* A step of one process that changes no name. *)
  <1>q. ASSUME NEW p \in Procs, UNCHANGED <<name, primary>>,
               \A q \in Procs : q # p => pc'[q] = pc[q] /\ at'[q] = at[q],
               p \in primary => TakenBack(p)' /\ Free(p)',
               p \in primary /\ pc'[p] = "gone" => pc[p] \in {"drain", "gone"}
        PROVE  Kept
    <2>1. ASSUME NEW s \in primary, s # p PROVE TakenBack(s)' /\ Free(s)'
      <3>1. pc'[s] = pc[s] /\ at'[s] = at[s] /\ name' = name /\ TakenBack(s) /\ Free(s)
          BY <1>t, <1>c, <1>q, <2>1
      <3> QED
          BY <3>1 DEF TakenBack, Opened
    <2>2. AllFree'
      <3>1. CASE p \in primary /\ pc[p] = "drain"
          BY <1>c, <1>q, <3>1 DEF TakenBack
      <3>2. CASE ~(p \in primary /\ pc[p] = "drain")
          BY <1>c, <1>q, <1>t, <3>2
      <3> QED
          BY <3>1, <3>2
    <2> QED
        BY <1>q, <2>1, <2>2
  <1>1. ASSUME NEW p \in Procs, Launch(p) \/ Check(p) \/ Answer(p) PROVE Kept
    <2>1. /\ p \notin primary /\ UNCHANGED <<name, primary>>
          /\ \A q \in Procs : q # p => pc'[q] = pc[q] /\ at'[q] = at[q]
      <3>1. pc[p] \in {"absent", "check", "talk"}
          BY <1>1 DEF Launch, Check, Answer
      <3> QED
          BY <1>t, <1>1, <3>1 DEF Launch, Check, Answer, Placed
    <2> QED
        BY <1>q, <2>1
  <1>2. ASSUME NEW p \in Procs, Count(p) PROVE Kept
    <2>1. /\ pc[p] = "count" /\ pc'[p] = "open" /\ UNCHANGED <<at, name>>
          /\ \A q \in Procs : q # p => pc'[q] = pc[q]
        BY <1>t, <1>2 DEF Count
    <2>2. PICK num \in Counted : /\ primary' = IF num <= 1 THEN primary \cup {p} ELSE primary
                                 /\ blind' = (blind \/ num = 0)
        BY <1>2 DEF Count
    <2>3. p \in Alive /\ p \notin primary
        BY <1>t, <2>1 DEF Placed, Alive
    <2>4. CASE primary' = primary
        BY <1>q, <2>1, <2>3, <2>4
    <2>5. CASE num <= 1 /\ primary' = primary \cup {p}
      <3>1. Alive = {p}
          BY <2>2, <2>3, <2>5, CountedAlone
      <3>2. \A s \in primary : pc[s] = "gone" /\ pc'[s] = "gone"
          BY <1>t, <2>1, <2>3, <3>1 DEF Alive, Placed
      <3>3. \A n \in Names : name'[n] = None
          BY <1>c, <2>1, <3>2
      <3>4. TakenBack(p)' /\ Free(p)'
          BY <2>1, <3>3, Orders DEF TakenBack
      <3>5. \A s \in primary : TakenBack(s)' /\ Free(s)'
          BY <3>2 DEF TakenBack
      <3> QED
          BY <2>5, <3>3, <3>4, <3>5
    <2> QED
        BY <2>2, <2>4, <2>5
  <1>3. ASSUME NEW p \in Procs, Open(p) PROVE Kept
    <2> DEFINE k == at[p]
               n == OpenOrder[at[p]]
    <2>1. /\ pc[p] = "open" /\ k \in 1..4 /\ n \in Names /\ primary' = primary
          /\ Opened(p) = {l \in 1..4 : l < k} /\ p \in Alive
        BY <1>t, <1>3, Orders DEF Open, Placed, Opened, Alive
    <2>2. Destory(p) \/ ToSegment(p) \/ Continue(p, k)
        BY <1>3 DEF Open
    <2>3. \A q \in Procs : q # p => pc'[q] = pc[q] /\ at'[q] = at[q]
        BY <1>t, <2>2 DEF Destory, Continue, ToSegment
    <2>4. CASE name' = name /\ p \notin primary
        BY <1>q, <2>1, <2>3, <2>4
    <2>5. CASE Destory(p) /\ name' = name /\ p \in primary
      <3>1. pc'[p] = "unlink" /\ at'[p] = 1
          BY <1>t, <2>5 DEF Destory
      <3>2. TakenBack(p)' /\ Free(p)'
          BY <3>1 DEF TakenBack
      <3> QED
          BY <1>q, <2>1, <2>3, <2>5, <3>1, <3>2
    <2>6. CASE p \in primary /\ name' = [name EXCEPT ![n] = p] /\ (ToSegment(p) \/ Continue(p, k))
      <3>1. pc'[p] \in {"size", "open", "up"} /\ at'[p] = IF pc'[p] = "size" THEN k ELSE k + 1
          BY <1>t, <2>1, <2>6 DEF Continue, ToSegment
      <3>2. \A s \in primary : s # p => pc[s] = "gone" /\ pc'[s] = "gone"
          BY <1>b, <1>t, <2>1, <2>3, <2>6, OthersGone
      <3>3. TakenBack(p)' /\ Free(p)'
        <4>1. \A l \in (1..4) \ Opened(p)' : pc'[p] # "up" => l \notin Opened(p) /\ l # k
            BY <2>1, <3>1 DEF Opened
        <4>2. \A l \in 1..4 : l # k => OpenOrder[l] # n /\ OpenOrder[l] \in Names
            BY <2>1, Orders
        <4>3. \A l \in (1..4) \ Opened(p) : name[OpenOrder[l]] = None
            BY <1>c, <2>1, <2>6
        <4>4. \A l \in (1..4) \ Opened(p)' : pc'[p] # "up" => name'[OpenOrder[l]] = None
          <5> HIDE DEF n, k
          <5> QED
              BY <1>t, <2>6, <4>1, <4>2, <4>3
        <4> QED
            BY <3>1, <4>4 DEF TakenBack
      <3>4. \A s \in primary : s # p => TakenBack(s)' /\ Free(s)'
          BY <3>2 DEF TakenBack
      <3> QED
          BY <2>1, <2>6, <3>1, <3>3, <3>4
    <2>7. (Destory(p) /\ name' = name) \/ (name' = name /\ p \notin primary)
            \/ (p \in primary /\ name' = [name EXCEPT ![n] = p] /\ (ToSegment(p) \/ Continue(p, k)))
        BY <1>3 DEF Open
    <2> QED
        BY <2>4, <2>5, <2>6, <2>7
  <1>4. ASSUME NEW p \in Procs, Truncate(p) \/ Map(p) PROVE Kept
    <2>1. /\ pc[p] \in {"size", "map"} /\ at[p] \in 1..4 /\ UNCHANGED <<name, primary>>
        BY <1>t, <1>4 DEF Truncate, Map, Placed
    <2>2. /\ \A q \in Procs : q # p => pc'[q] = pc[q] /\ at'[q] = at[q]
          /\ pc'[p] \in {"map", "open", "up", "check"}
          /\ at'[p] = IF pc'[p] = "map" THEN at[p] ELSE at[p] + 1
        BY <1>t, <1>4, <2>1 DEF Truncate, Map, Continue
    <2>3. Opened(p)' = Opened(p)
        BY <2>1, <2>2 DEF Opened
    <2>4. p \in primary => TakenBack(p)' /\ Free(p)'
        BY <1>c, <2>1, <2>2, <2>3 DEF TakenBack
    <2> QED
        BY <1>q, <2>1, <2>2, <2>4
  <1>5. ASSUME NEW p \in Procs, InitFails(p) \/ Stop(p) PROVE Kept
    <2>1. /\ UNCHANGED <<name, primary>>
          /\ \A q \in Procs : q # p => pc'[q] = pc[q] /\ at'[q] = at[q]
          /\ pc'[p] = (IF p \in primary THEN "unlink" ELSE "gone") /\ at'[p] = 1
        BY <1>t, <1>5 DEF InitFails, Stop, Destory
    <2>2. p \in primary => TakenBack(p)' /\ Free(p)'
        BY <2>1 DEF TakenBack
    <2> QED
        BY <1>q, <2>1, <2>2
  <1>6. ASSUME NEW p \in Procs, Drain(p) PROVE Kept
    <2>1. /\ pc[p] = "drain" /\ pc'[p] = "gone" /\ UNCHANGED <<at, name, primary>>
          /\ \A q \in Procs : q # p => pc'[q] = pc[q]
        BY <1>t, <1>6 DEF Drain
    <2>2. TakenBack(p)' /\ Free(p)'
        BY <2>1 DEF TakenBack
    <2> QED
        BY <1>q, <2>1, <2>2
  <1>7. ASSUME NEW p \in Procs, Unlink(p) PROVE Kept
    <2> DEFINE u == UnlinkOrder[at[p]]
    <2>1. /\ pc[p] = "unlink" /\ at[p] \in 1..4 /\ p \in primary \cap Alive /\ u \in Names
          /\ primary' = primary /\ name' = [name EXCEPT ![u] = None]
        BY <1>t, <1>7, Orders DEF Unlink, Placed, Alive
    <2>2. /\ \A q \in Procs : q # p => pc'[q] = pc[q] /\ at'[q] = at[q]
          /\ at'[p] = at[p] + 1 /\ pc'[p] = IF at[p] < 4 THEN "unlink" ELSE "drain"
        BY <1>t, <1>7, <2>1, Orders DEF Unlink
    <2>3. \A s \in primary : s # p => pc[s] = "gone" /\ pc'[s] = "gone"
        BY <1>b, <1>t, <2>1, <2>2, OthersGone
    <2>4. \A m \in Names : name'[m] = None \/ name'[m] = name[m]
        BY <1>t, <2>1
    <2>5. \A l \in 1..at[p] : name'[UnlinkOrder[l]] = None
      <3>1. \A l \in 1..(at[p] - 1) : name[UnlinkOrder[l]] = None /\ UnlinkOrder[l] \in Names
          BY <1>c, <2>1, Orders DEF TakenBack
      <3>2. \A l \in 1..at[p] : l = at[p] \/ l \in 1..(at[p] - 1)
          BY <2>1
      <3> QED
          BY <1>t, <2>1, <2>4, <3>1, <3>2
    <2>6. TakenBack(p)' /\ Free(p)'
      <3>1. pc'[p] = "drain" => at[p] = 4
          BY <2>1, <2>2
      <3>2. pc'[p] = "drain" => \A m \in Names : name'[m] = None
          BY <2>5, <3>1, Orders
      <3>3. \A l \in 1..(at'[p] - 1) : l \in 1..at[p]
          BY <2>1, <2>2
      <3> QED
          BY <2>2, <2>5, <3>2, <3>3 DEF TakenBack
    <2>7. \A s \in primary : s # p => TakenBack(s)' /\ Free(s)'
        BY <2>3 DEF TakenBack
    <2> QED
        BY <2>1, <2>2, <2>6, <2>7
  <1>8. CASE UNCHANGED vars
      BY <1>c, <1>8 DEF vars, TakenBack, Opened
  <1> QED
      BY <1>k, <1>1, <1>2, <1>3, <1>4, <1>5, <1>6, <1>7, <1>8 DEF Next

(* The names, the objects and the lengths stay as the properties need them. *)
THEOREM NamesInvariant == Spec => []NamesInv
  <1>1. InstancesInv /\ InstancesInv' /\ NamesInv /\ [Next]_vars => NamesInv'
      BY CoherentNext, SizedNext, CleanNext DEF NamesInv
  <1> QED
      BY <1>1, NamesInit, InstancesInvariant, PTL DEF Spec

(* Types are kept. *)
THEOREM TypeCorrect == Spec => []TypeOK
  <1>1. InstancesInv => TypeOK
      BY DEF InstancesInv
  <1> QED
      BY <1>1, InstancesInvariant, PTL

(* A client that got through init has four objects of one service, unless  *)
(* a service was killed while it unlinked or a count failed.               *)
THEOREM ObjectsOfOne == Spec => []Coherent
  <1>1. ASSUME InstancesInv, NamesInv PROVE Coherent
    <2> SUFFICES ASSUME ~blind, ~torn, NEW p \in Procs \ primary, pc[p] \in {"check", "talk"}
                 PROVE  \E q \in Procs : \A n \in Names : has[p][n] = q
        BY DEF Coherent
    <2>1. Opened(p) = 1..4
        BY <1>1 DEF InstancesInv, Placed, Opened
    <2>2. Opened(p) # {}
        BY <2>1
    <2>3. PICK q \in Procs : \A k \in 1..4 : has[p][OpenOrder[k]] = q
        BY <1>1, <2>1, <2>2 DEF NamesInv, CoherentInv, OfOne
    <2> QED
        BY <2>3, Orders
  <1> QED
      BY <1>1, InstancesInvariant, NamesInvariant, PTL

(* And the segment it writes its request to has its length.                *)
THEOREM SegmentHasLength == Spec => []RoomToWrite
  <1>1. ASSUME Coherent, NamesInv PROVE RoomToWrite
    <2> SUFFICES ASSUME ~blind, ~torn, NEW p \in Procs \ primary, pc[p] \in {"check", "talk"}
                 PROVE  \E q \in Procs : has[p]["shm0"] = q /\ "shm0" \in sized[q]
        BY DEF RoomToWrite
    <2>1. PICK q \in Procs : \A n \in Names : has[p][n] = q
        BY <1>1 DEF Coherent
    <2>2. "shm0" \in Names /\ "sem1" \in Names
        BY DEF Names
    <2>3. has[p]["shm0"] = q /\ has[p]["sem1"] = q /\ q # None
        BY <2>1, <2>2, InstancesConstants
    <2> QED
        BY <1>1, <2>3 DEF NamesInv, SizedInv
  <1> QED
      BY <1>1, ObjectsOfOne, NamesInvariant, PTL

(* With nobody killed, no name is in the way of a service that starts.     *)
THEOREM NothingInTheWay == Spec => []CleanStart
  <1>1. ASSUME InstancesInv, NamesInv PROVE CleanStart
    <2> SUFFICES ASSUME ~blind, kills = 0, NEW p \in primary, pc[p] = "open"
                 PROVE  name[OpenOrder[at[p]]] = None
        BY DEF CleanStart
    <2>1. p \in Procs /\ at[p] \in 1..4 /\ at[p] \notin Opened(p)
        BY <1>1 DEF InstancesInv, TypeOK, Placed, Opened
    <2> QED
        BY <1>1, <2>1 DEF NamesInv, CleanInv
  <1> QED
      BY <1>1, InstancesInvariant, NamesInvariant, PTL
=============================================================================
