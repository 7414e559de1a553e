-------------------------- MODULE ThreadPoolProofs --------------------------
(***************************************************************************)
(* Proofs about ThreadPool for any number of workers, callers and jobs.    *)
(* PoolInv is the inductive invariant; one lemma shows, action by action,  *)
(* that each of its conjuncts is kept.                                     *)
(***************************************************************************)
EXTENDS ThreadPool, SequenceTheorems, TLAPS

(* The thread pthread_create starts is a new one. *)
LEMMA NewThread ==
  ASSUME PoolInv, CreateThread
  PROVE  /\ count + 1 \in Workers
         /\ wpc[count + 1] = "absent"
         /\ wpc'[count + 1] = "lock"
         /\ \A w \in Workers : w # count + 1 => wpc'[w] = wpc[w]
BY PoolConstants DEF PoolInv, TypeOK, PhaseInv, CreateThread, Workers

(* A signal or a broadcast moves threads out of pthread_cond_wait and does
   nothing else to them. *)
LEMMA WokenOnly ==
  ASSUME PoolInv, Broadcast \/ \E c \in Callers : Signal(c)
  PROVE  \A w \in Workers : \/ wpc'[w] = wpc[w]
                            \/ wpc[w] = "waiting" /\ wpc'[w] = "relock"
BY DEF PoolInv, TypeOK, Broadcast, Signal, Waiting

(* The pool starts in the invariant: no thread, no work, no pool. *)
LEMMA PoolInit == Init => PoolInv
<1> SUFFICES ASSUME Init PROVE PoolInv
  OBVIOUS
<1> USE PoolConstants, PoolNames DEF Init, Workers
<1>1. TypeOK
  BY DEF TypeOK, WorkerPCs, CallerPCs, OwnerPCs, Setup
<1>2. HolderInv /\ MutexInv /\ CarryInv
  BY DEF CarryInv, HolderInv, MutexInv, Inside
<1>3. PhaseInv
  BY DEF PhaseInv, Setup
<1>4. TestedInv /\ NoLostWakeup
  BY DEF TestedInv, NoLostWakeup
<1>5. FreshInv
  BY DEF FreshInv, Taken, Pending
<1>6. CountMatchesList
  BY DEF CountMatchesList, Midway
<1>. QED
  BY <1>1, <1>2, <1>3, <1>4, <1>5, <1>6 DEF PoolInv, OrderlyInv

(* A call that took the mutex too early stays so recorded. *)
LEMMA EarlyStays == PoolInv /\ [Next]_vars /\ early' = 0 => early = 0
<1> SUFFICES ASSUME PoolInv, [Next]_vars, early = 1 PROVE early' = 1
  BY DEF PoolInv, TypeOK
<1> USE DEF callers
<1>1. CASE OwnerCode \/ CreateFails \/ SetShutdown
  BY <1>1 DEF OwnerCode, AllocatePool, ResetCount, ResetList, InitLock, CreateThread, Broadcast, Join, FreePool,
     CreateFails, SetShutdown
<1>2. ASSUME NEW c \in Callers, CallerLock(c) \/ CallerCode(c) \/ WalkNull(c)
      PROVE  early' = 1
  BY <1>2 DEF CallerLock, CallerCode, Insert, Count, Signal, WalkNull
<1>3. ASSUME NEW c \in Callers, NEW j \in Jobs, AddWork(c, j) \/ AddWorkFails(c, j)
      PROVE  early' = 1
  BY <1>3 DEF AddWork, AddWorkFails
<1>4. ASSUME NEW w \in Workers, Lock(w) \/ WorkerCode(w) \/ SpuriousWakeup(w) \/ Run(w)
      PROVE  early' = 1
  BY <1>4 DEF Lock, WorkerCode, Check, Wait, Exit, Decide, Pop, PopNull, SpuriousWakeup, Run
<1>5. ASSUME NEW w \in Workers, NEW v \in Workers, PopBoth(w, v)
      PROVE  early' = 1
  BY <1>5 DEF PopBoth
<1>6. CASE UNCHANGED vars
  BY <1>6 DEF vars
<1>. QED
  BY <1>1, <1>2, <1>3, <1>4, <1>5, <1>6 DEF Next

(* Only callers that took the mutex too early meet others in its section: when
   none did, whoever is there is alone, so nothing it writes is written over
   and it finds what it dereferences. *)
LEMMA Alone ==
  ASSUME PoolInv, early = 0
  PROVE  /\ \A c \in Callers : /\ Insert(c) => workerlist' = Append(workerlist, cjob[c])
                               /\ Count(c) => workernum' = workernum + 1
                               /\ ~WalkNull(c)
         /\ \A w \in Workers : /\ Decide(w) => workernum' = workernum - 1
                               /\ ~PopNull(w)
                               /\ \A v \in Workers : ~PopBoth(w, v)
<1>1. \A t, u \in Inside : t = u
  BY DEF PoolInv, OrderlyInv, MutexInv
<1>2. \A t \in Inside : ~CounterRace(t) /\ ~ListRace(t)
  BY <1>1 DEF CounterRace, ListRace, Inside
<1>3. \A w \in Workers : wpc[w] = "pop" => workerlist # <<>>
  BY DEF PoolInv, CountMatchesList
<1>4. \A c \in Callers : cpc[c] \in {"insert", "count"} => c \in Inside
  BY DEF Inside
<1>5. \A w \in Workers : wpc[w] \in {"decide", "pop"} => w \in Inside
  BY DEF Inside
<1>. QED
  BY <1>1, <1>2, <1>3, <1>4, <1>5 DEF Insert, Count, Decide, WalkNull, PopNull, PopBoth

-----------------------------------------------------------------------------
(* Every step keeps the types.  A removal needs a non-empty list, a decrement
   a positive counter, an insertion a node that carries work. *)
LEMMA TypeStep == PoolInv /\ [Next]_vars => TypeOK'
<1> SUFFICES ASSUME PoolInv, [Next]_vars PROVE TypeOK'
  OBVIOUS
<1> USE PoolConstants, PoolNames DEF PoolInv, TypeOK, Workers, shared, workers, callers, owner, WorkerPCs, CallerPCs, OwnerPCs, Setup
<1>1. CASE AllocatePool
  BY <1>1 DEF AllocatePool
<1>2. CASE CreateThread
  BY <1>2 DEF CreateThread
<1>3. CASE CreateFails
  BY <1>3 DEF CreateFails
<1>4. CASE SetShutdown
  BY <1>4 DEF SetShutdown
<1>5. CASE Broadcast
  BY <1>5 DEF Broadcast
<1>6. CASE Join
  BY <1>6 DEF Join
<1>7. CASE FreePool
  BY <1>7 DEF FreePool
<1>8. ASSUME NEW c \in Callers, NEW j \in Jobs, AddWork(c, j) PROVE TypeOK'
  BY <1>8 DEF AddWork
<1>9. ASSUME NEW c \in Callers, NEW j \in Jobs, AddWorkFails(c, j) PROVE TypeOK'
  BY <1>9 DEF AddWorkFails
<1>10. ASSUME NEW c \in Callers, CallerLock(c) PROVE TypeOK'
  BY <1>10 DEF CallerLock
<1>11. ASSUME NEW c \in Callers, Insert(c) PROVE TypeOK'
  <2>1. cjob[c] \in Jobs
    BY <1>11 DEF Insert, CarryInv
  <2>2. workerlist' \in Seq(Jobs)
    <3>1. Append(workerlist, cjob[c]) \in Seq(Jobs)
      BY <2>1, AppendProperties
    <3>2. workerlist' = Append(workerlist, cjob[c]) \/ workerlist' = workerlist
      BY <1>11 DEF Insert
    <3>. QED
      BY <3>1, <3>2
  <2>. QED
    BY <1>11, <2>2 DEF Insert
<1>12. ASSUME NEW c \in Callers, Count(c) PROVE TypeOK'
  BY <1>12 DEF Count
<1>13. ASSUME NEW c \in Callers, Signal(c) PROVE TypeOK'
  BY <1>13 DEF Signal
<1>14. ASSUME NEW w \in Workers, Lock(w) PROVE TypeOK'
  BY <1>14 DEF Lock
<1>15. ASSUME NEW w \in Workers, Check(w) PROVE TypeOK'
  BY <1>15 DEF Check
<1>16. ASSUME NEW w \in Workers, Wait(w) PROVE TypeOK'
  BY <1>16 DEF Wait
<1>17. ASSUME NEW w \in Workers, SpuriousWakeup(w) PROVE TypeOK'
  BY <1>17 DEF SpuriousWakeup
<1>18. ASSUME NEW w \in Workers, Exit(w) PROVE TypeOK'
  BY <1>18 DEF Exit
<1>19. ASSUME NEW w \in Workers, Decide(w) PROVE TypeOK'
  BY <1>19 DEF Decide
<1>20. ASSUME NEW w \in Workers, Pop(w) PROVE TypeOK'
  <2>1. workerlist # <<>>
    BY <1>20 DEF Pop
  <2>2. Head(workerlist) \in Jobs /\ Tail(workerlist) \in Seq(Jobs)
    BY <2>1, HeadTailProperties
  <2>. QED
    BY <1>20, <2>2 DEF Pop
<1>21. ASSUME NEW w \in Workers, Run(w) PROVE TypeOK'
  BY <1>21 DEF Run, CarryInv
<1>22. CASE UNCHANGED vars
  BY <1>22 DEF vars
<1>23. CASE ResetCount
  BY <1>23 DEF ResetCount
<1>24. CASE ResetList
  BY <1>24 DEF ResetList
<1>25. CASE InitLock
  BY <1>25 DEF InitLock
<1>26. ASSUME NEW c \in Callers, WalkNull(c) PROVE TypeOK'
  BY <1>26 DEF WalkNull
<1>27. ASSUME NEW w \in Workers, PopNull(w) PROVE TypeOK'
  BY <1>27 DEF PopNull
<1>28. ASSUME NEW w \in Workers, NEW v \in Workers, PopBoth(w, v) PROVE TypeOK'
  <2>1. Head(workerlist) \in Jobs /\ Tail(workerlist) \in Seq(Jobs)
    BY <1>28, HeadTailProperties DEF PopBoth
  <2>. QED
    BY <1>28, <2>1 DEF PopBoth
<1>. QED
  BY <1>1, <1>2, <1>3, <1>4, <1>5, <1>6, <1>7, <1>8, <1>9, <1>10, <1>11, <1>12, <1>13, <1>14, <1>15, <1>16, <1>17, <1>18, <1>19, <1>20, <1>21, <1>22, <1>23, <1>24, <1>25, <1>26, <1>27, <1>28
  DEF Next, OwnerCode, CallerCode, WorkerCode

-----------------------------------------------------------------------------
(* A call has its work in hand before it takes the mutex, a worker from the
   removal to the end of the callback. *)
LEMMA CarryStep == PoolInv /\ [Next]_vars => CarryInv'
<1> SUFFICES ASSUME PoolInv, [Next]_vars PROVE CarryInv'
  OBVIOUS
<1> USE PoolConstants, PoolNames DEF PoolInv, TypeOK, CarryInv, Workers, shared, workers, callers, owner
<1>1. CASE AllocatePool \/ ResetCount \/ ResetList \/ InitLock
  BY <1>1 DEF AllocatePool, ResetCount, ResetList, InitLock
<1>2. CASE CreateThread
  BY <1>2, NewThread DEF CreateThread
<1>3. CASE CreateFails \/ SetShutdown \/ Join \/ FreePool
  BY <1>3 DEF CreateFails, SetShutdown, Join, FreePool
<1>4. CASE Broadcast
  BY <1>4, WokenOnly DEF Broadcast
<1>5. ASSUME NEW c \in Callers, NEW j \in Jobs, AddWork(c, j) \/ AddWorkFails(c, j)
      PROVE  CarryInv'
  BY <1>5 DEF AddWork, AddWorkFails
<1>6. ASSUME NEW c \in Callers, CallerLock(c) \/ Insert(c) \/ Count(c) \/ WalkNull(c)
      PROVE  CarryInv'
  BY <1>6 DEF CallerLock, Insert, Count, WalkNull
<1>7. ASSUME NEW c \in Callers, Signal(c) PROVE CarryInv'
  BY <1>7, WokenOnly DEF Signal
<1>8. ASSUME NEW w \in Workers, Lock(w) \/ Check(w) \/ SpuriousWakeup(w) \/ Decide(w) \/ PopNull(w)
      PROVE  CarryInv'
  BY <1>8 DEF Lock, Check, SpuriousWakeup, Decide, PopNull
<1>9. ASSUME NEW w \in Workers, Wait(w) \/ Exit(w) \/ Run(w)
      PROVE  CarryInv'
  BY <1>9 DEF Wait, Exit, Run
<1>10. ASSUME NEW w \in Workers, Pop(w) \/ \E v \in Workers : PopBoth(w, v)
       PROVE  CarryInv'
  <2>1. Head(workerlist) \in Jobs
    BY <1>10, HeadTailProperties DEF Pop, PopBoth
  <2>. QED
    BY <1>10, <2>1 DEF Pop, PopBoth
<1>11. CASE UNCHANGED vars
  BY <1>11 DEF vars
<1>. QED
  BY <1>1, <1>2, <1>3, <1>4, <1>5, <1>6, <1>7, <1>8, <1>9, <1>10, <1>11 DEF Next, OwnerCode, CallerCode, WorkerCode

-----------------------------------------------------------------------------
(* Who takes the mutex enters, who leaves frees it; pthread_mutex_init frees it. *)
LEMMA HolderStep == PoolInv /\ [Next]_vars => HolderInv'
<1> SUFFICES ASSUME PoolInv, [Next]_vars PROVE HolderInv'
  OBVIOUS
<1> USE PoolConstants, PoolNames DEF PoolInv, TypeOK, HolderInv, Inside, Workers, shared, workers, callers, owner
<1>1. CASE AllocatePool \/ ResetCount \/ ResetList \/ InitLock
  BY <1>1 DEF AllocatePool, ResetCount, ResetList, InitLock
<1>2. CASE CreateThread
  BY <1>2, NewThread DEF CreateThread
<1>3. CASE CreateFails \/ SetShutdown \/ Join \/ FreePool
  BY <1>3 DEF CreateFails, SetShutdown, Join, FreePool
<1>4. CASE Broadcast
  BY <1>4, WokenOnly DEF Broadcast
<1>5. ASSUME NEW c \in Callers, NEW j \in Jobs, AddWork(c, j) \/ AddWorkFails(c, j)
      PROVE  HolderInv'
  BY <1>5 DEF AddWork, AddWorkFails
<1>6. ASSUME NEW c \in Callers, CallerLock(c) \/ Insert(c) \/ Count(c) \/ WalkNull(c)
      PROVE  HolderInv'
  BY <1>6 DEF CallerLock, Insert, Count, WalkNull
<1>7. ASSUME NEW c \in Callers, Signal(c) PROVE HolderInv'
  BY <1>7, WokenOnly DEF Signal
<1>8. ASSUME NEW w \in Workers, Lock(w) \/ Check(w) \/ SpuriousWakeup(w) \/ Decide(w) \/ PopNull(w) \/ Run(w)
      PROVE  HolderInv'
  BY <1>8 DEF Lock, Check, SpuriousWakeup, Decide, PopNull, Run
<1>9. ASSUME NEW w \in Workers, Wait(w) \/ Exit(w) \/ Pop(w) \/ \E v \in Workers : PopBoth(w, v)
      PROVE  HolderInv'
  BY <1>9 DEF Wait, Exit, Pop, PopBoth
<1>10. CASE UNCHANGED vars
  BY <1>10 DEF vars
<1>. QED
  BY <1>1, <1>2, <1>3, <1>4, <1>5, <1>6, <1>7, <1>8, <1>9, <1>10 DEF Next, OwnerCode, CallerCode, WorkerCode

-----------------------------------------------------------------------------
(* A thread that takes the mutex found it free, one that releases it held it. *)
LEMMA MutexStep == PoolInv /\ [Next]_vars /\ early' = 0 => MutexInv'
<1> SUFFICES ASSUME PoolInv, early = 0, [Next]_vars, early' = 0 PROVE MutexInv'
  BY EarlyStays
<1> USE PoolConstants, PoolNames DEF PoolInv, OrderlyInv, TypeOK, MutexInv, Inside, Workers, shared, workers, callers, owner
<1>1. CASE AllocatePool
  BY <1>1 DEF AllocatePool
<1>2. CASE CreateThread
  <2>1. \A t \in Workers : t \in Inside' <=> t \in Inside
    BY <1>2, NewThread DEF CreateThread
  <2>. QED
    BY <1>2, <2>1 DEF CreateThread
<1>3. CASE CreateFails
  BY <1>3 DEF CreateFails
<1>4. CASE SetShutdown
  BY <1>4 DEF SetShutdown
<1>5. CASE Broadcast
  BY <1>5, WokenOnly DEF Broadcast
<1>6. CASE Join
  BY <1>6 DEF Join
<1>7. CASE FreePool
  BY <1>7 DEF FreePool
<1>8. ASSUME NEW c \in Callers, NEW j \in Jobs, AddWork(c, j) PROVE MutexInv'
  BY <1>8 DEF AddWork
<1>9. ASSUME NEW c \in Callers, NEW j \in Jobs, AddWorkFails(c, j) PROVE MutexInv'
  BY <1>9 DEF AddWorkFails
<1>10. ASSUME NEW c \in Callers, CallerLock(c) PROVE MutexInv'
  BY <1>10 DEF CallerLock
<1>11. ASSUME NEW c \in Callers, Insert(c) PROVE MutexInv'
  BY <1>11 DEF Insert
<1>12. ASSUME NEW c \in Callers, Count(c) PROVE MutexInv'
  <2>1. \A t \in Workers \cup Callers : t # c => (t \in Inside' <=> t \in Inside)
    BY <1>12 DEF Count
  <2>2. c \in Inside /\ c \notin Inside'
    BY <1>12 DEF Count
  <2>. QED
    BY <1>12, <2>1, <2>2 DEF Count
<1>13. ASSUME NEW c \in Callers, Signal(c) PROVE MutexInv'
  BY <1>13, WokenOnly DEF Signal
<1>14. ASSUME NEW w \in Workers, Lock(w) PROVE MutexInv'
  BY <1>14 DEF Lock
<1>15. ASSUME NEW w \in Workers, Check(w) PROVE MutexInv'
  BY <1>15 DEF Check
<1>16. ASSUME NEW w \in Workers, Wait(w) PROVE MutexInv'
  <2>1. \A t \in Workers \cup Callers : t # w => (t \in Inside' <=> t \in Inside)
    BY <1>16 DEF Wait
  <2>2. w \in Inside /\ w \notin Inside'
    BY <1>16 DEF Wait
  <2>. QED
    BY <1>16, <2>1, <2>2 DEF Wait
<1>17. ASSUME NEW w \in Workers, SpuriousWakeup(w) PROVE MutexInv'
  BY <1>17 DEF SpuriousWakeup
<1>18. ASSUME NEW w \in Workers, Exit(w) PROVE MutexInv'
  <2>1. \A t \in Workers \cup Callers : t # w => (t \in Inside' <=> t \in Inside)
    BY <1>18 DEF Exit
  <2>2. w \in Inside /\ w \notin Inside'
    BY <1>18 DEF Exit
  <2>. QED
    BY <1>18, <2>1, <2>2 DEF Exit
<1>19. ASSUME NEW w \in Workers, Decide(w) PROVE MutexInv'
  BY <1>19 DEF Decide
<1>20. ASSUME NEW w \in Workers, Pop(w) PROVE MutexInv'
  <2>1. \A t \in Workers \cup Callers : t # w => (t \in Inside' <=> t \in Inside)
    BY <1>20 DEF Pop
  <2>2. w \in Inside /\ w \notin Inside'
    BY <1>20 DEF Pop
  <2>. QED
    BY <1>20, <2>1, <2>2 DEF Pop
<1>21. ASSUME NEW w \in Workers, Run(w) PROVE MutexInv'
  BY <1>21 DEF Run
<1>22. CASE UNCHANGED vars
  BY <1>22 DEF vars
<1>23. CASE ResetCount
  BY <1>23 DEF ResetCount, PhaseInv, Setup
<1>24. CASE ResetList
  BY <1>24 DEF ResetList, PhaseInv, Setup
<1>25. CASE InitLock
  BY <1>25 DEF InitLock, PhaseInv, Setup
<1>. QED
  BY Alone, <1>1, <1>2, <1>3, <1>4, <1>5, <1>6, <1>7, <1>8, <1>9, <1>10, <1>11, <1>12, <1>13, <1>14, <1>15, <1>16, <1>17, <1>18, <1>19, <1>20, <1>21, <1>22, <1>23, <1>24, <1>25
  DEF Next, OwnerCode, CallerCode, WorkerCode

-----------------------------------------------------------------------------
(* What the place of the owner says stays true: the owner moves alone, and the
   other threads exit only once the flag is set. *)
LEMMA PhaseStep == PoolInv /\ [Next]_vars => PhaseInv'
<1> SUFFICES ASSUME PoolInv, [Next]_vars PROVE PhaseInv'
  OBVIOUS
<1> USE PoolConstants, PoolNames DEF PoolInv, TypeOK, PhaseInv, Setup, Workers, shared, workers, callers, owner
<1>1. CASE AllocatePool
  BY <1>1 DEF AllocatePool
<1>2. CASE CreateThread
  BY <1>2 DEF CreateThread
<1>3. CASE CreateFails
  BY <1>3 DEF CreateFails
<1>4. CASE SetShutdown
  BY <1>4 DEF SetShutdown
<1>5. CASE Broadcast
  BY <1>5, WokenOnly DEF Broadcast
<1>6. CASE Join
  BY <1>6 DEF Join
<1>7. CASE FreePool
  BY <1>7 DEF FreePool
<1>8. ASSUME NEW c \in Callers, NEW j \in Jobs, AddWork(c, j) PROVE PhaseInv'
  BY <1>8 DEF AddWork
<1>9. ASSUME NEW c \in Callers, NEW j \in Jobs, AddWorkFails(c, j) PROVE PhaseInv'
  BY <1>9 DEF AddWorkFails
<1>10. ASSUME NEW c \in Callers, CallerLock(c) PROVE PhaseInv'
  BY <1>10 DEF CallerLock
<1>11. ASSUME NEW c \in Callers, Insert(c) PROVE PhaseInv'
  BY <1>11 DEF Insert
<1>12. ASSUME NEW c \in Callers, Count(c) PROVE PhaseInv'
  BY <1>12 DEF Count
<1>13. ASSUME NEW c \in Callers, Signal(c) PROVE PhaseInv'
  BY <1>13, WokenOnly DEF Signal
<1>14. ASSUME NEW w \in Workers, Lock(w) PROVE PhaseInv'
  BY <1>14 DEF Lock
<1>15. ASSUME NEW w \in Workers, Check(w) PROVE PhaseInv'
  BY <1>15 DEF Check
<1>16. ASSUME NEW w \in Workers, Wait(w) PROVE PhaseInv'
  BY <1>16 DEF Wait
<1>17. ASSUME NEW w \in Workers, SpuriousWakeup(w) PROVE PhaseInv'
  BY <1>17 DEF SpuriousWakeup
<1>18. ASSUME NEW w \in Workers, Exit(w) PROVE PhaseInv'
  BY <1>18 DEF Exit
<1>19. ASSUME NEW w \in Workers, Decide(w) PROVE PhaseInv'
  BY <1>19 DEF Decide
<1>20. ASSUME NEW w \in Workers, Pop(w) PROVE PhaseInv'
  BY <1>20 DEF Pop
<1>21. ASSUME NEW w \in Workers, Run(w) PROVE PhaseInv'
  BY <1>21 DEF Run
<1>22. CASE UNCHANGED vars
  BY <1>22 DEF vars
<1>23. CASE ResetCount
  BY <1>23 DEF ResetCount
<1>24. CASE ResetList
  BY <1>24 DEF ResetList
<1>25. CASE InitLock
  BY <1>25 DEF InitLock
<1>26. ASSUME NEW c \in Callers, WalkNull(c) PROVE PhaseInv'
  BY <1>26 DEF WalkNull
<1>27. ASSUME NEW w \in Workers, PopNull(w) PROVE PhaseInv'
  BY <1>27 DEF PopNull
<1>28. ASSUME NEW w \in Workers, NEW v \in Workers, PopBoth(w, v) PROVE PhaseInv'
  BY <1>28 DEF PopBoth
<1>. QED
  BY <1>1, <1>2, <1>3, <1>4, <1>5, <1>6, <1>7, <1>8, <1>9, <1>10, <1>11, <1>12, <1>13, <1>14, <1>15, <1>16, <1>17, <1>18, <1>19, <1>20, <1>21, <1>22, <1>23, <1>24, <1>25, <1>26, <1>27, <1>28
  DEF Next, OwnerCode, CallerCode, WorkerCode

-----------------------------------------------------------------------------
(* Between a test and the step that relies on it the mutex is held, so nobody
   else moves the counter; only the flag can change, and only to 1. *)
LEMMA TestedStep == PoolInv /\ [Next]_vars /\ early' = 0 => TestedInv'
<1> SUFFICES ASSUME PoolInv, early = 0, [Next]_vars, early' = 0 PROVE TestedInv'
  BY EarlyStays
<1> USE PoolConstants, PoolNames DEF PoolInv, OrderlyInv, TypeOK, MutexInv, Inside, TestedInv, Workers, shared, workers, callers, owner
<1>1. CASE AllocatePool
  BY <1>1 DEF AllocatePool
<1>2. CASE CreateThread
  BY <1>2, NewThread DEF CreateThread
<1>3. CASE CreateFails
  BY <1>3 DEF CreateFails
<1>4. CASE SetShutdown
  BY <1>4 DEF SetShutdown
<1>5. CASE Broadcast
  BY <1>5, WokenOnly DEF Broadcast
<1>6. CASE Join
  BY <1>6 DEF Join
<1>7. CASE FreePool
  BY <1>7 DEF FreePool
<1>8. ASSUME NEW c \in Callers, NEW j \in Jobs, AddWork(c, j) PROVE TestedInv'
  BY <1>8 DEF AddWork
<1>9. ASSUME NEW c \in Callers, NEW j \in Jobs, AddWorkFails(c, j) PROVE TestedInv'
  BY <1>9 DEF AddWorkFails
<1>10. ASSUME NEW c \in Callers, CallerLock(c) PROVE TestedInv'
  BY <1>10 DEF CallerLock
<1>11. ASSUME NEW c \in Callers, Insert(c) PROVE TestedInv'
  BY <1>11, Alone DEF Insert
<1>12. ASSUME NEW c \in Callers, Count(c) PROVE TestedInv'
  BY <1>12, Alone DEF Count
<1>13. ASSUME NEW c \in Callers, Signal(c) PROVE TestedInv'
  BY <1>13, WokenOnly DEF Signal
<1>14. ASSUME NEW w \in Workers, Lock(w) PROVE TestedInv'
  BY <1>14 DEF Lock
<1>15. ASSUME NEW w \in Workers, Check(w) PROVE TestedInv'
  <2>1. ~Midway
    BY <1>15 DEF Check, Midway
  <2>2. workernum \in Nat
    BY <2>1 DEF CountMatchesList
  <2>. QED
    BY <1>15, <2>2 DEF Check
<1>16. ASSUME NEW w \in Workers, Wait(w) PROVE TestedInv'
  BY <1>16 DEF Wait
<1>17. ASSUME NEW w \in Workers, SpuriousWakeup(w) PROVE TestedInv'
  BY <1>17 DEF SpuriousWakeup
<1>18. ASSUME NEW w \in Workers, Exit(w) PROVE TestedInv'
  BY <1>18 DEF Exit
<1>19. ASSUME NEW w \in Workers, Decide(w) PROVE TestedInv'
  BY <1>19, Alone DEF Decide
<1>20. ASSUME NEW w \in Workers, Pop(w) PROVE TestedInv'
  <2>1. workerlist # <<>>
    BY <1>20 DEF Pop, CountMatchesList
  <2>2. Head(workerlist) \in Jobs
    BY <2>1, HeadTailProperties
  <2>. QED
    BY <1>20, <2>2 DEF Pop
<1>21. ASSUME NEW w \in Workers, Run(w) PROVE TestedInv'
  BY <1>21 DEF Run
<1>22. CASE UNCHANGED vars
  BY <1>22 DEF vars
<1>23. CASE ResetCount
  BY <1>23 DEF ResetCount, PhaseInv, Setup
<1>24. CASE ResetList
  BY <1>24 DEF ResetList, PhaseInv, Setup
<1>25. CASE InitLock
  BY <1>25 DEF InitLock, PhaseInv, Setup
<1>. QED
  BY Alone, <1>1, <1>2, <1>3, <1>4, <1>5, <1>6, <1>7, <1>8, <1>9, <1>10, <1>11, <1>12, <1>13, <1>14, <1>15, <1>16, <1>17, <1>18, <1>19, <1>20, <1>21, <1>22, <1>23, <1>24, <1>25
  DEF Next, OwnerCode, CallerCode, WorkerCode

-----------------------------------------------------------------------------
(* Work is offered once, so what a caller is about to insert is nowhere else. *)
LEMMA FreshStep == PoolInv /\ [Next]_vars /\ early' = 0 => FreshInv'
<1> SUFFICES ASSUME PoolInv, early = 0, [Next]_vars, early' = 0 PROVE FreshInv'
  BY EarlyStays
<1> USE PoolConstants, PoolNames DEF PoolInv, OrderlyInv, TypeOK, CarryInv, FreshInv, Pending, Taken, Workers, shared, workers, callers, owner
<1>1. CASE AllocatePool
  BY <1>1 DEF AllocatePool
<1>2. CASE CreateThread
  BY <1>2 DEF CreateThread
<1>3. CASE CreateFails
  BY <1>3 DEF CreateFails
<1>4. CASE SetShutdown
  BY <1>4 DEF SetShutdown
<1>5. CASE Broadcast
  BY <1>5 DEF Broadcast
<1>6. CASE Join
  BY <1>6 DEF Join
<1>7. CASE FreePool
  BY <1>7 DEF FreePool
<1>8. ASSUME NEW c \in Callers, NEW j \in Jobs, AddWork(c, j) PROVE FreshInv'
  BY <1>8 DEF AddWork
<1>9. ASSUME NEW c \in Callers, NEW j \in Jobs, AddWorkFails(c, j) PROVE FreshInv'
  BY <1>9 DEF AddWorkFails
<1>10. ASSUME NEW c \in Callers, CallerLock(c) PROVE FreshInv'
  BY <1>10 DEF CallerLock
<1>11. ASSUME NEW c \in Callers, Insert(c) PROVE FreshInv'
  <2>1. workerlist' = Append(workerlist, cjob[c])
    BY <1>11, Alone
  <2>3. UNCHANGED <<held, finished, cjob, offered>> /\ cpc' = [cpc EXCEPT ![c] = "count"]
        /\ cjob[c] \in offered
    BY <1>11 DEF Insert
  <2>2. Taken' \subseteq Taken \cup {cjob[c]}
    BY <2>1, <2>3
  <2>. QED
    BY <1>11, <2>2, <2>3 DEF Insert
<1>12. ASSUME NEW c \in Callers, Count(c) PROVE FreshInv'
  BY <1>12, Alone DEF Count
<1>13. ASSUME NEW c \in Callers, Signal(c) PROVE FreshInv'
  BY <1>13 DEF Signal
<1>14. ASSUME NEW w \in Workers, Lock(w) PROVE FreshInv'
  BY <1>14 DEF Lock
<1>15. ASSUME NEW w \in Workers, Check(w) PROVE FreshInv'
  BY <1>15 DEF Check
<1>16. ASSUME NEW w \in Workers, Wait(w) PROVE FreshInv'
  BY <1>16 DEF Wait
<1>17. ASSUME NEW w \in Workers, SpuriousWakeup(w) PROVE FreshInv'
  BY <1>17 DEF SpuriousWakeup
<1>18. ASSUME NEW w \in Workers, Exit(w) PROVE FreshInv'
  BY <1>18 DEF Exit
<1>19. ASSUME NEW w \in Workers, Decide(w) PROVE FreshInv'
  BY <1>19, Alone DEF Decide
<1>20. ASSUME NEW w \in Workers, Pop(w) PROVE FreshInv'
  <2>1. workerlist # <<>>
    BY <1>20 DEF Pop, CountMatchesList
  <2>2. Len(workerlist') = Len(workerlist) - 1
    BY <1>20, <2>1, HeadTailProperties DEF Pop
  <2>3. \A i \in 1..Len(workerlist') : i + 1 \in 1..Len(workerlist) /\ workerlist'[i] = workerlist[i + 1]
    BY <1>20, <2>1, <2>2, HeadTailProperties DEF Pop
  <2>4. Head(workerlist) = workerlist[1] /\ 1 \in 1..Len(workerlist)
    BY <2>1
  <2>5. \A v \in Workers : held'[v] = held[v] \/ held'[v] = workerlist[1]
    BY <1>20, <2>4 DEF Pop
  <2>7. finished' = finished
    BY <1>20 DEF Pop
  <2>6. Taken' \subseteq Taken
    BY <2>3, <2>4, <2>5, <2>7
  <2>. QED
    BY <1>20, <2>6 DEF Pop
<1>21. ASSUME NEW w \in Workers, Run(w) PROVE FreshInv'
  BY <1>21 DEF Run
<1>22. CASE UNCHANGED vars
  BY <1>22 DEF vars
<1>23. CASE ResetCount
  BY <1>23 DEF ResetCount, PhaseInv, Setup
<1>24. CASE ResetList
  BY <1>24 DEF ResetList, PhaseInv, Setup
<1>25. CASE InitLock
  BY <1>25 DEF InitLock, PhaseInv, Setup
<1>. QED
  BY Alone, <1>1, <1>2, <1>3, <1>4, <1>5, <1>6, <1>7, <1>8, <1>9, <1>10, <1>11, <1>12, <1>13, <1>14, <1>15, <1>16, <1>17, <1>18, <1>19, <1>20, <1>21, <1>22, <1>23, <1>24, <1>25
  DEF Next, OwnerCode, CallerCode, WorkerCode

-----------------------------------------------------------------------------
(* The counter and the list move apart and together again under one mutex. *)
LEMMA CountStep == PoolInv /\ [Next]_vars /\ early' = 0 => CountMatchesList'
<1> SUFFICES ASSUME PoolInv, early = 0, [Next]_vars, early' = 0 PROVE CountMatchesList'
  BY EarlyStays
<1> USE PoolConstants, PoolNames DEF PoolInv, OrderlyInv, TypeOK, MutexInv, Inside, CountMatchesList, Midway, Workers, shared, workers, callers, owner
<1>1. CASE AllocatePool
  BY <1>1 DEF AllocatePool
<1>2. CASE CreateThread
  BY <1>2, NewThread DEF CreateThread
<1>3. CASE CreateFails
  BY <1>3 DEF CreateFails
<1>4. CASE SetShutdown
  BY <1>4 DEF SetShutdown
<1>5. CASE Broadcast
  BY <1>5, WokenOnly DEF Broadcast
<1>6. CASE Join
  BY <1>6 DEF Join
<1>7. CASE FreePool
  BY <1>7 DEF FreePool
<1>8. ASSUME NEW c \in Callers, NEW j \in Jobs, AddWork(c, j) PROVE CountMatchesList'
  BY <1>8 DEF AddWork
<1>9. ASSUME NEW c \in Callers, NEW j \in Jobs, AddWorkFails(c, j) PROVE CountMatchesList'
  BY <1>9 DEF AddWorkFails
<1>10. ASSUME NEW c \in Callers, CallerLock(c) PROVE CountMatchesList'
  BY <1>10 DEF CallerLock
<1>11. ASSUME NEW c \in Callers, Insert(c) PROVE CountMatchesList'
  <2>1. ~Midway /\ Midway'
    BY <1>11, Alone DEF Insert
  <2>2. cjob[c] \in Jobs
    BY <1>11, Alone DEF Insert, FreshInv, Pending
  <2>4. workerlist' = Append(workerlist, cjob[c])
    BY <1>11, Alone
  <2>3. workerlist' # <<>> /\ Len(workerlist') = Len(workerlist) + 1
    BY <2>2, <2>4, AppendProperties
  <2>5. UNCHANGED <<workernum, pool, wpc>>
    BY <1>11 DEF Insert
  <2>6. workernum = Len(workerlist) /\ pool # "crashed"
    BY <1>11, <2>1 DEF Insert
  <2>7. workernum' = Len(workerlist') - 1
    BY <2>3, <2>5, <2>6
  <2>. QED
    BY <2>1, <2>3, <2>5, <2>6, <2>7
<1>12. ASSUME NEW c \in Callers, Count(c) PROVE CountMatchesList'
  <2>1. lock = c /\ Midway
    BY <1>12, Alone DEF Count
  <2>2. \A d \in Callers : cpc'[d] # "count"
    BY <1>12, <2>1, Alone DEF Count
  <2>3. \A w \in Workers : wpc'[w] # "pop"
    BY <1>12, <2>1, Alone DEF Count
  <2>4. workernum' = workernum + 1
    BY <1>12, Alone
  <2>5. workernum = Len(workerlist) - 1 /\ pool # "crashed"
    BY <2>1
  <2>6. UNCHANGED <<pool, workerlist>>
    BY <1>12 DEF Count
  <2>7. ~Midway'
    BY <2>2, <2>3
  <2>8. workernum' = Len(workerlist')
    BY <2>4, <2>5, <2>6
  <2>. QED
    BY <2>3, <2>5, <2>6, <2>7, <2>8
<1>13. ASSUME NEW c \in Callers, Signal(c) PROVE CountMatchesList'
  BY <1>13, WokenOnly DEF Signal
<1>14. ASSUME NEW w \in Workers, Lock(w) PROVE CountMatchesList'
  BY <1>14 DEF Lock
<1>15. ASSUME NEW w \in Workers, Check(w) PROVE CountMatchesList'
  BY <1>15 DEF Check
<1>16. ASSUME NEW w \in Workers, Wait(w) PROVE CountMatchesList'
  BY <1>16 DEF Wait
<1>17. ASSUME NEW w \in Workers, SpuriousWakeup(w) PROVE CountMatchesList'
  BY <1>17 DEF SpuriousWakeup
<1>18. ASSUME NEW w \in Workers, Exit(w) PROVE CountMatchesList'
  BY <1>18 DEF Exit
<1>19. ASSUME NEW w \in Workers, Decide(w) PROVE CountMatchesList'
  <2>1. ~Midway /\ Midway'
    BY <1>19, Alone DEF Decide
  <2>2. workerlist # <<>>
    BY <1>19, <2>1, Alone DEF Decide, TestedInv
  <2>. QED
    BY <1>19, <2>1, <2>2, Alone DEF Decide
<1>20. ASSUME NEW w \in Workers, Pop(w) PROVE CountMatchesList'
  <2>1. Midway /\ ~Midway'
    BY <1>20 DEF Pop
  <2>2. \A v \in Workers : wpc'[v] # "pop"
    BY <1>20 DEF Pop
  <2>3. workerlist # <<>>
    BY <1>20 DEF Pop
  <2>4. Len(workerlist') = Len(workerlist) - 1
    BY <1>20, <2>3, HeadTailProperties DEF Pop
  <2>. QED
    BY <1>20, <2>1, <2>2, <2>4 DEF Pop
<1>21. ASSUME NEW w \in Workers, Run(w) PROVE CountMatchesList'
  BY <1>21 DEF Run
<1>22. CASE UNCHANGED vars
  BY <1>22 DEF vars
<1>23. CASE ResetCount
  BY <1>23 DEF ResetCount, PhaseInv, Setup
<1>24. CASE ResetList
  BY <1>24 DEF ResetList, PhaseInv, Setup
<1>25. CASE InitLock
  BY <1>25 DEF InitLock, PhaseInv, Setup
<1>. QED
  BY Alone, <1>1, <1>2, <1>3, <1>4, <1>5, <1>6, <1>7, <1>8, <1>9, <1>10, <1>11, <1>12, <1>13, <1>14, <1>15, <1>16, <1>17, <1>18, <1>19, <1>20, <1>21, <1>22, <1>23, <1>24, <1>25
  DEF Next, OwnerCode, CallerCode, WorkerCode

-----------------------------------------------------------------------------
(* A worker goes to sleep only with the counter at zero; work added later has
   its signal on the way; the signal leaves one worker awake. *)
LEMMA WakeupStep == PoolInv /\ [Next]_vars /\ early' = 0 => NoLostWakeup'
<1> SUFFICES ASSUME PoolInv, early = 0, [Next]_vars, early' = 0 PROVE NoLostWakeup'
  BY EarlyStays
<1> USE PoolConstants, PoolNames DEF PoolInv, OrderlyInv, TypeOK, PhaseInv, TestedInv, NoLostWakeup, Waiting, Workers, shared, workers, callers, owner
<1>1. CASE AllocatePool
  BY <1>1 DEF AllocatePool
<1>2. CASE CreateThread
  BY <1>2 DEF CreateThread
<1>3. CASE CreateFails
  BY <1>3 DEF CreateFails
<1>4. CASE SetShutdown
  BY <1>4 DEF SetShutdown
<1>5. CASE Broadcast
  BY <1>5 DEF Broadcast
<1>6. CASE Join
  BY <1>6 DEF Join
<1>7. CASE FreePool
  BY <1>7 DEF FreePool
<1>8. ASSUME NEW c \in Callers, NEW j \in Jobs, AddWork(c, j) PROVE NoLostWakeup'
  BY <1>8 DEF AddWork
<1>9. ASSUME NEW c \in Callers, NEW j \in Jobs, AddWorkFails(c, j) PROVE NoLostWakeup'
  BY <1>9 DEF AddWorkFails
<1>10. ASSUME NEW c \in Callers, CallerLock(c) PROVE NoLostWakeup'
  BY <1>10 DEF CallerLock
<1>11. ASSUME NEW c \in Callers, Insert(c) PROVE NoLostWakeup'
  BY <1>11, Alone DEF Insert
<1>12. ASSUME NEW c \in Callers, Count(c) PROVE NoLostWakeup'
  BY <1>12, Alone DEF Count
<1>13. ASSUME NEW c \in Callers, Signal(c) PROVE NoLostWakeup'
  <2>1. CASE Waiting = {}
    <3>1. wpc' = wpc /\ \A w \in Workers : wpc[w] # "waiting"
      BY <1>13, <2>1 DEF Signal
    <3>. QED
      BY <1>13, <3>1
  <2>2. CASE \E w \in Waiting : wpc' = [wpc EXCEPT ![w] = "relock"]
    BY <1>13, <2>2 DEF Signal
  <2>. QED
    BY <1>13, <2>1, <2>2 DEF Signal
<1>14. ASSUME NEW w \in Workers, Lock(w) PROVE NoLostWakeup'
  BY <1>14 DEF Lock
<1>15. ASSUME NEW w \in Workers, Check(w) PROVE NoLostWakeup'
  BY <1>15 DEF Check
<1>16. ASSUME NEW w \in Workers, Wait(w) PROVE NoLostWakeup'
  BY <1>16 DEF Wait
<1>17. ASSUME NEW w \in Workers, SpuriousWakeup(w) PROVE NoLostWakeup'
  BY <1>17 DEF SpuriousWakeup
<1>18. ASSUME NEW w \in Workers, Exit(w) PROVE NoLostWakeup'
  BY <1>18 DEF Exit
<1>19. ASSUME NEW w \in Workers, Decide(w) PROVE NoLostWakeup'
  BY <1>19, Alone DEF Decide
<1>20. ASSUME NEW w \in Workers, Pop(w) PROVE NoLostWakeup'
  BY <1>20 DEF Pop
<1>21. ASSUME NEW w \in Workers, Run(w) PROVE NoLostWakeup'
  BY <1>21 DEF Run
<1>22. CASE UNCHANGED vars
  BY <1>22 DEF vars
<1>23. CASE ResetCount
  BY <1>23 DEF ResetCount, PhaseInv, Setup
<1>24. CASE ResetList
  BY <1>24 DEF ResetList, PhaseInv, Setup
<1>25. CASE InitLock
  BY <1>25 DEF InitLock, PhaseInv, Setup
<1>. QED
  BY Alone, <1>1, <1>2, <1>3, <1>4, <1>5, <1>6, <1>7, <1>8, <1>9, <1>10, <1>11, <1>12, <1>13, <1>14, <1>15, <1>16, <1>17, <1>18, <1>19, <1>20, <1>21, <1>22, <1>23, <1>24, <1>25
  DEF Next, OwnerCode, CallerCode, WorkerCode

-----------------------------------------------------------------------------
(* Every step of every thread keeps the invariant. *)
LEMMA PoolStep == PoolInv /\ [Next]_vars => PoolInv'
<1> SUFFICES ASSUME PoolInv, [Next]_vars PROVE PoolInv'
  OBVIOUS
<1>1. TypeOK' /\ CarryInv' /\ HolderInv' /\ PhaseInv'
  BY TypeStep, CarryStep, HolderStep, PhaseStep
<1>2. CASE early' = 1
  BY <1>1, <1>2 DEF PoolInv, CountMatchesList, NoLostWakeup
<1>3. CASE early' = 0
  BY <1>1, <1>3, EarlyStays, MutexStep, TestedStep, FreshStep, CountStep, WakeupStep DEF PoolInv, OrderlyInv
<1>. QED
  BY <1>1, <1>2, <1>3 DEF TypeOK

(* The pool before thread_pool_init is an empty queue. *)
LEMMA QueueInit == Init => WQ!Init
BY DEF Init, WQ!Init, Workers

(* thread_pool_add_work submits where it links its node, a worker starts work
   where it unlinks one and finishes it where the callback returns, the pool
   closes where thread_pool_destory frees it; every other step is invisible. *)
LEMMA QueueStep == PoolInv /\ [Next]_vars => [WQ!Next \/ early' = 1]_(WQ!wqVars)
<1> SUFFICES ASSUME PoolInv, early = 0, [Next]_vars, early' = 0 PROVE [WQ!Next]_(WQ!wqVars)
  BY EarlyStays, TypeStep DEF TypeOK
<1> USE PoolConstants, PoolNames DEF PoolInv, OrderlyInv, TypeOK, shared, workers, callers, owner, WQ!wqVars
<1>1. ASSUME NEW c \in Callers, Insert(c) PROVE WQ!Submit(cjob[c]) /\ cjob[c] \in Jobs
  <2>1. cjob[c] \in Jobs /\ cjob[c] \notin Taken
    BY <1>1 DEF Insert, FreshInv, Pending
  <2>2. WQ!Queued \cup WQ!Running \cup finished \subseteq Taken
    BY DEF Taken, WQ!Queued, WQ!Running, Workers
  <2>3. opc # "destroyed" /\ opc' # "destroyed"
    BY <1>1 DEF Insert, PhaseInv
  <2>. QED
    BY <1>1, <2>1, <2>2, <2>3, Alone DEF Insert, WQ!Submit
<1>2. ASSUME NEW w \in Workers, Pop(w) PROVE WQ!Start(w)
  <2>1. workerlist # <<>> /\ held[w] = Nobody
    BY <1>2 DEF Pop, CountMatchesList, CarryInv
  <2>2. opc # "destroyed"
    BY <1>2 DEF Pop, PhaseInv
  <2>. QED
    BY <1>2, <2>1, <2>2 DEF Pop, WQ!Start
<1>3. ASSUME NEW w \in Workers, Run(w) PROVE WQ!Finish(w)
  <2>1. held[w] # Nobody
    BY <1>3 DEF Run, CarryInv
  <2>. QED
    BY <1>3, <2>1 DEF Run, WQ!Finish
<1>4. CASE FreePool
  <2>1. \A w \in Workers : held[w] = Nobody
    BY <1>4 DEF FreePool, PhaseInv, CarryInv, Workers
  <2>2. held = [w \in Workers |-> Nobody]
    BY <2>1
  <2>. QED
    BY <1>4, <2>2 DEF FreePool, WQ!Close, WQ!Next, Workers
<1>5. CASE ResetCount \/ ResetList \/ InitLock
  BY <1>5 DEF ResetCount, ResetList, InitLock, PhaseInv, Setup
<1>10. CASE AllocatePool \/ CreateThread \/ Broadcast \/ Join \/ CreateFails \/ SetShutdown
  BY <1>10 DEF AllocatePool, CreateThread, Broadcast, Join, CreateFails, SetShutdown
<1>6. ASSUME NEW c \in Callers, NEW j \in Jobs, AddWork(c, j) \/ AddWorkFails(c, j)
      PROVE  UNCHANGED WQ!wqVars
  BY <1>6 DEF AddWork, AddWorkFails
<1>7. ASSUME NEW c \in Callers, CallerLock(c) \/ Count(c) \/ Signal(c)
      PROVE  UNCHANGED WQ!wqVars
  BY <1>7 DEF CallerLock, Count, Signal
<1>8. ASSUME NEW w \in Workers,
             Lock(w) \/ Check(w) \/ Wait(w) \/ SpuriousWakeup(w) \/ Exit(w) \/ Decide(w)
      PROVE  UNCHANGED WQ!wqVars
  BY <1>8 DEF Lock, Check, Wait, SpuriousWakeup, Exit, Decide
<1>9. CASE UNCHANGED vars
  BY <1>9 DEF vars
<1>. QED
  BY <1>1, <1>2, <1>3, <1>4, <1>5, <1>6, <1>7, <1>8, <1>9, <1>10, Alone
  DEF Next, OwnerCode, CallerCode, WorkerCode, WQ!Next, Workers

-----------------------------------------------------------------------------
(* The invariant holds in every reachable state. *)
THEOREM PoolInvariant == Spec => []PoolInv
<1>1. Init => PoolInv
  BY PoolInit
<1>2. PoolInv /\ [Next]_vars => PoolInv'
  BY PoolStep
<1>. QED
  BY <1>1, <1>2, PTL DEF Spec

(* Every variable keeps its type, whenever thread_pool_add_work is first called. *)
THEOREM TypeCorrect == Spec => []TypeOK
<1>1. PoolInv => TypeOK
  BY DEF PoolInv
<1>. QED
  BY <1>1, PoolInvariant, PTL

(* When no call took the mutex before its initialisation, the counter the workers
   test counts the list they take from, so the head that thread_pool_routine
   dereferences is there. *)
THEOREM CounterCorrect == Spec => []CountMatchesList
<1>1. PoolInv => CountMatchesList
  BY DEF PoolInv
<1>. QED
  BY <1>1, PoolInvariant, PTL

(* Work in the list never finds every worker asleep with no signal to come,
   however many callers signal at once (with no call too early). *)
THEOREM WakeupNotLost == Spec => []NoLostWakeup
<1>1. PoolInv => NoLostWakeup
  BY DEF PoolInv
<1>. QED
  BY <1>1, PoolInvariant, PTL

(* Until a call takes the mutex too early, the linked list, the mutex and the
   condition variable implement a first in, first out queue that starts every work at most once and closes only when no
   work runs. *)
THEOREM PoolImplementsQueue == Spec => ImplementsWorkQueue
<1>1. Init => WQ!Init
  BY QueueInit
<1>2. PoolInv /\ [Next]_vars => [WQ!Next \/ early' = 1]_(WQ!wqVars)
  BY QueueStep
<1>. QED
  BY <1>1, <1>2, PoolInvariant, PTL DEF Spec, ImplementsWorkQueue

(* thread_pool_destory frees the pool only when no thread is left in its code. *)
THEOREM NothingRunsWhenFreed == Spec => []QuietWhenFreed
<1>1. PoolInv => QuietWhenFreed
  BY DEF PoolInv, PhaseInv, QuietWhenFreed
<1>. QED
  BY <1>1, PoolInvariant, PTL
-----------------------------------------------------------------------------
(* The safety half of CleanDestroy.  The steps of a worker that finds the flag. *)
Outward == {<<"lock", "check">>, <<"relock", "check">>, <<"check", "decide">>,
            <<"decide", "exited">>, <<"pop", "run">>, <<"run", "lock">>}

(* With nobody asleep at the join, some worker can go on until all have left:
   who waits for the mutex waits for one that can release it. *)
THEOREM ExitIsNotBlocked == Spec => []ExitNotBlocked
<1>1. PoolInv => ExitNotBlocked
  <2> SUFFICES ASSUME PoolInv, NoneAsleep, \A w \in Workers : ~CanGo(w),
                      NEW w \in Workers, wpc[w] # "exited"
               PROVE  FALSE
    BY DEF ExitNotBlocked
  <2>1. wpc[w] \in {"lock", "relock"} /\ lock # Nobody
    BY PoolConstants DEF PoolInv, TypeOK, WorkerPCs, PhaseInv, NoneAsleep, CanGo
  <2>2. \A c \in Callers : cpc[c] = "idle"
    BY DEF PoolInv, PhaseInv, NoneAsleep
  <2>3. lock \in Inside
    BY <2>1 DEF PoolInv, HolderInv
  <2>4. lock \in Workers /\ wpc[lock] \in {"check", "sleep", "decide", "pop"}
    BY <2>2, <2>3 DEF Inside
  <2>. QED
    BY <2>4 DEF CanGo, NoneAsleep
<1>. QED
  BY <1>1, PoolInvariant, PTL

(* From then on nobody falls asleep, and every step of a worker brings its own
   exit nearer and takes nobody else's away. *)
THEOREM ExitComesNearer == Spec => ExitNearer
<1>1. PoolInv /\ [Next]_vars =>
        [NoneAsleep /\ opc' = "join" /\ pool' = "live" =>
           /\ NoneAsleep'
           /\ \A w \in Workers : /\ StepsToExit(w)' <= StepsToExit(w)
                                 /\ wpc'[w] # wpc[w] => StepsToExit(w)' < StepsToExit(w)]_vars
  <2> SUFFICES ASSUME PoolInv, Next, NoneAsleep, opc' = "join", pool' = "live"
               PROVE  /\ NoneAsleep'
                      /\ \A w \in Workers : /\ StepsToExit(w)' <= StepsToExit(w)
                                            /\ wpc'[w] # wpc[w] => StepsToExit(w)' < StepsToExit(w)
    OBVIOUS
  <2>1. /\ opc = "join" /\ shutdown = 1 /\ wpc \in [Workers -> WorkerPCs] /\ Waiting = {}
        /\ \A c \in Callers : cpc[c] = "idle"
    BY DEF PoolInv, PhaseInv, TypeOK, NoneAsleep, Waiting
  <2>2. ASSUME OwnerCode \/ CreateFails \/ SetShutdown PROVE wpc' = wpc
    BY <2>1, <2>2 DEF OwnerCode, AllocatePool, ResetCount, ResetList, InitLock, CreateThread, Broadcast, Join,
       FreePool, CreateFails, SetShutdown, workers
  <2>3. ASSUME NEW c \in Callers,
               CallerLock(c) \/ CallerCode(c) \/ WalkNull(c) \/ \E j \in Jobs : AddWork(c, j) \/ AddWorkFails(c, j)
        PROVE  FALSE
    BY <2>1, <2>3 DEF CallerLock, CallerCode, Insert, Count, Signal, WalkNull, AddWork, AddWorkFails, Setup
  <2>4. ASSUME NEW w \in Workers, Lock(w) \/ WorkerCode(w) \/ SpuriousWakeup(w) \/ Run(w)
        PROVE  (\A v \in Workers : v # w => wpc'[v] = wpc[v]) /\ <<wpc[w], wpc'[w]>> \in Outward
    BY <2>1, <2>4 DEF Lock, WorkerCode, Check, Wait, Exit, Decide, Pop, PopNull, SpuriousWakeup, Run, Waiting,
       NoneAsleep, Outward
  <2>8. ASSUME NEW w \in Workers, NEW v \in Workers, PopBoth(w, v)
        PROVE  \A u \in Workers : wpc'[u] = wpc[u] \/ <<wpc[u], wpc'[u]>> \in Outward
    BY <2>1, <2>8 DEF PopBoth, Outward
  <2>5. \A w \in Workers : wpc'[w] = wpc[w] \/ <<wpc[w], wpc'[w]>> \in Outward
    BY <2>2, <2>3, <2>4, <2>8 DEF Next
  <2>6. NoneAsleep'
    <3>1. ASSUME NEW w \in Workers PROVE wpc'[w] \notin {"sleep", "waiting"}
      BY <2>5 DEF NoneAsleep, Outward
    <3>. QED
      BY <3>1 DEF NoneAsleep, Workers
  <2>7. ASSUME NEW w \in Workers
        PROVE  /\ StepsToExit(w)' <= StepsToExit(w)
               /\ wpc'[w] # wpc[w] => StepsToExit(w)' < StepsToExit(w)
    <3>1. CASE wpc'[w] = wpc[w]
      BY <2>1, <3>1 DEF StepsToExit, WorkerPCs
    <3>2. CASE <<wpc[w], wpc'[w]>> \in Outward
      BY <3>2 DEF StepsToExit, Outward
    <3>. QED
      BY <2>5, <3>1, <3>2
  <2>. QED
    BY <2>6, <2>7
<1>. QED
  BY <1>1, PoolInvariant, PTL DEF Spec, ExitNearer
==============================================================================
