----------------------------- MODULE ThreadPool -----------------------------
(***************************************************************************)
(* core/thread-pool.c: a fixed set of worker threads, a linked list of     *)
(* work, one mutex and one condition variable.  Three kinds of thread run  *)
(* its code:                                                               *)
(*   - the owner (the main thread of src/main.c) runs thread_pool_init and *)
(*     thread_pool_destory;                                                *)
(*   - callers (the command line thread) run thread_pool_add_work;         *)
(*   - the workers run thread_pool_routine.                                *)
(* A step of the model is one access to shared memory or one pthread call. *)
(* The linked list is the sequence of its nodes' work, head first.         *)
(*                                                                         *)
(* main.c starts the command line thread before it calls thread_pool_init, *)
(* so a call of thread_pool_add_work may fall between the allocation of    *)
(* the pool and the end of its initialisation; the variable early records  *)
(* that one did.  (A call before the allocation is CommandService's        *)
(* DownloadCrashes.)                                                       *)
(***************************************************************************)
EXTENDS Integers, Sequences, FiniteSets

CONSTANTS
  N,              (* the num of thread_pool_init *)
  Callers,        (* threads that call thread_pool_add_work *)
  Jobs,           (* the work they add, numbered in the order of the calls *)
  EarlyJobs,      (* those added when a call comes before the pool is initialised:
                     a bound for TLC *)
  Nobody,         (* no owner of the mutex, no work in hand *)
  CreateMayFail   (* whether pthread_create may fail in thread_pool_init *)

ASSUME PoolConstants ==
  /\ N \in Nat \ {0}
  /\ CreateMayFail \in BOOLEAN

ASSUME PoolJobs == Jobs \subseteq Nat /\ EarlyJobs \subseteq Jobs

(* Threads are told apart, and Nobody is no thread and no work. *)
ASSUME PoolNames ==
  /\ 1..N \cap Callers = {}
  /\ Nobody \notin 1..N \cup Callers \cup Jobs

Workers == 1..N

VARIABLES
  pool,        (* threadpool: "null", "live" (allocated) or "freed"; "crashed"
                  when a thread dereferenced NULL and the process is gone *)
  shutdown,    (* threadpool->shutdown *)
  workernum,   (* threadpool->workernum *)
  workerlist,  (* threadpool->workerlist *)
  lock,        (* the holder of threadpool->lock *)
  wpc,         (* where each worker is; "waiting" is inside pthread_cond_wait *)
  held,        (* the local `worker' of thread_pool_routine *)
  cpc,         (* where each caller is in thread_pool_add_work *)
  cjob,        (* the local `workertmp' of thread_pool_add_work *)
  offered,     (* work some call of thread_pool_add_work was made for *)
  opc,         (* where the owner is *)
  count,       (* its loop counter: threads created, then threads joined *)
  finished,    (* work whose callback returned *)
  early        (* history: 1 once a call took the mutex before its initialisation *)

shared    == <<pool, shutdown, workernum, workerlist, lock>>
workers   == <<wpc, held, finished>>
callers   == <<cpc, cjob, offered, early>>
owner     == <<opc, count>>
vars      == <<shared, workers, callers, owner>>

WorkerPCs == {"absent", "lock", "check", "sleep", "waiting", "relock",
              "decide", "pop", "run", "exited"}
CallerPCs == {"idle", "lock", "insert", "count", "signal"}
Setup     == {"setcount", "setlist", "setlock"}
OwnerPCs  == {"init", "create", "failed", "serving", "broadcast", "join",
              "destroyed"} \cup Setup

Waiting == {w \in Workers : wpc[w] = "waiting"}

Init ==
  /\ pool = "null"
  /\ shutdown = 0
  /\ workernum = 0
  /\ workerlist = <<>>
  /\ lock = Nobody
  /\ wpc = [w \in Workers |-> "absent"]
  /\ held = [w \in Workers |-> Nobody]
  /\ cpc = [c \in Callers |-> "idle"]
  /\ cjob = [c \in Callers |-> Nobody]
  /\ offered = {}
  /\ opc = "init"
  /\ count = 0
  /\ finished = {}
  /\ early = 0

(* The threads between taking and releasing the mutex. *)
Inside == {w \in Workers : wpc[w] \in {"check", "sleep", "decide", "pop"}}
          \cup {c \in Callers : cpc[c] \in {"insert", "count"}}

(* One that took it before pthread_mutex_init may find another one there,  *)
(* about to change the counter, or the list, at the same time.             *)
CounterRace(t) == \/ \E c \in Callers \ {t} : cpc[c] = "count"
                  \/ \E w \in Workers \ {t} : wpc[w] = "decide"
ListRace(t)    == \/ \E c \in Callers \ {t} : cpc[c] = "insert"
                  \/ \E w \in Workers \ {t} : wpc[w] = "pop"
-----------------------------------------------------------------------------
(* The owner: thread_pool_init. *)

(* From here on thread_pool_add_work finds a pool; it is all zeros, and so *)
(* is its mutex, which can be taken.                                       *)
AllocatePool ==
  /\ opc = "init"
  /\ pool' = "live"
  /\ opc' = "setcount"
  /\ UNCHANGED <<shutdown, workernum, workerlist, lock, workers, callers, count>>

(* The counter is set to zero, whatever it counts, unless an increment     *)
(* under way at the same time writes its result over the zero.             *)
ResetCount ==
  /\ pool = "live"
  /\ opc = "setcount"
  /\ \/ workernum' = 0
     \/ (\E c \in Callers : cpc[c] = "count") /\ UNCHANGED workernum
  /\ opc' = "setlist"
  /\ UNCHANGED <<pool, shutdown, workerlist, lock, workers, callers, count>>

(* The list is dropped, whatever hangs in it. *)
ResetList ==
  /\ pool = "live"
  /\ opc = "setlist"
  /\ workerlist' = <<>>
  /\ opc' = "setlock"
  /\ UNCHANGED <<pool, shutdown, workernum, lock, workers, callers, count>>

(* The mutex is free afterwards, whoever holds it. *)
InitLock ==
  /\ pool = "live"
  /\ opc = "setlock"
  /\ lock' = Nobody
  /\ opc' = "create"
  /\ UNCHANGED <<pool, shutdown, workernum, workerlist, workers, callers, count>>

(* One round of the creation loop; the new thread runs at once. *)
CreateThread ==
  /\ pool = "live"
  /\ opc = "create"
  /\ count < N
  /\ wpc' = [wpc EXCEPT ![count + 1] = "lock"]
  /\ count' = count + 1
  /\ opc' = IF count + 1 = N THEN "serving" ELSE "create"
  /\ UNCHANGED <<shared, held, finished, callers>>

(* pthread_create failed: the pool is freed under the threads that do run. *)
CreateFails ==
  /\ CreateMayFail
  /\ pool = "live"
  /\ opc = "create"
  /\ pool' = "freed"
  /\ opc' = "failed"
  /\ UNCHANGED <<shutdown, workernum, workerlist, lock, workers, callers, count>>

(* The owner: thread_pool_destory.  main.c joins the only caller first.    *)
(* The flag is set and the condition broadcast without taking the mutex.   *)
SetShutdown ==
  /\ pool = "live"
  /\ opc = "serving"
  /\ \A c \in Callers : cpc[c] = "idle"
  /\ shutdown' = 1
  /\ opc' = "broadcast"
  /\ UNCHANGED <<pool, workernum, workerlist, lock, workers, callers, count>>

Broadcast ==
  /\ pool = "live"
  /\ opc = "broadcast"
  /\ wpc' = [w \in Workers |-> IF w \in Waiting THEN "relock" ELSE wpc[w]]
  /\ opc' = "join"
  /\ count' = 0
  /\ UNCHANGED <<shared, held, finished, callers>>

(* Mutant: the join loop stops one thread early. *)
JoinAllButLast ==
  /\ pool = "live"
  /\ opc = "join"
  /\ count < N
  /\ wpc[count + 1] = "exited" \/ count + 1 = N
  /\ count' = count + 1
  /\ UNCHANGED <<shared, workers, callers, opc>>

(* pthread_join returns for one thread after the other. *)
Join ==
  /\ pool = "live"
  /\ opc = "join"
  /\ count < N
  /\ wpc[count + 1] = "exited"
  /\ count' = count + 1
  /\ UNCHANGED <<shared, workers, callers, opc>>

(* All joined: the list, the mutex, the condition and the pool are freed. *)
FreePool ==
  /\ pool = "live"
  /\ opc = "join"
  /\ count = N
  /\ pool' = "freed"
  /\ opc' = "destroyed"
  /\ UNCHANGED <<shutdown, workernum, workerlist, lock, workers, callers, count>>
-----------------------------------------------------------------------------
(* A caller: thread_pool_add_work. *)

(* The node is allocated and filled before the mutex is taken. *)
AddWork(c, j) ==
  /\ pool = "live"
  /\ opc \in Setup \cup {"create", "serving"}
  /\ early = 1 \/ opc \in Setup => j \in EarlyJobs
  /\ cpc[c] = "idle"
  /\ j \notin offered /\ \A i \in Jobs : i < j => i \in offered
  /\ offered' = offered \cup {j}
  /\ cjob' = [cjob EXCEPT ![c] = j]
  /\ cpc' = [cpc EXCEPT ![c] = "lock"]
  /\ UNCHANGED <<shared, workers, early, owner>>

(* malloc failed: the call returns -1 and the work is gone. *)
AddWorkFails(c, j) ==
  /\ pool = "live"
  /\ opc \in Setup \cup {"create", "serving"}
  /\ early = 1 \/ opc \in Setup => j \in EarlyJobs
  /\ cpc[c] = "idle"
  /\ j \notin offered /\ \A i \in Jobs : i < j => i \in offered
  /\ offered' = offered \cup {j}
  /\ UNCHANGED <<shared, workers, cpc, cjob, early, owner>>

CallerLock(c) ==
  /\ pool = "live"
  /\ cpc[c] = "lock"
  /\ lock = Nobody
  /\ lock' = c
  /\ cpc' = [cpc EXCEPT ![c] = "insert"]
  /\ early' = IF opc \in Setup THEN 1 ELSE early
  /\ UNCHANGED <<pool, shutdown, workernum, workerlist, workers, cjob, offered, owner>>

(* Mutant: the new node becomes the head of the list. *)
InsertFirst(c) ==
  /\ pool = "live"
  /\ cpc[c] = "insert"
  /\ workerlist' = <<cjob[c]>> \o workerlist
  /\ cpc' = [cpc EXCEPT ![c] = "count"]
  /\ UNCHANGED <<pool, shutdown, workernum, lock, workers, cjob, offered, early, owner>>

(* The walk down the list ends at its last node, which gets the new one;   *)
(* who changes that end at the same time writes over it.                   *)
Insert(c) ==
  /\ pool = "live"
  /\ cpc[c] = "insert"
  /\ \/ workerlist' = Append(workerlist, cjob[c])
     \/ ListRace(c) /\ UNCHANGED workerlist
  /\ cpc' = [cpc EXCEPT ![c] = "count"]
  /\ UNCHANGED <<pool, shutdown, workernum, lock, workers, cjob, offered, early, owner>>

(* The walk goes through a NULL curworker: the list was empty when line    *)
(* 115 read it and another caller filled it before line 118 did.           *)
WalkNull(c) ==
  /\ pool = "live"
  /\ cpc[c] = "insert"
  /\ workerlist = <<>>
  /\ \E d \in Callers \ {c} : cpc[d] = "insert"
  /\ pool' = "crashed"
  /\ UNCHANGED <<shutdown, workernum, workerlist, lock, workers, callers, owner>>

(* Mutant: the mutex is released before the counter is incremented. *)
CountUnlocked(c) ==
  /\ pool = "live"
  /\ cpc[c] = "count"
  /\ \/ lock = c /\ lock' = Nobody /\ UNCHANGED <<workernum, cpc>>
     \/ /\ lock # c
        /\ workernum' = workernum + 1
        /\ cpc' = [cpc EXCEPT ![c] = "signal"]
        /\ UNCHANGED lock
  /\ UNCHANGED <<pool, shutdown, workerlist, workers, cjob, offered, early, owner>>

(* The counter is incremented and the mutex released.  Of two changes of   *)
(* the counter at the same time one is lost.                               *)
Count(c) ==
  /\ pool = "live"
  /\ cpc[c] = "count"
  /\ \/ workernum' = workernum + 1
     \/ CounterRace(c) /\ UNCHANGED workernum
  /\ lock' = Nobody
  /\ cpc' = [cpc EXCEPT ![c] = "signal"]
  /\ UNCHANGED <<pool, shutdown, workerlist, workers, cjob, offered, early, owner>>

(* Mutant: no signal. *)
SignalNobody(c) ==
  /\ pool = "live"
  /\ cpc[c] = "signal"
  /\ cpc' = [cpc EXCEPT ![c] = "idle"]
  /\ cjob' = [cjob EXCEPT ![c] = Nobody]
  /\ UNCHANGED <<shared, workers, offered, early, owner>>

(* Mutant: only the first work of a list is signalled. *)
SignalFirst(c) ==
  /\ pool = "live"
  /\ cpc[c] = "signal"
  /\ \/ /\ Waiting = {} \/ Len(workerlist) > 1
        /\ UNCHANGED wpc
     \/ /\ Len(workerlist) <= 1
        /\ \E w \in Waiting : wpc' = [wpc EXCEPT ![w] = "relock"]
  /\ cpc' = [cpc EXCEPT ![c] = "idle"]
  /\ cjob' = [cjob EXCEPT ![c] = Nobody]
  /\ UNCHANGED <<shared, held, finished, offered, early, owner>>

(* pthread_cond_signal, outside the mutex, wakes one waiting worker if any. *)
Signal(c) ==
  /\ pool = "live"
  /\ cpc[c] = "signal"
  /\ \/ /\ Waiting = {}
        /\ UNCHANGED wpc
     \/ \E w \in Waiting : wpc' = [wpc EXCEPT ![w] = "relock"]
  /\ cpc' = [cpc EXCEPT ![c] = "idle"]
  /\ cjob' = [cjob EXCEPT ![c] = Nobody]
  /\ UNCHANGED <<shared, held, finished, offered, early, owner>>
-----------------------------------------------------------------------------
(* A worker: thread_pool_routine. *)

(* The mutex is taken, at the top of the loop or on the way out of         *)
(* pthread_cond_wait.                                                      *)
Lock(w) ==
  /\ pool = "live"
  /\ wpc[w] \in {"lock", "relock"}
  /\ lock = Nobody
  /\ lock' = w
  /\ wpc' = [wpc EXCEPT ![w] = "check"]
  /\ UNCHANGED <<pool, shutdown, workernum, workerlist, held, finished, callers, owner>>

(* Mutant: the loop condition forgets the flag. *)
CheckNoFlag(w) ==
  /\ pool = "live"
  /\ wpc[w] = "check"
  /\ wpc' = [wpc EXCEPT ![w] = IF workernum = 0 THEN "sleep" ELSE "decide"]
  /\ UNCHANGED <<shared, held, finished, callers, owner>>

(* The condition of the inner while. *)
Check(w) ==
  /\ pool = "live"
  /\ wpc[w] = "check"
  /\ wpc' = [wpc EXCEPT ![w] =
               IF shutdown = 0 /\ workernum = 0 THEN "sleep" ELSE "decide"]
  /\ UNCHANGED <<shared, held, finished, callers, owner>>

(* pthread_cond_wait releases the mutex and joins the waiters in one step. *)
Wait(w) ==
  /\ pool = "live"
  /\ wpc[w] = "sleep"
  /\ wpc' = [wpc EXCEPT ![w] = "waiting"]
  /\ lock' = Nobody
  /\ UNCHANGED <<pool, shutdown, workernum, workerlist, held, finished, callers, owner>>

(* POSIX lets pthread_cond_wait return with no signal. *)
SpuriousWakeup(w) ==
  /\ pool = "live"
  /\ wpc[w] = "waiting"
  /\ wpc' = [wpc EXCEPT ![w] = "relock"]
  /\ UNCHANGED <<shared, held, finished, callers, owner>>

(* The second test of the flag, for an exit ... *)
Exit(w) ==
  /\ pool = "live"
  /\ wpc[w] = "decide"
  /\ shutdown = 1
  /\ lock' = Nobody
  /\ wpc' = [wpc EXCEPT ![w] = "exited"]
  /\ UNCHANGED <<pool, shutdown, workernum, workerlist, held, finished, callers, owner>>

(* ... or for the work at the head of the list. *)
Decide(w) ==
  /\ pool = "live"
  /\ wpc[w] = "decide"
  /\ shutdown = 0
  /\ \/ workernum' = workernum - 1
     \/ CounterRace(w) /\ UNCHANGED workernum
  /\ wpc' = [wpc EXCEPT ![w] = "pop"]
  /\ UNCHANGED <<pool, shutdown, workerlist, lock, held, finished, callers, owner>>

(* The head is dereferenced and unlinked. *)
Pop(w) ==
  /\ pool = "live"
  /\ wpc[w] = "pop"
  /\ workerlist # <<>>
  /\ held' = [held EXCEPT ![w] = Head(workerlist)]
  /\ workerlist' = Tail(workerlist)
  /\ lock' = Nobody
  /\ wpc' = [wpc EXCEPT ![w] = "run"]
  /\ UNCHANGED <<pool, shutdown, workernum, finished, callers, owner>>

(* Two workers that do it at the same time take the same work. *)
PopBoth(w, v) ==
  /\ pool = "live"
  /\ w # v
  /\ wpc[w] = "pop" /\ wpc[v] = "pop"
  /\ workerlist # <<>>
  /\ held' = [held EXCEPT ![w] = Head(workerlist), ![v] = Head(workerlist)]
  /\ workerlist' = Tail(workerlist)
  /\ lock' = Nobody
  /\ wpc' = [wpc EXCEPT ![w] = "run", ![v] = "run"]
  /\ UNCHANGED <<pool, shutdown, workernum, finished, callers, owner>>

(* The head is NULL: the counter promised work that the list has not. *)
PopNull(w) ==
  /\ pool = "live"
  /\ wpc[w] = "pop"
  /\ workerlist = <<>>
  /\ pool' = "crashed"
  /\ UNCHANGED <<shutdown, workernum, workerlist, lock, workers, callers, owner>>

(* The callback returns and the node is freed. *)
Run(w) ==
  /\ pool # "crashed"
  /\ wpc[w] = "run"
  /\ finished' = finished \cup {held[w]}
  /\ held' = [held EXCEPT ![w] = Nobody]
  /\ wpc' = [wpc EXCEPT ![w] = "lock"]
  /\ UNCHANGED <<shared, callers, owner>>
-----------------------------------------------------------------------------
WorkerCode(w) == Check(w) \/ Wait(w) \/ Exit(w) \/ Decide(w) \/ Pop(w) \/ PopNull(w)
CallerCode(c) == Insert(c) \/ Count(c) \/ Signal(c)
OwnerCode     == \/ AllocatePool \/ ResetCount \/ ResetList \/ InitLock
                 \/ CreateThread \/ Broadcast \/ Join \/ FreePool

Next ==
  \/ OwnerCode
  \/ CreateFails
  \/ SetShutdown
  \/ \E c \in Callers :
       \/ \E j \in Jobs : AddWork(c, j) \/ AddWorkFails(c, j)
       \/ CallerLock(c)
       \/ CallerCode(c)
       \/ WalkNull(c)
  \/ \E w \in Workers : Lock(w) \/ WorkerCode(w) \/ SpuriousWakeup(w) \/ Run(w)
  \/ \E w, v \in Workers : PopBoth(w, v)

Spec == Init /\ [][Next]_vars

(* Threads that can go on do, and a thread that keeps finding the mutex    *)
(* free gets it in the end.  Nothing is assumed of the callbacks, which    *)
(* wait for remote servers, of the callers, which wait for users, of       *)
(* spurious wakeups, or of thread_pool_destory ever being called.          *)
Fairness ==
  /\ WF_vars(OwnerCode)
  /\ \A c \in Callers : SF_vars(CallerLock(c)) /\ WF_vars(CallerCode(c))
  /\ \A w \in Workers : SF_vars(Lock(w)) /\ WF_vars(WorkerCode(w))

FairSpec == Spec /\ Fairness

(* Callbacks return: what thread_pool_destory needs of them. *)
FairSpecJobsReturn == FairSpec /\ \A w \in Workers : WF_vars(Run(w))
-----------------------------------------------------------------------------
(* Every variable has a value of its kind.                                 *)
TypeOK ==
  /\ pool \in {"null", "live", "freed", "crashed"}
  /\ shutdown \in {0, 1}
  /\ workernum \in Int
  /\ workerlist \in Seq(Jobs)
  /\ lock \in Workers \cup Callers \cup {Nobody}
  /\ wpc \in [Workers -> WorkerPCs]
  /\ held \in [Workers -> Jobs \cup {Nobody}]
  /\ cpc \in [Callers -> CallerPCs]
  /\ cjob \in [Callers -> Jobs \cup {Nobody}]
  /\ offered \in SUBSET Jobs
  /\ opc \in OwnerPCs
  /\ count \in 0..N
  /\ finished \in SUBSET Jobs
  /\ early \in {0, 1}

(* Between the two accesses that move the counter and the list together. *)
Midway == \/ \E c \in Callers : cpc[c] = "count"
          \/ \E w \in Workers : wpc[w] = "pop"

(* When no call took the mutex before thread_pool_init initialised it, the *)
(* counter and the list, which workers test and use one for the other,     *)
(* agree whenever the mutex is free, and differ by one in the middle of an *)
(* insertion or a removal: so neither the head that thread_pool_routine    *)
(* dereferences nor the end of the walk of thread_pool_add_work is NULL.   *)
CountMatchesList ==
  early = 0 =>
    /\ workernum = IF Midway THEN Len(workerlist) - 1 ELSE Len(workerlist)
    /\ \A w \in Workers : wpc[w] = "pop" => workerlist # <<>>
    /\ pool # "crashed"

(* No work sits in the list with every worker asleep and no signal on its  *)
(* way, although thread_pool_add_work signals outside the mutex and wakes  *)
(* one worker only.  (Again with no call before the initialisation's end.) *)
NoLostWakeup ==
  (early = 0 /\ shutdown = 0 /\ workernum > 0) =>
     (\E w \in Workers : wpc[w] # "waiting") \/ (\E c \in Callers : cpc[c] = "signal")

(* thread_pool_destory frees the pool only when no thread will touch it    *)
(* again: every worker has left thread_pool_routine and no caller is in    *)
(* thread_pool_add_work.  (When creation fails thread_pool_init frees it   *)
(* under the workers that run.)                                            *)
QuietWhenFreed ==
  pool = "freed" /\ opc # "failed" =>
     /\ \A w \in Workers : wpc[w] \in {"absent", "exited"}
     /\ \A c \in Callers : cpc[c] = "idle"

(* The inductive invariant of the proofs, one conjunct per idea.           *)
(* A caller carries its work to the list, a worker carries the work it     *)
(* runs.                                                                   *)
CarryInv ==
  /\ \A c \in Callers : cpc[c] \in {"lock", "insert"} => cjob[c] \in Jobs
  /\ \A w \in Workers : held[w] # Nobody <=> wpc[w] = "run"

(* The holder of the mutex is between its lock and unlock; it is the only  *)
(* one there when nobody took the mutex before it was initialised.         *)
HolderInv == lock # Nobody => lock \in Inside
MutexInv  == \A t \in Inside : lock = t

(* What the owner's place says of the pool, the flag and the other threads. *)
PhaseInv ==
  /\ pool = "null" <=> opc = "init"
  /\ pool = "freed" <=> opc \in {"failed", "destroyed"}
  /\ shutdown = 1 <=> opc \in {"broadcast", "join", "destroyed"}
  /\ opc = "failed" => CreateMayFail
  /\ (opc = "init" \/ shutdown = 1) => \A c \in Callers : cpc[c] = "idle"
  /\ opc \in Setup \cup {"init"} => count = 0 /\ \A w \in Workers : wpc[w] = "absent"
  /\ opc \in Setup \cup {"init"} /\ early = 0 =>
       /\ workernum = 0 /\ workerlist = <<>> /\ lock = Nobody
       /\ \A c \in Callers : cpc[c] \in {"idle", "lock"}
  /\ opc = "create" => count < N /\ \A w \in Workers : wpc[w] = "absent" <=> w > count
  /\ opc \in {"serving", "broadcast", "join"} => \A w \in Workers : wpc[w] # "absent"
  /\ opc = "join" => \A w \in 1..count : wpc[w] = "exited"
  /\ opc = "destroyed" => \A w \in Workers : wpc[w] = "exited"

(* What the tests a worker made still mean where it acts on them. *)
TestedInv ==
  \A w \in Workers :
    /\ wpc[w] = "sleep" => workernum = 0
    /\ wpc[w] = "decide" /\ shutdown = 0 => workernum > 0

(* Work a caller has not inserted yet is nowhere else. *)
Pending(c) == cpc[c] \in {"lock", "insert"}
Taken == {workerlist[i] : i \in 1..Len(workerlist)}
         \cup {held[w] : w \in Workers} \cup finished
FreshInv ==
  /\ Taken \ {Nobody} \subseteq offered
  /\ \A c \in Callers :
       Pending(c) => cjob[c] \in offered \ Taken
  /\ \A c, d \in Callers : Pending(c) /\ Pending(d) /\ cjob[c] = cjob[d] => c = d

(* What a call that took the mutex too early may break. *)
OrderlyInv ==
  /\ MutexInv
  /\ TestedInv
  /\ FreshInv

PoolInv ==
  /\ TypeOK
  /\ CarryInv
  /\ HolderInv
  /\ PhaseInv
  /\ early = 0 => OrderlyInv
  /\ CountMatchesList
  /\ NoLostWakeup

WQ == INSTANCE WorkQueue WITH
        NoJob <- Nobody, queue <- workerlist, running <- held,
        closed <- (opc = "destroyed")

(* The pool implements the abstract queue: first in first out, at most     *)
(* once, nothing lost while it is open and nothing run after               *)
(* thread_pool_destory, as long as no call takes the mutex before          *)
(* thread_pool_init has initialised it.                                    *)
ImplementsWorkQueue == WQ!Init /\ [][WQ!Next \/ early' = 1]_(WQ!wqVars)

InList(j) == \E i \in 1..Len(workerlist) : workerlist[i] = j
AllBusy   == \A w \in Workers : wpc[w] = "run"

(* Added work is taken by a worker, unless the pool shuts down, every      *)
(* worker is at some moment inside a callback, which may never return, or  *)
(* a call took the mutex too early.                                        *)
EveryJobTaken ==
  \A j \in Jobs :
    InList(j) ~> (~InList(j) \/ shutdown = 1 \/ AllBusy \/ opc = "failed" \/ early = 1)

(* If callbacks return, thread_pool_destory does, provided its broadcast   *)
(* left no worker in, or on its way into, pthread_cond_wait (or a worker   *)
(* that an early call left without its work ends the process).             *)
CleanDestroy ==
  (\A w \in Workers : []<>(wpc[w] # "run")) =>
    ((opc = "join" /\ \A w \in Workers : wpc[w] \notin {"sleep", "waiting"})
       ~> (opc = "destroyed" \/ pool = "crashed"))

(* What CleanDestroy rests on beside fairness: with no worker asleep at    *)
(* the join none falls asleep again and each goes nearer to its exit with  *)
(* every step, ...                                                         *)
NoneAsleep == opc = "join" /\ pool = "live" /\ \A w \in Workers : wpc[w] \notin {"sleep", "waiting"}
StepsToExit(w) ==
  LET left == [absent |-> 0, exited |-> 0, decide |-> 1, check |-> 2, lock |-> 3, relock |-> 3,
               run |-> 4, pop |-> 5, sleep |-> 6, waiting |-> 6]
  IN  left[wpc[w]]
ExitNearer ==
  [][NoneAsleep /\ opc' = "join" /\ pool' = "live" =>
       /\ NoneAsleep'
       /\ \A w \in Workers : /\ StepsToExit(w)' <= StepsToExit(w)
                             /\ wpc'[w] # wpc[w] => StepsToExit(w)' < StepsToExit(w)]_vars

(* ... and some worker, if only one inside a callback, can go on until all *)
(* have left: whoever waits for the mutex waits for one that can.          *)
CanGo(w) == \/ wpc[w] \in {"check", "decide", "pop", "run"}
            \/ wpc[w] \in {"lock", "relock"} /\ lock = Nobody
ExitNotBlocked ==
  NoneAsleep => (\E w \in Workers : CanGo(w)) \/ (\A w \in Workers : wpc[w] = "exited")

(* thread_pool_destory returns (core/thread-pool.h:33, the pool is         *)
(* destroyed).  It does not: a worker that tested the flag before it was   *)
(* set can go to sleep after the broadcast.                                *)
DestroyReturns == (opc = "broadcast" /\ early = 0) ~> (opc = "destroyed")
=============================================================================
