------------------------------ MODULE Instances ------------------------------
(***************************************************************************)
(* src/main.c from its first line to the moment a process serves or asks:  *)
(* every start of graceful-downloader counts the processes of that name;   *)
(* the one that is alone becomes the service ("primary") and creates two   *)
(* semaphores and two shared memory segments by name, any other opens them *)
(* as a client.  The service unlinks the names when it stops, and so does  *)
(* a process that meant to be the service and failed.  Any process may be  *)
(* killed between two of these steps, which leaves the names behind.       *)
(*                                                                         *)
(* A process is started once.  An object is identified by the process that *)
(* created it: a name unlinked and created again is a new object.          *)
(***************************************************************************)
EXTENDS Integers, Sequences, FiniteSets

CONSTANTS
  Procs,         (* the processes *)
  None,          (* no object *)
  Digits,        (* the digits of a process number *)
  Chunk,         (* sizeof (str), the bytes one fread of pidof's output takes *)
  MaxKills,      (* bound on the processes killed *)
  SystemFails    (* whether pidof, ftruncate, mmap and the like may fail in init *)

ASSUME InstancesConstants ==
  /\ IsFiniteSet(Procs)
  /\ None \notin Procs
  /\ Digits \in Nat \ {0}
  /\ Chunk \in Nat /\ Chunk > Digits + 1
  /\ MaxKills \in Nat
  /\ SystemFails \in BOOLEAN

VARIABLES
  pc,       (* where each process is *)
  at,       (* how far it is in init, and in the unlinking of destory *)
  primary,  (* the processes with gMain->isPrimary *)
  name,     (* what each name refers to *)
  has,      (* the objects each process has opened *)
  sized,    (* the segments each process created and gave their length *)
  kills,    (* processes killed *)
  torn,     (* history: a process was killed while it unlinked the names *)
  blind     (* history: a process in init counted nobody, not even itself *)

vars == <<pc, at, primary, name, has, sized, kills, torn, blind>>

(* The names, in the order init opens them and destory unlinks them. *)
Names       == {"sem0", "shm0", "sem1", "shm1"}
OpenOrder   == <<"sem0", "shm0", "sem1", "shm1">>
UnlinkOrder == <<"shm0", "sem0", "shm1", "sem1">>
Segments    == {"shm0", "shm1"}

PCs == {"absent", "count", "open", "size", "map", "up", "check", "talk", "unlink", "drain", "gone"}

Alive == {p \in Procs : pc[p] \notin {"absent", "gone"}}

ProcessCount == Cardinality(Alive)

(* What gf_get_process_num_by_name may return: the number of words pidof   *)
(* prints, 0 if it cannot be run.  Output that fills str leaves it without *)
(* a terminator, and a space in the bytes after it counts as one more (one *)
(* is enough: both decisions taken on the number are thresholds).          *)
Overread == ProcessCount * (Digits + 1) >= Chunk
Counted ==
  (ProcessCount .. (ProcessCount + (IF Overread THEN 1 ELSE 0)))
    \cup (IF SystemFails THEN {0} ELSE {})

Init ==
  /\ pc = [p \in Procs |-> "absent"]
  /\ at = [p \in Procs |-> 1]
  /\ primary = {}
  /\ name = [n \in Names |-> None]
  /\ has = [p \in Procs |-> [n \in Names |-> None]]
  /\ sized = [p \in Procs |-> {}]
  /\ kills = 0
  /\ torn = FALSE
  /\ blind = FALSE
-----------------------------------------------------------------------------
Launch(p) ==
  /\ pc[p] = "absent"
  /\ pc' = [pc EXCEPT ![p] = "count"]
  /\ UNCHANGED <<at, primary, name, has, sized, kills, torn, blind>>

(* Mutant: two processes still count as one. *)
CountLoose(p) ==
  /\ pc[p] = "count"
  /\ \E num \in Counted :
       /\ primary' = IF num <= 2 THEN primary \cup {p} ELSE primary
       /\ blind' = (blind \/ num = 0)
  /\ pc' = [pc EXCEPT ![p] = "open"]
  /\ UNCHANGED <<at, name, has, sized, kills, torn>>

(* A process that finds itself alone, or nobody, is the service. *)
Count(p) ==
  /\ pc[p] = "count"
  /\ \E num \in Counted :
       /\ primary' = IF num <= 1 THEN primary \cup {p} ELSE primary
       /\ blind' = (blind \/ num = 0)
  /\ pc' = [pc EXCEPT ![p] = "open"]
  /\ UNCHANGED <<at, name, has, sized, kills, torn>>

(* Mutant: every process unlinks the names when it leaves init. *)
DestoryAll(p) ==
  /\ pc' = [pc EXCEPT ![p] = "unlink"]
  /\ at' = [at EXCEPT ![p] = 1]

(* Where destory leads: only the service unlinks the names. *)
Destory(p) ==
  /\ pc' = [pc EXCEPT ![p] = IF p \in primary THEN "unlink" ELSE "gone"]
  /\ at' = [at EXCEPT ![p] = 1]

(* The object after step k of init was opened: the next one, or the end. *)
Continue(p, k) ==
  /\ at' = [at EXCEPT ![p] = k + 1]
  /\ pc' = [pc EXCEPT ![p] =
              IF k < Len(OpenOrder) THEN "open"
              ELSE IF p \in primary THEN "up" ELSE "check"]

(* The segment was opened: the service sizes it, everybody maps it. *)
ToSegment(p) ==
  /\ pc' = [pc EXCEPT ![p] = IF p \in primary THEN "size" ELSE "map"]
  /\ UNCHANGED at

(* Mutant: the service takes over names that exist (no O_EXCL). *)
OpenShared(p) ==
  LET k == at[p]
      n == OpenOrder[k]
      created == p \in primary /\ name[n] = None
  IN  /\ pc[p] = "open"
      /\ name' = IF created THEN [name EXCEPT ![n] = p] ELSE name
      /\ has' = [has EXCEPT ![p][n] = name'[n]]
      /\ IF name'[n] = None
         THEN Destory(p)
         ELSE IF n \in Segments THEN ToSegment(p) ELSE Continue(p, k)
      /\ UNCHANGED <<primary, sized, kills, torn, blind>>

(* sem_open or shm_open of the next name: the service creates it and fails *)
(* if it exists (O_CREAT and O_EXCL), a client fails if it does not.       *)
Open(p) ==
  LET k == at[p]
      n == OpenOrder[k]
      ok == IF p \in primary THEN name[n] = None ELSE name[n] # None
  IN  /\ pc[p] = "open"
      /\ name' = IF ok /\ p \in primary THEN [name EXCEPT ![n] = p] ELSE name
      /\ has' = IF ok THEN [has EXCEPT ![p][n] = name'[n]] ELSE has
      /\ IF ~ok THEN Destory(p)
         ELSE IF n \in Segments THEN ToSegment(p) ELSE Continue(p, k)
      /\ UNCHANGED <<primary, sized, kills, torn, blind>>

(* Mutant: the service sizes its segments when it has created both. *)
TruncateLast(p) ==
  /\ pc[p] = "size"
  /\ sized' = IF OpenOrder[at[p]] = "shm1" THEN [sized EXCEPT ![p] = Segments] ELSE sized
  /\ pc' = [pc EXCEPT ![p] = "map"]
  /\ UNCHANGED <<at, primary, name, has, kills, torn, blind>>

(* ftruncate, by the service. *)
Truncate(p) ==
  /\ pc[p] = "size"
  /\ sized' = [sized EXCEPT ![p] = @ \cup {OpenOrder[at[p]]}]
  /\ pc' = [pc EXCEPT ![p] = "map"]
  /\ UNCHANGED <<at, primary, name, has, kills, torn, blind>>

(* mmap of a segment. *)
Map(p) ==
  /\ pc[p] = "map"
  /\ Continue(p, at[p])
  /\ UNCHANGED <<primary, name, has, sized, kills, torn, blind>>

(* A call of init fails for another reason: sem_open or shm_open for want  *)
(* of descriptors or memory, ftruncate, mmap or g_main_loop_new.           *)
InitFails(p) ==
  /\ SystemFails
  /\ pc[p] \in {"open", "size", "map", "up", "check"}
  /\ Destory(p)
  /\ UNCHANGED <<primary, name, has, sized, kills, torn, blind>>

(* The client's second count; then it writes clientBuf and posts.          *)
Check(p) ==
  /\ pc[p] = "check"
  /\ \E num \in Counted : pc' = [pc EXCEPT ![p] = IF num > 2 THEN "gone" ELSE "talk"]
  /\ UNCHANGED <<at, primary, name, has, sized, kills, torn, blind>>

(* The service at the other end of the same two semaphores replies, and    *)
(* the client exits.                                                       *)
Answer(p) ==
  /\ pc[p] = "talk"
  /\ has[p]["sem0"] = has[p]["sem1"]
  /\ has[p]["sem1"] \in Procs
  /\ pc[has[p]["sem1"]] = "up"
  /\ pc' = [pc EXCEPT ![p] = "gone"]
  /\ UNCHANGED <<at, primary, name, has, sized, kills, torn, blind>>

(* The service leaves its main loop and joins its command line thread. *)
Stop(p) ==
  /\ pc[p] = "up"
  /\ Destory(p)
  /\ UNCHANGED <<primary, name, has, sized, kills, torn, blind>>

(* Mutant: the loop of destory unlinks the first pair of names only. *)
UnlinkOnePair(p) ==
  /\ pc[p] = "unlink"
  /\ name' = [name EXCEPT ![UnlinkOrder[at[p]]] = None]
  /\ at' = [at EXCEPT ![p] = at[p] + 1]
  /\ pc' = [pc EXCEPT ![p] = IF at[p] < 2 THEN "unlink" ELSE "drain"]
  /\ UNCHANGED <<primary, has, sized, kills, torn, blind>>

(* shm_unlink and sem_unlink of one name after the other, whoever created  *)
(* the object.                                                             *)
Unlink(p) ==
  /\ pc[p] = "unlink"
  /\ name' = [name EXCEPT ![UnlinkOrder[at[p]]] = None]
  /\ at' = [at EXCEPT ![p] = at[p] + 1]
  /\ pc' = [pc EXCEPT ![p] = IF at[p] < Len(UnlinkOrder) THEN "unlink" ELSE "drain"]
  /\ UNCHANGED <<primary, has, sized, kills, torn, blind>>

(* thread_pool_destory waits for the downloads that run; then the process ends. *)
Drain(p) ==
  /\ pc[p] = "drain"
  /\ pc' = [pc EXCEPT ![p] = "gone"]
  /\ UNCHANGED <<at, primary, name, has, sized, kills, torn, blind>>

(* SIGKILL, as kill-gd.sh sends it. *)
Kill(p) ==
  /\ kills < MaxKills
  /\ p \in Alive
  /\ pc' = [pc EXCEPT ![p] = "gone"]
  /\ kills' = kills + 1
  /\ torn' = (torn \/ pc[p] = "unlink")
  /\ UNCHANGED <<at, primary, name, has, sized, blind>>

Next ==
  \E p \in Procs :
    \/ Launch(p) \/ Count(p) \/ Open(p) \/ Truncate(p) \/ Map(p) \/ InitFails(p)
    \/ Check(p) \/ Answer(p)
    \/ Stop(p) \/ Unlink(p) \/ Drain(p)
    \/ Kill(p)

Spec == Init /\ [][Next]_vars
-----------------------------------------------------------------------------
(* Every variable has a value of its kind. *)
TypeOK ==
  /\ pc \in [Procs -> PCs]
  /\ at \in [Procs -> 1..5]
  /\ primary \subseteq Procs
  /\ name \in [Names -> Procs \cup {None}]
  /\ has \in [Procs -> [Names -> Procs \cup {None}]]
  /\ sized \in [Procs -> SUBSET Segments]
  /\ kills \in 0..MaxKills
  /\ torn \in BOOLEAN /\ blind \in BOOLEAN

(* Two live processes are never both the service: the count that makes one *)
(* the service saw nobody else, and everybody later sees it.  It holds as  *)
(* long as the count saw somebody: a process that cannot run pidof takes   *)
(* itself for the service, fails on the names of the one that runs, and    *)
(* unlinks them.                                                           *)
OnePrimary == ~blind => \A p, q \in primary \cap Alive : p = q

(* Nobody takes the names away from a service that runs. *)
NamesKept == ~blind => \A p \in Procs : pc[p] = "up" => \A n \in Names : name[n] = p

(* A client that got through init has the four objects of one service,     *)
(* even when services stop, fail or are killed while it opens them: as     *)
(* long as it lives nobody else becomes the service.  The exception is a   *)
(* service killed between two of its unlinks: the next service creates the *)
(* names that are gone and a client adds to them those that were left.     *)
Coherent ==
  ~blind /\ ~torn =>
    \A p \in Procs \ primary : pc[p] \in {"check", "talk"} =>
      \E q \in Procs : \A n \in Names : has[p][n] = q

(* A client may map a segment before the service gave it a length.  When   *)
(* it writes its request into the first segment, that one has its length:  *)
(* the client also has the second semaphore of the same service.           *)
RoomToWrite ==
  ~blind /\ ~torn =>
    \A p \in Procs \ primary : pc[p] \in {"check", "talk"} =>
      \E q \in Procs : has[p]["shm0"] = q /\ "shm0" \in sized[q]

(* If no process was killed, a service that starts never finds a name in   *)
(* its way, however earlier processes failed or ended: each took back what *)
(* it had created.  (After a kill nothing does, and the next start fails.) *)
CleanStart ==
  ~blind /\ kills = 0 =>
    \A p \in primary : pc[p] = "open" => name[OpenOrder[at[p]]] = None
-----------------------------------------------------------------------------
(* What the properties follow from.  The steps of init behind a process.   *)
Opened(p) == {k \in 1..4 : k < at[p] \/ (k = at[p] /\ pc[p] \in {"size", "map"})}

(* Only the service gets to where names are created and taken away.        *)
Placed(p) ==
  /\ p \in primary => pc[p] \notin {"absent", "count", "check", "talk"}
  /\ pc[p] \in {"absent", "count"} => at[p] = 1
  /\ pc[p] \in {"check", "talk"} => at[p] = 5
  /\ pc[p] \in {"size", "up", "unlink"} => p \in primary
  /\ pc[p] \in {"open", "size", "map", "unlink"} => at[p] \in 1..4
  /\ pc[p] \in {"size", "map"} => OpenOrder[at[p]] \in Segments

(* At each step of init the names behind the service are its own. *)
Owned(p) ==
  /\ p \in primary /\ pc[p] \in {"open", "size", "map"} => \A k \in Opened(p) : name[OpenOrder[k]] = p
  /\ pc[p] = "up" => \A n \in Names : name[n] = p

InstancesInv ==
  /\ TypeOK
  /\ \A p \in Procs : Placed(p)
  /\ ~blind => OnePrimary /\ \A p \in Procs : Owned(p)

(* The names belong to one process, a service, and unless one that lives   *)
(* takes them away they are those its init got to.                         *)
Created  == \A n \in Names : name[n] \in primary \cup {None}
OneOwner == \E q \in Procs \cup {None} : \A n \in Names : name[n] \in {None, q}
Prefix ==
  (\A s \in primary : pc[s] # "unlink") =>
    \A k \in 1..3 : name[OpenOrder[k]] = None => name[OpenOrder[k + 1]] = None
TakenBack(s) ==
  /\ pc[s] = "unlink" => \A k \in 1..(at[s] - 1) : name[UnlinkOrder[k]] = None
  /\ pc[s] = "drain" => \A n \in Names : name[n] = None
Ahead(s) ==
  pc[s] \in {"open", "size", "map"} =>
    \A k \in (1..4) \ Opened(s) : name[OpenOrder[k]] # s

(* What a client has opened is of the process the names belong to, and no  *)
(* service is about to create new ones.                                    *)
OfOne(p) ==
  Opened(p) # {} /\ pc[p] \in {"open", "map", "check", "talk"} =>
    \E q \in Procs :
      /\ \A k \in Opened(p) : has[p][OpenOrder[k]] = q
      /\ \A n \in Names : name[n] \in {None, q}
      /\ \A s \in primary : pc[s] = "open" /\ at[s] = 1 => name["sem0"] # None
CoherentInv ==
  ~blind /\ ~torn =>
    /\ Created
    /\ OneOwner
    /\ Prefix
    /\ \A s \in primary : TakenBack(s) /\ Ahead(s)
    /\ \A p \in Procs \ primary : OfOne(p)

(* Whoever has the second semaphore of a service can write to its first    *)
(* segment.                                                                *)
SizedInv ==
  /\ \A s \in primary : pc[s] \in {"open", "size", "map", "up"} =>
       \A k \in 1..4 :
         OpenOrder[k] \in Segments /\ (k < at[s] \/ (k = at[s] /\ pc[s] = "map"))
           => OpenOrder[k] \in sized[s]
  /\ name["sem1"] # None => "shm0" \in sized[name["sem1"]]
  /\ \A p \in Procs : has[p]["sem1"] # None => "shm0" \in sized[has[p]["sem1"]]

(* With nobody killed, names ahead of the service are free, and all are    *)
(* when there is none.                                                     *)
CleanInv ==
  ~blind /\ kills = 0 =>
    /\ \A s \in primary : TakenBack(s)
    /\ \A s \in primary : pc[s] \in {"open", "size", "map"} =>
         \A k \in (1..4) \ Opened(s) : name[OpenOrder[k]] = None
    /\ (\A s \in primary : pc[s] = "gone") => \A n \in Names : name[n] = None
NamesInv == CoherentInv /\ SizedInv /\ CleanInv
=============================================================================
