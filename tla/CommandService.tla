--------------------------- MODULE CommandService ---------------------------
(***************************************************************************)
(* src/main.c once the service runs: a client process puts its command     *)
(* line into the shared buffer clientBuf and posts serviceSem; the command *)
(* line thread of the service (start_routine) carries the request out,     *)
(* puts its reply into serverBuf and posts clientSem.  No lock guards the  *)
(* buffers: the two semaphores, and the process count that keeps a second  *)
(* client away, are all the protection there is.  The environment sends    *)
(* SIGINT or SIGTERM to the service and kills clients.                     *)
(* That pidof can be run is assumed here; Instances says what follows if   *)
(* it cannot.                                                              *)
(*                                                                         *)
(* A client is a process started once; its request is one of a few kinds:  *)
(* "info" (-h, -v, -l or no URI), "bad" (only unsupported URIs), "good"    *)
(* (only supported ones) and "mixed", and the lengths of the texts it is   *)
(* answered with.  A reply is the sequence of messages written to          *)
(* serverBuf, each tagged with the request it answers and with the byte of *)
(* the buffer it reaches: what does not fit in the buffer is not written.  *)
(*                                                                         *)
(* The whole service dies if the command line thread dereferences a bad    *)
(* pointer, or if a worker is sent SIGPIPE or finds no memory (Downloads   *)
(* and Http have the details).                                             *)
(***************************************************************************)
EXTENDS Integers, Sequences, FiniteSets

CONSTANTS
  Clients,       (* the client processes *)
  Dirs,          (* the arguments of -d *)
  NoDir,         (* no -d; the directory is the user's download directory *)
  Stray,         (* a directory that no request named: what bytes lay about *)
  Requests,      (* the requests as they arrive: a kind, a directory, lengths *)
  BufSize,       (* COMMANDLINE_BUF, the size of either buffer *)
  HelpSize,      (* the length of the help text *)
  Nobody,        (* an empty clientBuf *)
  MaxSignals,    (* bound on the signals sent to the service *)
  MaxKills       (* bound on the clients killed *)

ASSUME ServiceConstants ==
  /\ IsFiniteSet(Clients)
  /\ NoDir \notin Dirs
  /\ Stray \notin Dirs \cup {NoDir}
  /\ Requests \subseteq [kind : {"info", "bad", "good", "mixed"}, dir : Dirs \cup {NoDir},
                         size : [{"info", "unsupported", "queued"} -> Nat]]
  /\ BufSize \in Nat \ {0, 1}
  /\ HelpSize \in Nat
  /\ Nobody \notin Clients
  /\ MaxSignals \in Nat
  /\ MaxKills \in Nat

VARIABLES
  mpc,         (* where the main thread is *)
  running,     (* g_main_loop_is_running (gMain->mainLoop) *)
  shutdown,    (* gMain->shutdown *)
  poolUp,      (* threadpool # NULL *)
  names,       (* the semaphores and segments can be opened by name *)
  tpc,         (* where the command line thread is *)
  job,         (* whose request its arr holds *)
  taskDir,     (* the stack slot of task.dir *)
  queued,      (* what download handed to the pool, oldest first *)
  cpc,         (* where each client is *)
  want,        (* the request of each client *)
  got,         (* the reply each client printed *)
  serviceSem, clientSem,   (* the two semaphores *)
  clientBuf,   (* whose request the request buffer holds *)
  serverBuf,   (* the messages in the reply buffer *)
  signals, kills           (* how often the environment interfered *)

main     == <<mpc, running, shutdown, poolUp, names>>
thread   == <<tpc, job, taskDir, queued>>
client   == <<cpc, want, got>>
sems     == <<serviceSem, clientSem>>
bufs     == <<clientBuf, serverBuf>>
world    == <<signals, kills>>
vars     == <<main, thread, client, sems, bufs, world>>

(* The messages of a reply, and the request in an empty buffer: for help. *)
Parts   == {"info", "unsupported", "queued"}
Nothing == [kind |-> "info", dir |-> NoDir, size |-> [p \in Parts |-> HelpSize]]

Smaller(a, b) == IF a < b THEN a ELSE b

(* The last byte of a buffer is kept for the end of the string. *)
Room == BufSize - 1

MainPCs   == {"thread", "pool", "loop", "looping", "destory", "join", "unlink",
              "stop", "stopped", "crashed"}
ThreadPCs == {"absent", "test", "wait", "parse", "answer", "download",
              "append", "post", "done", "crashed"}
ClientPCs == {"absent", "open", "check", "write", "post", "wait", "print",
              "wipe1", "wipe2", "done", "refused", "dropped", "killed"}

(* A client past the count of processes, and not gone. *)
Admitted == {c \in Clients :
               cpc[c] \in {"write", "post", "wait", "print", "wipe1", "wipe2"}}

(* What `pidof graceful-downloader' counts. *)
ServiceAlive == mpc \notin {"stopped", "crashed"}
Live == Admitted \cup {c \in Clients : cpc[c] \in {"open", "check"}}
ProcessCount == Cardinality(Live) + IF ServiceAlive THEN 1 ELSE 0

Init ==
  /\ mpc = "thread"
  /\ running = TRUE
  /\ shutdown = FALSE
  /\ poolUp = FALSE
  /\ names = TRUE
  /\ tpc = "absent"
  /\ job = Nobody
  /\ taskDir = NoDir
  /\ queued = <<>>
  /\ cpc = [c \in Clients |-> "absent"]
  /\ want = [c \in Clients |-> Nothing]
  /\ got = [c \in Clients |-> <<>>]
  /\ serviceSem = 0
  /\ clientSem = 0
  /\ clientBuf = Nobody
  /\ serverBuf = <<>>
  /\ signals = 0
  /\ kills = 0
-----------------------------------------------------------------------------
(* The main thread of the service. *)

(* pthread_create of the command line thread, before log_init and the pool. *)
StartThread ==
  /\ mpc = "thread"
  /\ mpc' = "pool"
  /\ tpc' = "test"
  /\ UNCHANGED <<running, shutdown, poolUp, names, job, taskDir, queued,
                 client, sems, bufs, world>>

(* protocol_register or pthread_create failed: destory and exit. *)
StartFails ==
  /\ mpc = "thread"
  /\ mpc' = "destory"
  /\ UNCHANGED <<running, shutdown, poolUp, names, thread, client, sems, bufs, world>>

StartPool ==
  /\ mpc = "pool"
  /\ mpc' = "loop"
  /\ poolUp' = TRUE
  /\ UNCHANGED <<running, shutdown, names, thread, client, sems, bufs, world>>

(* thread_pool_init failed: destory and exit. *)
StartPoolFails ==
  /\ mpc = "pool"
  /\ mpc' = "destory"
  /\ UNCHANGED <<running, shutdown, poolUp, names, thread, client, sems, bufs, world>>

(* g_main_loop_run marks the loop running, whatever came before. *)
RunLoop ==
  /\ mpc = "loop"
  /\ mpc' = "looping"
  /\ running' = TRUE
  /\ UNCHANGED <<shutdown, poolUp, names, thread, client, sems, bufs, world>>

LeaveLoop ==
  /\ mpc = "looping"
  /\ ~running
  /\ mpc' = "destory"
  /\ UNCHANGED <<running, shutdown, poolUp, names, thread, client, sems, bufs, world>>

(* destory: the flag, the join, the names, then the pool. *)
SetShutdown ==
  /\ mpc = "destory"
  /\ mpc' = "join"
  /\ shutdown' = TRUE
  /\ UNCHANGED <<running, poolUp, names, thread, client, sems, bufs, world>>

(* Mutant: destory does not wait for the thread. *)
JoinSkipped ==
  /\ mpc = "join"
  /\ mpc' = "unlink"
  /\ UNCHANGED <<running, shutdown, poolUp, names, thread, client, sems, bufs, world>>

JoinThread ==
  /\ mpc = "join"
  /\ tpc \in {"absent", "done"}
  /\ mpc' = "unlink"
  /\ UNCHANGED <<running, shutdown, poolUp, names, thread, client, sems, bufs, world>>

Unlink ==
  /\ mpc = "unlink"
  /\ mpc' = "stop"
  /\ names' = FALSE
  /\ UNCHANGED <<running, shutdown, poolUp, thread, client, sems, bufs, world>>

(* thread_pool_destory returned; main returns.  It need not return: see *)
(* ThreadPool, and a worker may be held by its server for ever.         *)
Stop ==
  /\ mpc = "stop"
  /\ mpc' = "stopped"
  /\ poolUp' = FALSE
  /\ running' = FALSE
  /\ UNCHANGED <<shutdown, names, thread, client, sems, bufs, world>>

(* The handler `stop', for SIGINT and SIGTERM, at any moment of main. *)
Signal ==
  /\ signals < MaxSignals
  /\ ServiceAlive
  /\ serviceSem' = serviceSem + 1
  /\ running' = FALSE
  /\ signals' = signals + 1
  /\ UNCHANGED <<mpc, shutdown, poolUp, names, thread, client, clientSem, bufs, kills>>
-----------------------------------------------------------------------------
(* The command line thread, start_routine. *)

(* Mutant: the loop does not look at the flag. *)
TestNoFlag ==
  /\ tpc = "test"
  /\ tpc' = "wait"
  /\ UNCHANGED <<main, job, taskDir, queued, client, sems, bufs, world>>

Test ==
  /\ tpc = "test"
  /\ tpc' = IF shutdown THEN "done" ELSE "wait"
  /\ UNCHANGED <<main, job, taskDir, queued, client, sems, bufs, world>>

(* sem_wait (serviceSem). *)
Take ==
  /\ tpc = "wait"
  /\ serviceSem > 0
  /\ serviceSem' = serviceSem - 1
  /\ tpc' = "parse"
  /\ UNCHANGED <<main, job, taskDir, queued, client, clientSem, bufs, world>>

(* The request is split into arr and its URIs sorted into the two lists.  An *)
(* empty buffer has no URI.                                                  *)
Parse ==
  /\ tpc = "parse"
  /\ job' = clientBuf
  /\ tpc' = "answer"
  /\ UNCHANGED <<main, taskDir, queued, client, sems, bufs, world>>

Request == IF job = Nobody THEN Nothing ELSE want[job]
Message(part, upto) == [for |-> job, part |-> part, upto |-> upto]

(* message_to_client, which empties both buffers, for a help text or the     *)
(* list of unsupported URIs, cut to what fits; with supported URIs the       *)
(* routine goes on.                                                          *)
Answer ==
  /\ tpc = "answer"
  /\ IF Request.kind = "good"
     THEN UNCHANGED bufs
     ELSE LET part == IF Request.kind = "info" THEN "info" ELSE "unsupported"
          IN  /\ clientBuf' = Nobody
              /\ serverBuf' = <<Message(part, Smaller(Request.size[part], Room))>>
  /\ tpc' = IF Request.kind \in {"good", "mixed"} THEN "download" ELSE "post"
  /\ UNCHANGED <<main, job, taskDir, queued, client, sems, world>>

(* task.dir is assigned only if the request has -d; without, download reads   *)
(* what the stack slot holds: the last directory, or NULL or a pointer to     *)
(* anything if the slot was not used before or overwritten since.             *)
Download ==
  /\ tpc = "download"
  /\ poolUp
  /\ \E d \in IF Request.dir # NoDir THEN {Request.dir} ELSE {taskDir, NoDir, Stray} :
       /\ taskDir' = d
       /\ queued' = Append(queued, [for |-> job, dir |-> d])
  /\ tpc' = "append"
  /\ UNCHANGED <<main, job, client, sems, bufs, world>>

(* thread_pool_add_work through a NULL threadpool, or a task.dir that points *)
(* nowhere.                                                                  *)
DownloadCrashes ==
  /\ tpc = "download"
  /\ ~poolUp \/ Request.dir = NoDir
  /\ tpc' = "crashed"
  /\ mpc' = "crashed"
  /\ UNCHANGED <<running, shutdown, poolUp, names, job, taskDir, queued,
                 client, sems, bufs, world>>

(* A worker's write to a closed connection, or its g_realloc, ends the process. *)
WorkerDies ==
  /\ poolUp
  /\ queued # <<>>
  /\ ServiceAlive
  /\ tpc' = "crashed"
  /\ mpc' = "crashed"
  /\ UNCHANGED <<running, shutdown, poolUp, names, job, taskDir, queued,
                 client, sems, bufs, world>>

(* strlen (serverBuf). *)
Used == IF serverBuf = <<>> THEN 0 ELSE serverBuf[Len(serverBuf)].upto

(* Mutant: the text is not cut to what fits. *)
AppendUncut ==
  /\ tpc = "append"
  /\ serverBuf' = Append(serverBuf, Message("queued", Used + 1 + Request.size["queued"]))
  /\ tpc' = "post"
  /\ UNCHANGED <<main, job, taskDir, queued, client, sems, clientBuf, world>>

(* message_to_client_append writes a newline and the text behind what *)
(* serverBuf holds, up to the end of the buffer; nothing if it is full. *)
AppendReply ==
  /\ tpc = "append"
  /\ LET upto == Smaller(Used + 1 + Request.size["queued"], Room)
     IN  serverBuf' = IF upto > Used THEN Append(serverBuf, Message("queued", upto))
                                     ELSE serverBuf
  /\ tpc' = "post"
  /\ UNCHANGED <<main, job, taskDir, queued, client, sems, clientBuf, world>>

(* Mutant: a second sem_post. *)
ReplyTwice ==
  /\ tpc = "post"
  /\ clientSem' = clientSem + 2
  /\ job' = Nobody
  /\ tpc' = "test"
  /\ UNCHANGED <<main, taskDir, queued, client, serviceSem, bufs, world>>

(* Mutant: the wrong semaphore is posted. *)
ReplyToItself ==
  /\ tpc = "post"
  /\ serviceSem' = serviceSem + 1
  /\ job' = Nobody
  /\ tpc' = "test"
  /\ UNCHANGED <<main, taskDir, queued, client, clientSem, bufs, world>>

(* sem_post (clientSem). *)
Reply ==
  /\ tpc = "post"
  /\ clientSem' = clientSem + 1
  /\ job' = Nobody
  /\ tpc' = "test"
  /\ UNCHANGED <<main, taskDir, queued, client, serviceSem, bufs, world>>
-----------------------------------------------------------------------------
(* A client process. *)

(* The count of init found the service, so this process is a client. *)
Start(c) ==
  /\ cpc[c] = "absent"
  /\ ServiceAlive
  /\ cpc' = [cpc EXCEPT ![c] = "open"]
  /\ UNCHANGED <<main, thread, want, got, sems, bufs, world>>

(* sem_open and shm_open: the names exist until the service unlinks them. *)
Open(c) ==
  /\ cpc[c] = "open"
  /\ cpc' = [cpc EXCEPT ![c] = IF names THEN "check" ELSE "refused"]
  /\ UNCHANGED <<main, thread, want, got, sems, bufs, world>>

(* Mutant: the count is compared with > 3. *)
CheckLoose(c) ==
  /\ cpc[c] = "check"
  /\ cpc' = [cpc EXCEPT ![c] = IF ProcessCount > 3 THEN "refused" ELSE "write"]
  /\ UNCHANGED <<main, thread, want, got, sems, bufs, world>>

(* The second count of processes, which includes this one.  The numbers of *)
(* two processes fill the string they are read to, and a stray byte behind *)
(* it may count as a third (Instances has the details).                    *)
Check(c) ==
  /\ cpc[c] = "check"
  /\ \E next \in {"write", "refused"} :
       /\ ProcessCount > 2 => next = "refused"
       /\ ProcessCount < 2 => next = "write"
       /\ cpc' = [cpc EXCEPT ![c] = next]
  /\ UNCHANGED <<main, thread, want, got, sems, bufs, world>>

Write(c) ==
  /\ cpc[c] = "write"
  /\ \E r \in Requests : want' = [want EXCEPT ![c] = r]
  /\ clientBuf' = c
  /\ cpc' = [cpc EXCEPT ![c] = "post"]
  /\ UNCHANGED <<main, thread, got, sems, serverBuf, world>>

(* Mutant: the request is posted twice. *)
PostTwice(c) ==
  /\ cpc[c] = "post"
  /\ serviceSem' = serviceSem + 2
  /\ cpc' = [cpc EXCEPT ![c] = "wait"]
  /\ UNCHANGED <<main, thread, want, got, clientSem, bufs, world>>

Post(c) ==
  /\ cpc[c] = "post"
  /\ serviceSem' = serviceSem + 1
  /\ cpc' = [cpc EXCEPT ![c] = "wait"]
  /\ UNCHANGED <<main, thread, want, got, clientSem, bufs, world>>

(* sem_wait (clientSem). *)
Wait(c) ==
  /\ cpc[c] = "wait"
  /\ clientSem > 0
  /\ clientSem' = clientSem - 1
  /\ cpc' = [cpc EXCEPT ![c] = "print"]
  /\ UNCHANGED <<main, thread, want, got, serviceSem, bufs, world>>

Show(c) ==
  /\ cpc[c] = "print"
  /\ got' = [got EXCEPT ![c] = serverBuf]
  /\ cpc' = [cpc EXCEPT ![c] = "wipe1"]
  /\ UNCHANGED <<main, thread, want, sems, bufs, world>>

WipeRequest(c) ==
  /\ cpc[c] = "wipe1"
  /\ clientBuf' = Nobody
  /\ cpc' = [cpc EXCEPT ![c] = "wipe2"]
  /\ UNCHANGED <<main, thread, want, got, sems, serverBuf, world>>

(* Mutant: the client exits and leaves the reply in the buffer. *)
WipeForgotten(c) ==
  /\ cpc[c] = "wipe2"
  /\ cpc' = [cpc EXCEPT ![c] = "done"]
  /\ UNCHANGED <<main, thread, want, got, sems, bufs, world>>

(* The reply buffer too is emptied by the client; then it exits. *)
WipeReply(c) ==
  /\ cpc[c] = "wipe2"
  /\ serverBuf' = <<>>
  /\ cpc' = [cpc EXCEPT ![c] = "done"]
  /\ UNCHANGED <<main, thread, want, got, sems, clientBuf, world>>

(* SIGKILL, or a crash, before ("dropped") or after ("killed") the client's   *)
(* sem_post.  (SIGINT and SIGTERM do not end a client: its handler returns    *)
(* and sem_wait is restarted.)                                                *)
Kill(c) ==
  /\ kills < MaxKills
  /\ c \in Live
  /\ cpc' = [cpc EXCEPT ![c] =
               IF cpc[c] \in {"wait", "print", "wipe1", "wipe2"} THEN "killed"
                                                                 ELSE "dropped"]
  /\ kills' = kills + 1
  /\ UNCHANGED <<main, thread, want, got, sems, bufs, signals>>
-----------------------------------------------------------------------------
MainCode    == StartThread \/ StartPool \/ RunLoop \/ LeaveLoop \/ SetShutdown
               \/ JoinThread \/ Unlink
MainFails   == StartFails \/ StartPoolFails
ThreadCode  == Test \/ Take \/ Parse \/ Answer \/ Download \/ DownloadCrashes
               \/ AppendReply \/ Reply
ClientCode(c) == Open(c) \/ Check(c) \/ Write(c) \/ Post(c) \/ Wait(c) \/ Show(c)
                 \/ WipeRequest(c) \/ WipeReply(c)

Next ==
  \/ MainCode
  \/ MainFails
  \/ Stop
  \/ Signal
  \/ ThreadCode
  \/ WorkerDies
  \/ \E c \in Clients : Start(c) \/ ClientCode(c) \/ Kill(c)

Spec == Init /\ [][Next]_vars

(* Each thread of the service, and each client that was started, goes on when *)
(* it can.  The environment need do nothing, and thread_pool_destory need not *)
(* return.                                                                    *)
Fairness ==
  /\ WF_vars(MainCode)
  /\ WF_vars(ThreadCode)
  /\ \A c \in Clients : WF_vars(ClientCode(c))

FairSpec == Spec /\ Fairness
-----------------------------------------------------------------------------
Messages == [for : Clients \cup {Nobody}, part : Parts, upto : Nat]
AnyDir == Dirs \cup {NoDir, Stray}
Downloads == [for : Clients \cup {Nobody}, dir : AnyDir]

(* Every variable has a value of its kind. *)
TypeOK ==
  /\ mpc \in MainPCs
  /\ tpc \in ThreadPCs
  /\ running \in BOOLEAN /\ shutdown \in BOOLEAN /\ poolUp \in BOOLEAN /\ names \in BOOLEAN
  /\ job \in Clients \cup {Nobody}
  /\ taskDir \in AnyDir
  /\ queued \in Seq(Downloads)
  /\ cpc \in [Clients -> ClientPCs]
  /\ want \in [Clients -> Requests \cup {Nothing}]
  /\ got \in [Clients -> Seq(Messages)]
  /\ serviceSem \in Nat /\ clientSem \in Nat
  /\ clientBuf \in Clients \cup {Nobody}
  /\ serverBuf \in Seq(Messages)
  /\ signals \in 0..MaxSignals /\ kills \in 0..MaxKills

(* The service lives, no signal reached it, and no client was killed after *)
(* its post.                                                               *)
Undisturbed == ServiceAlive /\ signals = 0 /\ \A c \in Clients : cpc[c] # "killed"

(* The reply a request deserves: its one or two texts, a newline before    *)
(* what is appended, as far as the buffer has room.                        *)
Expected(c) ==
  LET m(part, upto) == [for |-> c, part |-> part, upto |-> upto]
      size   == want[c].size
      first  == Smaller(size["unsupported"], Room)
      second == Smaller(first + 1 + size["queued"], Room)
  IN  CASE want[c].kind = "info"  -> <<m("info", Smaller(size["info"], Room))>>
        [] want[c].kind = "bad"   -> <<m("unsupported", first)>>
        [] want[c].kind = "good"  -> <<m("queued", Smaller(1 + size["queued"], Room))>>
        [] want[c].kind = "mixed" ->
             IF first < Room THEN <<m("unsupported", first), m("queued", second)>>
                             ELSE <<m("unsupported", first)>>

(* While the service lives, the count of processes lets at most one client *)
(* near the buffers, whatever is signalled or killed.                      *)
OneAdmitted == ServiceAlive => \A c, d \in Admitted : c = d

(* Undisturbed, the service and a client never touch the buffers at once,  *)
(* although no lock protects them.                                         *)
TurnTaking ==
  Undisturbed =>
    ~ /\ tpc \in {"parse", "answer", "download", "append"}
      /\ \E c \in Clients : cpc[c] \in {"write", "print", "wipe1", "wipe2"}

(* Undisturbed, what a client prints is the reply to its own request and   *)
(* nothing of an earlier one: the whole of it if the buffer has room for   *)
(* it, otherwise as much of its beginning as the buffer holds.             *)
OwnReply ==
  Undisturbed =>
    \A c \in Clients : cpc[c] \in {"wipe1", "wipe2", "done"} => got[c] = Expected(c)

(* Undisturbed, an answered request for downloads was handed to the pool   *)
(* exactly once, and any other request never.                              *)
Handed(c) == {i \in 1..Len(queued) : queued[i].for = c}
QueuedOnce ==
  Undisturbed =>
    \A c \in Clients : cpc[c] \in {"print", "wipe1", "wipe2", "done"} =>
      Cardinality(Handed(c)) = IF want[c].kind \in {"good", "mixed"} THEN 1 ELSE 0

(* Undisturbed, the two buffers, the two semaphores and the count of       *)
(* processes make a service that is called by one client after the other:  *)
(* a call is made when the request is written, its downloads go to the     *)
(* pool once and to the directory it names, and it ends with its reply, as *)
(* much of it as a buffer holds, or with nothing done.                     *)
Place(c) ==
  CASE cpc[c] \in {"absent", "open", "check", "write"} -> "none"
    [] cpc[c] \in {"post", "wait", "print"}            -> "made"
    [] OTHER                                           -> "over"
Call == INSTANCE Calls WITH
          call <- [c \in Clients |-> Place(c)], reply <- got, disturbed <- ~Undisturbed,
          Dirs <- Dirs \cup {Stray}
ImplementsCalls == Call!Spec

(* Each disturbance puts the two semaphores at most one token ahead of the *)
(* requests in flight; as nothing takes such a token back, every later     *)
(* reply then comes one request early.                                     *)
BoundedDrift ==
  ServiceAlive =>
    serviceSem + clientSem + (IF tpc \in {"parse", "answer", "download", "append", "post"}
                              THEN 1 ELSE 0)
      <= signals + Cardinality({c \in Clients : cpc[c] \in {"wait", "killed"}})

(* The inductive invariant of the proofs.  What main's place says:         *)
MainInv ==
  /\ mpc = "thread" => tpc = "absent"
  /\ mpc \in {"unlink", "stop", "stopped"} => tpc \in {"absent", "done"}
  /\ tpc = "crashed" <=> mpc = "crashed"
  /\ names \/ mpc \in {"stop", "stopped", "crashed"}
  /\ mpc \in {"loop", "looping"} => poolUp
  /\ mpc \in {"pool", "loop", "looping"} => tpc # "absent"
  /\ mpc \in {"thread", "pool", "loop", "looping", "destory"} => ~shutdown
  /\ mpc = "join" => shutdown
  /\ tpc = "done" => shutdown

(* ... and, undisturbed, whose turn it is: the token of the one request in *)
(* flight is in serviceSem, in the hands of the thread, or in clientSem.   *)
Resting == tpc \in {"absent", "test", "wait", "done"}
Unmade(c) == Handed(c) = {}
Made(c) == IF want[c].kind \in {"good", "mixed"} THEN \E i \in 1..Len(queued) : Handed(c) = {i}
                                                ELSE Handed(c) = {}
Begun(c) ==
  IF want[c].kind = "mixed"
  THEN <<[for |-> c, part |-> "unsupported", upto |-> Smaller(want[c].size["unsupported"], Room)]>>
  ELSE <<>>

Serving(c) ==
  \/ tpc = "parse" /\ clientBuf = c /\ serverBuf = <<>> /\ Unmade(c)
  \/ tpc = "answer" /\ job = c /\ serverBuf = <<>> /\ Unmade(c)
  \/ /\ tpc = "download" /\ job = c /\ serverBuf = Begun(c) /\ Unmade(c)
     /\ want[c].kind \in {"good", "mixed"}
  \/ /\ tpc = "append" /\ job = c /\ serverBuf = Begun(c) /\ Made(c)
     /\ want[c].kind \in {"good", "mixed"}
  \/ tpc = "post" /\ job = c /\ serverBuf = Expected(c) /\ Made(c)

Flying(c) ==
  \/ serviceSem = 1 /\ clientSem = 0 /\ Resting /\ clientBuf = c /\ serverBuf = <<>> /\ Unmade(c)
  \/ serviceSem = 0 /\ clientSem = 0 /\ Serving(c)
  \/ serviceSem = 0 /\ clientSem = 1 /\ Resting /\ serverBuf = Expected(c) /\ Made(c)

Quiet == serviceSem = 0 /\ clientSem = 0 /\ Resting

NobodysTurn ==
  (\A c \in Clients : cpc[c] \notin {"wait", "print", "wipe1", "wipe2"})
     => Quiet /\ serverBuf = <<>>

Turn(c) ==
  /\ cpc[c] \in {"absent", "open", "check", "write", "post", "refused", "dropped"}
       => Unmade(c)
  /\ cpc[c] = "post" => clientBuf = c
  /\ cpc[c] = "wait" => Flying(c)
  /\ cpc[c] = "print" => Quiet /\ serverBuf = Expected(c) /\ Made(c)
  /\ cpc[c] \in {"wipe1", "wipe2"} => Quiet
  /\ cpc[c] \in {"wipe1", "wipe2", "done"} => got[c] = Expected(c) /\ Made(c)

TurnInv == Undisturbed => NobodysTurn /\ \A c \in Clients : Turn(c)

ServiceInv == TypeOK /\ MainInv /\ OneAdmitted /\ TurnInv

(* The pool and the names go only after the command line thread is gone.   *)
ThreadGoneFirst ==
  [][(poolUp /\ ~poolUp') \/ (names /\ ~names') => tpc \in {"absent", "done"}]_vars

(* The command line thread starts before the pool it hands requests to, and *)
(* main destroys the pool at the end: once the service has been in its main *)
(* loop, a request that is to be handed over always finds the pool.  (What  *)
(* may still crash the service then is a request without -d and a worker.)  *)
LoopFindsPool == [](mpc = "looping" => [](tpc = "download" => poolUp))

(* A posted request is answered, unless the service was disturbed, failed  *)
(* to start or crashed.                                                    *)
Answered ==
  \A c \in Clients :
    cpc[c] = "wait" ~> \/ cpc[c] # "wait"
                       \/ ~Undisturbed
                       \/ mpc \notin {"thread", "pool", "loop", "looping"}

(* Once destory waits for the command line thread, one token, of a client  *)
(* or of a second signal, or a request in hand, is enough for main to get  *)
(* past the join and to thread_pool_destory.                               *)
JoinsWithToken ==
  (mpc = "join" /\ (serviceSem > 0 \/ tpc # "wait")) ~> mpc \in {"stop", "stopped", "crashed"}

(* What the two rest on beside fairness.  The command line thread can go   *)
(* on everywhere but at sem_wait without a token, ...                      *)
ThreadCanGo ==
  \/ tpc \in {"test", "parse", "answer", "download", "append", "post"}
  \/ tpc = "wait" /\ serviceSem > 0

(* ... so that in a service that was not disturbed and is not ending a     *)
(* client that waits has its token, or the thread can go on, or main is    *)
(* about to create it: nobody waits for a step that nobody can take, ...   *)
Calm == Undisturbed /\ mpc \in {"thread", "pool", "loop", "looping"}
AnswerNotBlocked ==
  Calm => \A c \in Clients : cpc[c] = "wait" => clientSem > 0 \/ ThreadCanGo \/ mpc = "thread"

(* ... and every step of the thread brings the answer nearer, none of      *)
(* anybody else takes it further away.                                     *)
StepsToAnswer ==
  LET left == [absent |-> 8, test |-> 7, wait |-> 6, parse |-> 5, answer |-> 4,
               download |-> 3, append |-> 2, post |-> 1, done |-> 0, crashed |-> 0]
  IN  IF clientSem > 0 THEN 0 ELSE left[tpc]
AnswerNearer ==
  [][Calm /\ Calm' =>
       \A c \in Clients : cpc[c] = "wait" /\ cpc'[c] = "wait" =>
         /\ StepsToAnswer' <= StepsToAnswer
         /\ tpc' # tpc /\ clientSem = 0 => StepsToAnswer' < StepsToAnswer]_vars

(* The same of the join: while main waits, each step of the thread brings  *)
(* its end nearer, and the token or the request it needs is not lost.      *)
Ending == mpc = "join" /\ (serviceSem > 0 \/ tpc # "wait")
StepsToEnd ==
  LET left == [absent |-> 0, done |-> 0, crashed |-> 0, test |-> 1, post |-> 2, append |-> 3,
               download |-> 4, answer |-> 5, parse |-> 6, wait |-> 7]
  IN  left[tpc]
EndNearer ==
  [][Ending /\ mpc' = "join" =>
       /\ Ending'
       /\ StepsToEnd' <= StepsToEnd
       /\ tpc' # tpc => StepsToEnd' < StepsToEnd]_vars

(* A service told to stop gets to stopping its pool (main.c:145 logs that   *)
(* it stopped).  It need not: the signal's only token can be used up before *)
(* the flag is set.                                                         *)
ServiceStops == (mpc = "looping" /\ ~running) ~> mpc \in {"stop", "stopped"}

(* The -d of a request applies to that request only (the help text at       *)
(* main.c:304-305).  It does not: task.dir is not initialised.              *)
DirOnlyThisTime ==
  \A i \in 1..Len(queued) :
    queued[i].for # Nobody /\ queued[i].dir \in Dirs =>
      queued[i].dir = want[queued[i].for].dir
=============================================================================
